---------------------------- MODULE ServiceProofs ----------------------------
(***************************************************************************)
(* Proofs about the watcher as a process (WatcherService), the terminals that *)
(* it serves (TerminalSessions), and how it lets browsers and devices in      *)
(* (LanApproval, Pairing); and of the four as MCService puts them together.   *)
(*                                                                            *)
(* TerminalSessions.  A session in the table and its shell go together        *)
(* (OneToOne, Goes): what the shell printed is sent, buffered or held back    *)
(* (Streams), and what waits to be typed is newer than what was (Waits).  A   *)
(* shell without a session is as it was left (Left).  One open of a session   *)
(* at most is under way, and none of one that is in the table (OneOpens).     *)
(*                                                                            *)
(* WatcherService.  As long as no start lock is removed from under its        *)
(* holder, one starter at most is past the lock (LockHeld); what it has       *)
(* listed and killed is every process but its own (Cleared); so one process   *)
(* at most lives that does not start its successor (OneLives), and the state  *)
(* file is its own while a stop waits for it (Asked).                         *)
(***************************************************************************)
EXTENDS MCService, SequenceTheorems, FiniteSetTheorems, TLAPS

-----------------------------------------------------------------------------
(***************************************************************************)
(* Sequences of numbers in a row.                                             *)
(***************************************************************************)
\* The numbers after a, up to b.
Span(a, b) == [i \in 1 .. b - a |-> a + i]

LEMMA SpanIs ==
    ASSUME NEW a \in Nat, NEW b \in Nat, a <= b
    PROVE  /\ Span(a, b) \in Seq(Nat) /\ Len(Span(a, b)) = b - a
           /\ \A i \in 1 .. b - a : Span(a, b)[i] = a + i
           /\ Span(a, a) = <<>>
  <1>1. b - a \in Nat
    OBVIOUS
  <1>2. Span(a, b) \in [1 .. b - a -> Nat]
    BY DEF Span
  <1>3. Span(a, b) \in Seq(Nat)
    BY <1>1, <1>2
  <1>4. a - a = 0
    OBVIOUS
  <1>5. Span(a, a) = <<>>
    BY <1>4 DEF Span
  <1> QED  BY <1>1, <1>2, <1>3, <1>5 DEF Span

\* What follows a stretch of numbers, by one more.
LEMMA SpanGrows ==
    ASSUME NEW a \in Nat, NEW b \in Nat, a <= b,
           NEW s \in Seq(Nat), NEW t \in Seq(Nat), s \o t = Span(a, b)
    PROVE  s \o Append(t, b + 1) = Span(a, b + 1)
  <1> DEFINE u == s \o Append(t, b + 1)
             v == Span(a, b + 1)
  <1>1. Append(t, b + 1) \in Seq(Nat) /\ Len(Append(t, b + 1)) = Len(t) + 1
        /\ Append(t, b + 1)[Len(t) + 1] = b + 1
        /\ \A i \in 1 .. Len(t) : Append(t, b + 1)[i] = t[i]
    BY AppendProperties
  <1>2. u \in Seq(Nat) /\ Len(u) = Len(s) + Len(t) + 1
        /\ \A i \in 1 .. Len(s) + Len(t) + 1 :
              u[i] = IF i <= Len(s) THEN s[i] ELSE Append(t, b + 1)[i - Len(s)]
    <2> DEFINE more == Append(t, b + 1)
    <2>1. more \in Seq(Nat) /\ Len(more) = Len(t) + 1
      BY <1>1
    <2>2. Len(s) \in Nat /\ Len(t) \in Nat
      OBVIOUS
    <2> HIDE DEF more
    <2>3. /\ s \o more \in Seq(Nat) /\ Len(s \o more) = Len(s) + Len(more)
          /\ \A i \in 1 .. Len(s) + Len(more) :
                (s \o more)[i] = IF i <= Len(s) THEN s[i] ELSE more[i - Len(s)]
      BY <2>1, ConcatProperties
    <2>4. Len(s) + Len(more) = Len(s) + Len(t) + 1
      BY <2>1, <2>2
    <2> QED  BY <2>3, <2>4 DEF more
  <1>3. Len(s) + Len(t) = b - a /\ Len(s) \in Nat /\ Len(t) \in Nat
        /\ \A i \in 1 .. b - a : (IF i <= Len(s) THEN s[i] ELSE t[i - Len(s)]) = a + i
    <2>1. Len(s \o t) = Len(s) + Len(t) /\ \A i \in 1 .. Len(s) + Len(t) :
             (s \o t)[i] = IF i <= Len(s) THEN s[i] ELSE t[i - Len(s)]
      BY ConcatProperties
    <2>2. Len(s \o t) = b - a /\ \A i \in 1 .. b - a : (s \o t)[i] = a + i
      BY SpanIs
    <2> QED  BY <2>1, <2>2
  <1>4. b + 1 \in Nat /\ a <= b + 1
    OBVIOUS
  <1>5. v \in Seq(Nat) /\ Len(v) = (b + 1) - a /\ \A i \in 1 .. (b + 1) - a : v[i] = a + i
    BY <1>4, SpanIs
  <1> HIDE DEF u, v
  <1>6. ASSUME NEW i \in 1 .. Len(u)  PROVE u[i] = v[i]
    <2>0. i \in Nat /\ 1 <= i /\ i <= (b + 1) - a
      BY <1>2, <1>3
    <2>1. CASE i <= b - a
      <3>1. i \in 1 .. b - a
        BY <2>0, <2>1
      <3>2. i <= Len(s) \/ i - Len(s) \in 1 .. Len(t)
        BY <1>3, <2>0, <2>1
      <3>3. u[i] = IF i <= Len(s) THEN s[i] ELSE t[i - Len(s)]
        BY <1>1, <1>2, <3>2
      <3> QED  BY <1>3, <1>5, <2>0, <3>1, <3>3
    <2>2. CASE i = (b + 1) - a
      <3>1. ~(i <= Len(s)) /\ i - Len(s) = Len(t) + 1
        BY <1>3, <2>2
      <3>2. u[i] = b + 1
        BY <1>1, <1>2, <3>1
      <3> QED  BY <1>5, <2>0, <2>2, <3>2
    <2> QED  BY <2>0, <2>1, <2>2
  <1>7. Len(u) = Len(v)
    <2>1. Len(u) = Len(s) + Len(t) + 1 /\ Len(v) = (b + 1) - a
      BY <1>2, <1>5
    <2>2. Len(s) + Len(t) = b - a
      BY <1>3
    <2>3. Len(s) \in Nat /\ Len(t) \in Nat
      BY LenProperties
    <2> HIDE DEF u, v
    <2> QED  BY <2>1, <2>2, <2>3
  <1> QED  BY <1>2, <1>5, <1>6, <1>7, SeqEqual DEF u, v

\* The beginning of a sequence is one of its prefixes.
LEMMA BeginningIsPrefix ==
    ASSUME NEW S, NEW s \in Seq(S), NEW t \in Seq(S)
    PROVE  IsPrefix(s, s \o t)
  <1>1. Len(s) \in Nat /\ Len(t) \in Nat /\ Len(s \o t) = Len(s) + Len(t)
    BY ConcatProperties
  <1>2. CASE Len(s) = 0
    <2>1. SubSeq(s, 1, 0) = <<>> /\ SubSeq(s \o t, 1, 0) = <<>>
      BY SubSeqEmpty
    <2> QED  BY <1>1, <1>2, <2>1 DEF IsPrefix
  <1>3. CASE Len(s) # 0
    <2>1. 1 \in 1 .. Len(s) /\ Len(s) \in 1 .. Len(s)
      BY <1>1, <1>3
    <2>2. SubSeq(s \o t, 1, Len(s)) = SubSeq(s, 1, Len(s))
      BY <2>1, SubSeqOfConcat1
    <2> QED  BY <1>1, <2>2 DEF IsPrefix
  <1> QED  BY <1>2, <1>3

-----------------------------------------------------------------------------
(***************************************************************************)
(* TerminalSessions: what a session and its shell have to do with each other. *)
(***************************************************************************)

\* What the shell h has printed is with the browser, is buffered or is held back.
Streams(s, h) ==
    /\ h.marker <= h.printed
    /\ IF s.ready THEN s.preamble = <<>> /\ h.sent \o s.output = Span(h.marker, h.printed)
                  ELSE /\ h.marker = 0 /\ h.sent = <<>> /\ s.output = <<>>
                       /\ s.preamble = Span(0, h.printed)

\* What waits to be written to it is newer than what was, in the order it was typed.
Waits(s, h) ==
    /\ h.typed <= s.received
    /\ \A i \in DOMAIN s.pending :
          h.typed < s.pending[i].sequence /\ s.pending[i].sequence <= s.received
    /\ \A i, j \in DOMAIN s.pending : i < j => s.pending[i].sequence < s.pending[j].sequence

Goes(s, h) == h.alive /\ ~h.told /\ Streams(s, h) /\ Waits(s, h)

\* What is left of a shell.
Left(h) ==
    /\ h.marker <= h.printed
    /\ IsPrefix(h.sent, Span(h.marker, h.printed))
    /\ h.told => h.sent = Span(h.marker, h.printed)

\* Sessions and the shells that run belong to each other, one to one.
OneToOne ==
    /\ \A id \in DOMAIN sessions : sessions[id].shell \in DOMAIN shells
    /\ \A id, other \in DOMAIN sessions :
          sessions[id].shell = sessions[other].shell => id = other
    /\ \A n \in DOMAIN shells :
          shells[n].alive => \E id \in DOMAIN sessions : sessions[id].shell = n
AllGo == \A id \in DOMAIN sessions : Goes(sessions[id], shells[sessions[id].shell])
AllLeft == \A n \in DOMAIN shells : Left(shells[n])
\* Of what is opened for an id, one open has not returned, and until its shell is there
\* the id has no session.
OneOpens ==
    \A id \in SessionIds :
        /\ opening[id].starting + opening[id].telling <= 1
        /\ opening[id].starting > 0 => id \notin DOMAIN sessions

TerminalInv == TerminalTypeOK /\ OneToOne /\ AllGo /\ AllLeft /\ OneOpens

\* What else the server keeps.
Quiet ==
    /\ serving \in BOOLEAN
    /\ leases \in [Repository -> Nat]
    /\ listening \subseteq {"device"} \cup Repository
    /\ opening \in [SessionIds -> [starting : Nat, telling : Nat]]

-----------------------------------------------------------------------------
LEMMA TerminalBegins == TerminalInit => TerminalInv
  <1> SUFFICES ASSUME TerminalInit  PROVE TerminalInv
    OBVIOUS
  <1>1. DOMAIN sessions = {} /\ DOMAIN shells = {}
    BY DEF TerminalInit
  <1>2. TerminalTypeOK
    <2>1. shells \in Seq(Shell)
      BY DEF TerminalInit
    <2>2. opening \in [SessionIds -> [starting : Nat, telling : Nat]]
      BY DEF TerminalInit
    <2>3. leases \in [Repository -> Nat]
      BY DEF TerminalInit
    <2> QED  BY <1>1, <2>1, <2>2, <2>3 DEF TerminalInit, TerminalTypeOK
  <1>3. OneToOne /\ AllGo /\ AllLeft
    BY <1>1 DEF OneToOne, AllGo, AllLeft
  <1>4. OneOpens
    BY <1>1 DEF TerminalInit, OneOpens
  <1> QED  BY <1>2, <1>3, <1>4 DEF TerminalInv

LEMMA TablesAre ==
    ASSUME TerminalInv
    PROVE  /\ DOMAIN shells = 1 .. Len(shells) /\ Len(shells) \in Nat /\ shells \in Seq(Shell)
           /\ \A n \in DOMAIN shells : shells[n] \in Shell /\ Left(shells[n])
           /\ \A id \in DOMAIN sessions :
                 /\ id \in SessionIds /\ sessions[id] \in Session
                 /\ sessions[id].shell \in DOMAIN shells
                 /\ Goes(sessions[id], shells[sessions[id].shell])
           /\ Quiet
  <1>1. shells \in Seq(Shell)
    BY DEF TerminalInv, TerminalTypeOK
  <1> QED  BY <1>1 DEF TerminalInv, TerminalTypeOK, OneToOne, AllGo, AllLeft, Quiet

\* Numbers up to a bound are numbers.
LEMMA PrintsAreNumbers ==
    ASSUME NEW t \in Seq(1 .. MaxPrinted)
    PROVE  t \in Seq(Nat)
  <1>1. 1 .. MaxPrinted \subseteq Nat
    OBVIOUS
  <1> QED  BY <1>1, SeqMonotonic

\* When the session of a shell ends, what the browser has is a prefix.
LEMMA GoneIsLeft ==
    ASSUME NEW s \in Session, NEW h \in Shell, Goes(s, h)
    PROVE  Left(h)
  <1>0. h.marker \in Nat /\ h.printed \in Nat /\ h.marker <= h.printed
    BY DEF Goes, Streams, Shell
  <1>1. h.sent \in Seq(Nat) /\ s.output \in Seq(Nat)
    BY PrintsAreNumbers DEF Session, Shell
  <1>2. CASE s.ready
    <2>1. h.sent \o s.output = Span(h.marker, h.printed)
      BY <1>2 DEF Goes, Streams
    <2>2. IsPrefix(h.sent, Span(h.marker, h.printed))
      BY <1>1, <2>1, BeginningIsPrefix
    <2> QED  BY <1>0, <2>2 DEF Left, Goes
  <1>3. CASE ~s.ready
    <2> DEFINE all == Span(h.marker, h.printed)
    <2>1. all \in Seq(Nat)
      BY <1>0, SpanIs
    <2>2. h.sent = <<>> /\ <<>> \o all = all
      <3> HIDE DEF all
      <3> QED  BY <1>3, <2>1, ConcatEmptySeq DEF Goes, Streams
    <2> HIDE DEF all
    <2>3. IsPrefix(<<>>, <<>> \o all)
      <3>1. <<>> \in Seq(Nat)
        OBVIOUS
      <3> QED  BY <2>1, <3>1, BeginningIsPrefix
    <2>4. IsPrefix(h.sent, all)
      BY <2>2, <2>3
    <2> QED  BY <1>0, <2>4 DEF Left, Goes, all
  <1> QED  BY <1>2, <1>3

LEMMA KilledIsLeft ==
    ASSUME NEW h \in Shell, Left(h)
    PROVE  LET k == [h EXCEPT !.alive = FALSE] IN k \in Shell /\ Left(k) /\ ~k.alive
  BY DEF Shell, Left

\* Sessions leave the table, and their shells are killed.  all are the shells before that.
LEMMA ClosingKeeps ==
    ASSUME TerminalInv, NEW ids, ids \subseteq DOMAIN sessions,
           NEW all \in Seq(Shell), Len(all) = Len(shells), CloseAll(ids, all),
           \A n \in DOMAIN shells :
              all[n] = shells[n] \/ (Left(all[n]) /\ \E id \in ids : sessions[id].shell = n),
           Quiet',
           \A id \in SessionIds :
              /\ opening'[id].starting + opening'[id].telling <= 1
              /\ opening'[id].starting > 0 => id \notin DOMAIN sessions \ ids
    PROVE  TerminalInv'
  <1> DEFINE Killed(n) == \E id \in ids : sessions[id].shell = n
  <1>1. /\ DOMAIN shells = 1 .. Len(shells) /\ Len(shells) \in Nat
        /\ DOMAIN all = DOMAIN shells
        /\ \A n \in DOMAIN shells : shells[n] \in Shell /\ Left(shells[n])
    BY TablesAre
  <1>2. \A n \in DOMAIN shells : all[n] \in Shell /\ Left(all[n])
    BY <1>1
  <1>3. shells' = [n \in DOMAIN shells |->
                      IF Killed(n) THEN [all[n] EXCEPT !.alive = FALSE] ELSE all[n]]
    BY <1>1 DEF CloseAll, KillShells
  <1>4. DOMAIN shells' = DOMAIN shells
    BY <1>3
  <1>5. ASSUME NEW n \in DOMAIN shells
        PROVE  /\ shells'[n] \in Shell /\ Left(shells'[n])
               /\ shells'[n].alive => ~Killed(n) /\ shells'[n] = shells[n]
    <2>1. CASE Killed(n)
      <3>1. shells'[n] = [all[n] EXCEPT !.alive = FALSE]
        BY <1>3, <2>1
      <3> QED  BY <1>2, <3>1, KilledIsLeft
    <2>2. CASE ~Killed(n)
      <3>1. shells'[n] = all[n]
        BY <1>3, <2>2
      <3>2. all[n] = shells[n]
        BY <2>2
      <3> QED  BY <1>1, <2>2, <3>1, <3>2
    <2> QED  BY <2>1, <2>2
  <1>6. shells' \in Seq(Shell)
    <2>1. shells' \in [1 .. Len(shells) -> Shell]
      <3>1. \A n \in DOMAIN shells : shells'[n] \in Shell
        BY <1>5
      <3> HIDE DEF Killed
      <3> QED  BY <1>1, <1>3, <3>1
    <2> QED  BY <1>1, <2>1
  <1>7. /\ DOMAIN sessions' = DOMAIN sessions \ ids
        /\ \A id \in DOMAIN sessions' : sessions'[id] = sessions[id]
    BY DEF CloseAll
  <1>8. TerminalTypeOK'
    BY <1>6, <1>7, TablesAre DEF TerminalTypeOK, Quiet
  <1>9. ASSUME NEW id \in DOMAIN sessions'
        PROVE  shells'[sessions'[id].shell] = shells[sessions[id].shell]
    <2> DEFINE n == sessions[id].shell
    <2>1. id \in DOMAIN sessions /\ id \notin ids /\ n \in DOMAIN shells /\ sessions'[id] = sessions[id]
      BY <1>7, TablesAre
    <2>2. ~Killed(n)
      BY <2>1 DEF TerminalInv, OneToOne
    <2>3. shells'[n] = all[n] /\ all[n] = shells[n]
      BY <1>3, <2>1, <2>2
    <2> QED  BY <2>1, <2>3
  <1>10. OneToOne'
    <2>1. \A id \in DOMAIN sessions' : sessions'[id].shell \in DOMAIN shells'
      BY <1>4, <1>7, TablesAre
    <2>2. \A id, other \in DOMAIN sessions' :
             sessions'[id].shell = sessions'[other].shell => id = other
      BY <1>7 DEF TerminalInv, OneToOne
    <2>3. ASSUME NEW n \in DOMAIN shells', shells'[n].alive
          PROVE  \E id \in DOMAIN sessions' : sessions'[id].shell = n
      <3>1. n \in DOMAIN shells /\ shells[n].alive /\ ~Killed(n)
        BY <1>4, <1>5, <2>3
      <3>2. PICK id \in DOMAIN sessions : sessions[id].shell = n
        BY <3>1 DEF TerminalInv, OneToOne
      <3> QED  BY <1>7, <3>1, <3>2
    <2> QED  BY <2>1, <2>2, <2>3 DEF OneToOne
  <1>11. AllGo'
    BY <1>7, <1>9, TablesAre DEF AllGo
  <1>12. AllLeft'
    BY <1>4, <1>5 DEF AllLeft
  <1>13. OneOpens'
    BY <1>7 DEF OneOpens
  <1> QED  BY <1>8, <1>10, <1>11, <1>12, <1>13 DEF TerminalInv

\* A session and its shell go on.
LEMMA ChangingKeeps ==
    ASSUME TerminalInv, NEW id \in DOMAIN sessions,
           NEW s \in Session, NEW h \in Shell, s.shell = sessions[id].shell, Goes(s, h),
           sessions' = [sessions EXCEPT ![id] = s],
           shells' = [shells EXCEPT ![sessions[id].shell] = h],
           UNCHANGED <<serving, leases, listening, opening>>
    PROVE  TerminalInv'
  <1> DEFINE n == sessions[id].shell
  <1>1. /\ DOMAIN shells = 1 .. Len(shells) /\ Len(shells) \in Nat /\ shells \in Seq(Shell)
        /\ n \in DOMAIN shells
    BY TablesAre
  <1>2. /\ DOMAIN sessions' = DOMAIN sessions /\ DOMAIN shells' = DOMAIN shells
        /\ \A i \in DOMAIN sessions : sessions'[i] = IF i = id THEN s ELSE sessions[i]
        /\ \A k \in DOMAIN shells : shells'[k] = IF k = n THEN h ELSE shells[k]
    BY <1>1
  <1>3. shells' \in Seq(Shell)
    <2>1. shells' \in [1 .. Len(shells) -> Shell]
      <3>1. shells \in [1 .. Len(shells) -> Shell]
        BY <1>1
      <3> QED  BY <3>1
    <2> QED  BY <1>1, <2>1
  <1>4. h.alive /\ Left(h)
    BY GoneIsLeft DEF Goes
  <1> HIDE DEF n
  <1>5. TerminalTypeOK'
    BY <1>2, <1>3, TablesAre DEF TerminalTypeOK, Quiet
  <1>6. \A i \in DOMAIN sessions' : sessions'[i].shell = sessions[i].shell
    BY <1>2
  <1>7. OneToOne'
    <2>1. \A i \in DOMAIN sessions' : sessions'[i].shell \in DOMAIN shells'
      BY <1>2, <1>6, TablesAre
    <2>2. \A i, other \in DOMAIN sessions' :
             sessions'[i].shell = sessions'[other].shell => i = other
      BY <1>2, <1>6 DEF TerminalInv, OneToOne
    <2>3. ASSUME NEW k \in DOMAIN shells', shells'[k].alive
          PROVE  \E i \in DOMAIN sessions' : sessions'[i].shell = k
      <3>1. k = n \/ shells[k].alive
        BY <1>2, <2>3
      <3>2. \E i \in DOMAIN sessions : sessions[i].shell = k
        BY <1>2, <3>1 DEF TerminalInv, OneToOne, n
      <3> QED  BY <1>2, <1>6, <3>2
    <2> QED  BY <2>1, <2>2, <2>3 DEF OneToOne
  <1>8. ASSUME NEW i \in DOMAIN sessions'
        PROVE  Goes(sessions'[i], shells'[sessions'[i].shell])
    <2>1. CASE i = id
      <3>1. sessions'[i] = s /\ shells'[s.shell] = h
        BY <1>1, <1>2, <2>1 DEF n
      <3> QED  BY <3>1
    <2>2. CASE i # id
      <3>1. sessions'[i] = sessions[i] /\ sessions[i].shell # n
        BY <1>2, <2>2 DEF TerminalInv, OneToOne, n
      <3>2. shells'[sessions[i].shell] = shells[sessions[i].shell]
        BY <1>2, <3>1, TablesAre
      <3> QED  BY <1>2, <3>1, <3>2, TablesAre
    <2> QED  BY <2>1, <2>2
  <1>9. AllGo' /\ AllLeft'
    BY <1>2, <1>4, <1>8, TablesAre DEF AllGo, AllLeft
  <1>10. OneOpens'
    BY <1>2 DEF TerminalInv, OneOpens
  <1> QED  BY <1>5, <1>7, <1>9, <1>10 DEF TerminalInv

\* Neither the sessions nor the shells change.
LEMMA StayingKeeps ==
    ASSUME TerminalInv, UNCHANGED <<sessions, shells>>, Quiet',
           \A id \in SessionIds :
              /\ opening'[id].starting + opening'[id].telling <= 1
              /\ opening'[id].starting > 0 => id \notin DOMAIN sessions
    PROVE  TerminalInv'
  <1>1. TerminalTypeOK'
    BY DEF TerminalInv, TerminalTypeOK, Quiet
  <1>2. OneToOne' /\ AllGo' /\ AllLeft'
    BY DEF TerminalInv, OneToOne, AllGo, AllLeft
  <1>3. OneOpens'
    BY DEF OneOpens
  <1> QED  BY <1>1, <1>2, <1>3 DEF TerminalInv

LEMMA OpeningsAre ==
    ASSUME TerminalInv
    PROVE  \A id \in SessionIds :
              /\ opening[id] \in [starting : Nat, telling : Nat]
              /\ opening[id].starting + opening[id].telling <= 1
              /\ opening[id].starting > 0 => id \notin DOMAIN sessions
  BY DEF TerminalInv, TerminalTypeOK, OneOpens

\* Sessions end, and nothing else happens.
LEMMA EndingKeeps ==
    ASSUME TerminalInv, NEW ids, ids \subseteq DOMAIN sessions,
           CloseAll(ids, shells), UNCHANGED opening, Quiet'
    PROVE  TerminalInv'
  BY ClosingKeeps, OpeningsAre, TablesAre

\* A session changes, and its shell does not.
LEMMA SessionChanges ==
    ASSUME TerminalInv, NEW id \in DOMAIN sessions,
           NEW s \in Session, s.shell = sessions[id].shell,
           Goes(s, shells[sessions[id].shell]),
           sessions' = [sessions EXCEPT ![id] = s],
           UNCHANGED <<shells, serving, leases, listening, opening>>
    PROVE  TerminalInv'
  <1> DEFINE n == sessions[id].shell
  <1>1. n \in DOMAIN shells /\ shells[n] \in Shell
        /\ shells \in [1 .. Len(shells) -> Shell] /\ DOMAIN shells = 1 .. Len(shells)
    <2>1. shells \in Seq(Shell)
      BY TablesAre
    <2> QED  BY <2>1, TablesAre
  <1>2. shells' = [shells EXCEPT ![n] = shells[n]]
    BY <1>1
  <1> QED  BY <1>1, <1>2, ChangingKeeps

\* An open has its shell, or an error: its browser is still to be told.
LEMMA OpenReturns ==
    ASSUME TerminalInv, NEW id \in SessionIds, opening[id].starting > 0,
           opening' = [opening EXCEPT ![id].starting = @ - 1, ![id].telling = @ + 1]
    PROVE  \E o \in [starting : Nat, telling : Nat] :
              opening' = [opening EXCEPT ![id] = o] /\ o.starting = 0 /\ o.telling = 1
  <1> DEFINE Calls == [starting : Nat, telling : Nat]
             a == [opening[id] EXCEPT !.starting = opening[id].starting - 1]
             b == [a EXCEPT !.telling = opening[id].telling + 1]
  <1>1. opening \in [SessionIds -> Calls] /\ opening[id] \in Calls
    BY OpeningsAre, TablesAre DEF Quiet
  <1>2. opening[id].starting = 1 /\ opening[id].telling = 0
    <2>1. opening[id].starting \in Nat /\ opening[id].telling \in Nat
      BY <1>1
    <2> QED  BY <2>1, OpeningsAre
  <1>3. 1 - 1 = 0 /\ 0 + 1 = 1 /\ 0 \in Nat /\ 1 \in Nat
    OBVIOUS
  <1>4. a \in Calls /\ a.starting = 0 /\ a.telling = 0
    BY <1>1, <1>2, <1>3
  <1>5. b \in Calls /\ b.starting = 0 /\ b.telling = 1
    <2> HIDE DEF a
    <2> QED  BY <1>2, <1>3, <1>4
  <1>6. opening' = [opening EXCEPT ![id] = b]
    <2>1. opening' = [[opening EXCEPT ![id] = a] EXCEPT ![id].telling = @ + 1]
      OBVIOUS
    <2>2. [opening EXCEPT ![id] = a][id] = a
      BY <1>1
    <2> HIDE DEF a
    <2> QED  BY <1>1, <1>2, <1>4, <2>1, <2>2
  <1> HIDE DEF b
  <1> QED  BY <1>5, <1>6

\* The machine serves more or fewer repositories, or starts; an open ends without a shell.
LEMMA ServingKeeps ==
    ASSUME TerminalInv,
           \/ StartTerminal
           \/ \E r \in Repository : AddRepository(r) \/ ReleaseRepository(r)
           \/ \E id \in SessionIds : ShellFails(id) \/ OpenAnswered(id)
    PROVE  TerminalInv'
  <1>1. UNCHANGED <<sessions, shells>>
    BY DEF StartTerminal, AddRepository, ReleaseRepository, ShellFails, OpenAnswered
  <1>2. Quiet
    BY TablesAre
  <1>3. CASE StartTerminal
    <2>1. Quiet' /\ UNCHANGED opening
      BY <1>2, <1>3 DEF StartTerminal, Rooms, Quiet
    <2> QED  BY <1>1, <2>1, OpeningsAre, StayingKeeps
  <1>4. CASE \E r \in Repository : AddRepository(r) \/ ReleaseRepository(r)
    <2>1. PICK r \in Repository : AddRepository(r) \/ ReleaseRepository(r)
      BY <1>4
    <2>2. leases' \in [Repository -> Nat]
      <3>1. leases[r] + 1 \in Nat /\ (leases[r] > 0 => leases[r] - 1 \in Nat)
        BY <1>2 DEF Quiet
      <3> QED  BY <1>2, <2>1, <3>1 DEF AddRepository, ReleaseRepository, Quiet
    <2>3. Quiet' /\ UNCHANGED opening
      BY <1>2, <2>1, <2>2 DEF AddRepository, ReleaseRepository, Quiet
    <2> QED  BY <1>1, <2>3, OpeningsAre, StayingKeeps
  <1>5. CASE \E id \in SessionIds : ShellFails(id) \/ OpenAnswered(id)
    <2>1. PICK id \in SessionIds : ShellFails(id) \/ OpenAnswered(id)
      BY <1>5
    <2>2. opening[id] \in [starting : Nat, telling : Nat]
      BY OpeningsAre
    <2>3. PICK o \in [starting : Nat, telling : Nat] :
             /\ opening' = [opening EXCEPT ![id] = o]
             /\ o.starting + o.telling <= 1 /\ (o.starting > 0 => opening[id].starting > 0)
      <3>1. CASE ShellFails(id)
        <4>1. \E o \in [starting : Nat, telling : Nat] :
                 opening' = [opening EXCEPT ![id] = o] /\ o.starting = 0 /\ o.telling = 1
          BY <3>1, OpenReturns DEF ShellFails
        <4>2. opening[id].starting > 0
          BY <3>1 DEF ShellFails
        <4>3. 0 + 1 <= 1 /\ ~(0 > 0)
          OBVIOUS
        <4>4. PICK o \in [starting : Nat, telling : Nat] :
                 opening' = [opening EXCEPT ![id] = o] /\ o.starting = 0 /\ o.telling = 1
          BY <4>1
        <4>5. o.starting + o.telling <= 1 /\ ~(o.starting > 0)
          BY <4>3, <4>4
        <4> QED  BY <4>4, <4>5
      <3>2. CASE OpenAnswered(id)
        <4> DEFINE o == [opening[id] EXCEPT !.telling = opening[id].telling - 1]
        <4>1. opening' = [opening EXCEPT ![id] = o]
          BY <3>2 DEF OpenAnswered
        <4>2. opening[id].telling > 0 /\ opening[id].starting + opening[id].telling <= 1
          BY <3>2, OpeningsAre DEF OpenAnswered
        <4>3. opening[id].starting \in Nat /\ opening[id].telling \in Nat
          BY <2>2
        <4>4. opening[id].telling - 1 \in Nat
          BY <4>2, <4>3
        <4>5. o \in [starting : Nat, telling : Nat] /\ o.starting = opening[id].starting
              /\ o.telling = opening[id].telling - 1
          BY <2>2, <4>4
        <4>6. o.starting + o.telling <= 1
          BY <4>2, <4>3, <4>5
        <4> QED  BY <4>1, <4>5, <4>6
      <3> QED  BY <2>1, <3>1, <3>2
    <2>4. Quiet'
      BY <1>2, <2>1, <2>3 DEF ShellFails, OpenAnswered, Quiet
    <2>5. \A i \in SessionIds : opening'[i] = IF i = id THEN o ELSE opening[i]
      BY <1>2, <2>3 DEF Quiet
    <2>6. \A i \in SessionIds :
             /\ opening'[i].starting + opening'[i].telling <= 1
             /\ opening'[i].starting > 0 => i \notin DOMAIN sessions
      BY <2>3, <2>5, OpeningsAre
    <2> QED  BY <1>1, <2>4, <2>6, StayingKeeps
  <1> QED  BY <1>3, <1>4, <1>5

\* Sessions end because the server, the browser or the connection does.
LEMMA EndsKeep ==
    ASSUME TerminalInv,
           \/ StopTerminal \/ SweepSessions \/ \E id \in SessionIds : SendFails(id)
    PROVE  TerminalInv'
  <1>1. Quiet /\ UNCHANGED opening
    BY TablesAre DEF StopTerminal, SweepSessions, SendFails
  <1>2. Quiet'
    BY <1>1 DEF StopTerminal, SweepSessions, SendFails, Quiet
  <1>3. PICK ids : ids \subseteq DOMAIN sessions /\ CloseAll(ids, shells)
    <2>1. CASE StopTerminal
      BY <2>1 DEF StopTerminal
    <2>2. CASE SweepSessions
      <3> DEFINE ids == {id \in DOMAIN sessions : sessions[id].stale}
      <3>1. CloseAll(ids, shells)
        BY <2>2 DEF SweepSessions
      <3> QED  BY <3>1
    <2>3. CASE \E id \in SessionIds : SendFails(id)
      <3>1. PICK id \in SessionIds : SendFails(id)
        BY <2>3
      <3>2. {id} \subseteq DOMAIN sessions /\ CloseAll({id}, shells)
        BY <3>1 DEF SendFails
      <3> QED  BY <3>2
    <2> QED  BY <2>1, <2>2, <2>3
  <1> QED  BY <1>1, <1>2, <1>3, EndingKeeps

LEMMA OpenFrameKeeps ==
    ASSUME TerminalInv, NEW id \in SessionIds, OpenFrame(id)
    PROVE  TerminalInv'
  <1> DEFINE old == {i \in DOMAIN sessions : Browser(i) = Browser(id)}
  <1>1. /\ CloseAll(old, shells) /\ UNCHANGED <<serving, leases, listening>>
        /\ id \notin DOMAIN sessions /\ InFlight(id) = 0
    BY DEF OpenFrame, Opens
  <1>2. opening[id] \in [starting : Nat, telling : Nat]
        /\ opening[id].starting = 0 /\ opening[id].telling = 0
    BY <1>1, OpeningsAre DEF InFlight
  <1>3. PICK o \in [starting : Nat, telling : Nat] :
           /\ opening' = [opening EXCEPT ![id] = o] /\ o.starting + o.telling <= 1
    <2>1. CASE opening' = [opening EXCEPT ![id].telling = @ + 1]
      <3> DEFINE o == [opening[id] EXCEPT !.telling = opening[id].telling + 1]
      <3>1. o \in [starting : Nat, telling : Nat] /\ o.starting + o.telling <= 1
        BY <1>2
      <3>2. opening' = [opening EXCEPT ![id] = o]
        BY <2>1
      <3> QED  BY <3>1, <3>2
    <2>2. CASE opening' = [opening EXCEPT ![id].starting = @ + 1]
      <3> DEFINE o == [opening[id] EXCEPT !.starting = opening[id].starting + 1]
      <3>1. o \in [starting : Nat, telling : Nat] /\ o.starting + o.telling <= 1
        BY <1>2
      <3>2. opening' = [opening EXCEPT ![id] = o]
        BY <2>2
      <3> QED  BY <3>1, <3>2
    <2> QED  BY <2>1, <2>2 DEF OpenFrame
  <1>4. Quiet
    BY TablesAre
  <1>5. Quiet'
    BY <1>1, <1>3, <1>4 DEF Quiet
  <1>6. \A i \in SessionIds : opening'[i] = IF i = id THEN o ELSE opening[i]
    BY <1>3, <1>4 DEF Quiet
  <1>7. \A i \in SessionIds :
           /\ opening'[i].starting + opening'[i].telling <= 1
           /\ opening'[i].starting > 0 => i \notin DOMAIN sessions \ old
    BY <1>1, <1>3, <1>6, OpeningsAre
  <1>8. old \subseteq DOMAIN sessions
    OBVIOUS
  <1> HIDE DEF old
  <1> QED  BY <1>1, <1>5, <1>7, <1>8, ClosingKeeps, TablesAre

\* The shell is there.
LEMMA ShellStartsKeeps ==
    ASSUME TerminalInv, NEW id \in SessionIds, ShellStarts(id)
    PROVE  TerminalInv'
  <1> DEFINE n == Len(shells) + 1
             s == NewSession(n)
             h == NewShell
  <1>0. /\ DOMAIN shells = 1 .. Len(shells) /\ Len(shells) \in Nat /\ shells \in Seq(Shell)
        /\ Len(shells) < MaxShells /\ Quiet
    BY TablesAre DEF ShellStarts
  <1>1. opening[id] \in [starting : Nat, telling : Nat] /\ opening[id].starting > 0
        /\ opening[id].starting + opening[id].telling <= 1 /\ id \notin DOMAIN sessions
    BY OpeningsAre DEF ShellStarts
  <1>2. s \in Session /\ s.shell = n
    <2>1. n \in 1 .. MaxShells
      BY <1>0, TerminalAssumption
    <2>2. 0 \in 0 .. MaxSequence /\ <<>> \in Seq(Frame) /\ <<>> \in Seq(1 .. MaxPrinted)
      BY TerminalAssumption
    <2> HIDE DEF n
    <2> QED  BY <2>1, <2>2 DEF NewSession, Session
  <1>3. h \in Shell
    <2>1. 0 \in 0 .. MaxSequence /\ 0 \in 0 .. MaxPrinted /\ <<>> \in Seq(1 .. MaxPrinted)
      BY TerminalAssumption
    <2> QED  BY <2>1 DEF NewShell, Shell
  <1>4. Goes(s, h)
    <2>1. Span(0, 0) = <<>>
      BY SpanIs
    <2>2. Streams(s, h)
      BY <2>1 DEF Streams, NewShell, NewSession
    <2>3. Waits(s, h)
      BY DEF Waits, NewShell, NewSession
    <2> QED  BY <2>2, <2>3 DEF Goes, NewShell
  <1>5. Left(h)
    BY <1>2, <1>3, <1>4, GoneIsLeft
  <1>6. /\ DOMAIN sessions' = DOMAIN sessions \cup {id}
        /\ sessions'[id] = s
        /\ \A i \in DOMAIN sessions : sessions'[i] = sessions[i]
    BY <1>1 DEF ShellStarts
  <1>7. /\ shells' \in Seq(Shell) /\ DOMAIN shells' = DOMAIN shells \cup {n}
        /\ shells'[n] = h /\ n \notin DOMAIN shells
        /\ \A k \in DOMAIN shells : shells'[k] = shells[k]
    <2>1. shells' = Append(shells, h)
      BY DEF ShellStarts
    <2> HIDE DEF h
    <2>2. /\ shells' \in Seq(Shell) /\ Len(shells') = n /\ shells'[n] = h
          /\ \A k \in 1 .. Len(shells) : shells'[k] = shells[k]
      BY <1>0, <1>3, <2>1, AppendProperties
    <2>3. DOMAIN shells' = 1 .. n
      BY <2>2
    <2> QED  BY <1>0, <2>2, <2>3
  <1>8. PICK o \in [starting : Nat, telling : Nat] :
           /\ opening' = [opening EXCEPT ![id] = o]
           /\ o.starting = 0 /\ o.telling = 1
    BY OpenReturns DEF ShellStarts
  <1> HIDE DEF n, s, h
  <1>9. \A i \in SessionIds : opening'[i] = IF i = id THEN o ELSE opening[i]
    BY <1>0, <1>8 DEF Quiet
  <1>10. Quiet'
    BY <1>0, <1>8 DEF ShellStarts, Quiet
  <1>11. TerminalTypeOK'
    BY <1>2, <1>6, <1>7, <1>10, TablesAre DEF TerminalTypeOK, Quiet
  <1>12. OneToOne'
    <2>1. \A i \in DOMAIN sessions' : sessions'[i].shell \in DOMAIN shells'
      BY <1>2, <1>6, <1>7, TablesAre
    <2>2. \A i \in DOMAIN sessions : sessions'[i].shell \in DOMAIN shells
      BY <1>6, TablesAre
    <2>3. \A i, other \in DOMAIN sessions' :
             sessions'[i].shell = sessions'[other].shell => i = other
      BY <1>2, <1>6, <1>7, <2>2 DEF TerminalInv, OneToOne
    <2>4. ASSUME NEW k \in DOMAIN shells', shells'[k].alive
          PROVE  \E i \in DOMAIN sessions' : sessions'[i].shell = k
      BY <1>2, <1>6, <1>7, <2>4 DEF TerminalInv, OneToOne
    <2> QED  BY <2>1, <2>3, <2>4 DEF OneToOne
  <1>13. AllGo'
    <2>1. ASSUME NEW i \in DOMAIN sessions'
          PROVE  Goes(sessions'[i], shells'[sessions'[i].shell])
      BY <1>2, <1>4, <1>6, <1>7, TablesAre
    <2> QED  BY <2>1 DEF AllGo
  <1>14. AllLeft'
    BY <1>5, <1>7, TablesAre DEF AllLeft
  <1>15. OneOpens'
    BY <1>6, <1>8, <1>9, OpeningsAre DEF OneOpens
  <1> QED  BY <1>11, <1>12, <1>13, <1>14, <1>15 DEF TerminalInv

\* A frame is taken in.
LEMMA ReceiveKeeps ==
    ASSUME TerminalInv, NEW id \in SessionIds, NEW frame \in Frame, Receive(id, frame)
    PROVE  TerminalInv'
  <1>0. id \in DOMAIN sessions /\ UNCHANGED <<serving, leases, listening, opening>>
        /\ frame.sequence > sessions[id].received
    BY DEF Receive
  <1>1. Quiet /\ Quiet'
    BY <1>0, TablesAre DEF Quiet
  <1>2. CASE frame.kind = "close"
    <2>1. CloseAll({id}, shells) /\ {id} \subseteq DOMAIN sessions
      BY <1>0, <1>2 DEF Receive
    <2> QED  BY <1>0, <1>1, <2>1, EndingKeeps
  <1>3. CASE frame.kind # "close"
    <2> DEFINE old == sessions[id]
               p == IF frame.kind = "ping" THEN old.pending ELSE Append(old.pending, frame)
               s == [old EXCEPT !.received = frame.sequence, !.stale = FALSE, !.pending = p]
               h == shells[old.shell]
    <2>1. old \in Session /\ Goes(old, h) /\ h \in Shell /\ old.pending \in Seq(Frame)
          /\ old.received \in Nat /\ h.typed \in Nat
      BY <1>0, TablesAre DEF Session, Shell
    <2>2. frame.sequence \in 0 .. MaxSequence /\ frame.sequence \in Nat
      BY DEF Frame
    <2>3. p \in Seq(Frame)
      BY <2>1
    <2>4. s \in Session
      <3> HIDE DEF p, h
      <3> QED  BY <2>1, <2>2, <2>3 DEF Session
    <2>5. /\ s.shell = old.shell /\ s.ready = old.ready /\ s.preamble = old.preamble
          /\ s.output = old.output /\ s.received = frame.sequence /\ s.pending = p
      <3> HIDE DEF p
      <3> QED  BY <2>1 DEF Session
    <2>6. Waits(s, h)
      <3> DEFINE q == old.pending
      <3>1. \A i \in DOMAIN q : q[i] \in Frame /\ q[i].sequence \in Nat
        <4>1. \A i \in DOMAIN q : q[i] \in Frame
          BY <2>1
        <4> QED  BY <4>1 DEF Frame
      <3>2. /\ h.typed <= old.received
            /\ \A i \in DOMAIN q : h.typed < q[i].sequence /\ q[i].sequence <= old.received
            /\ \A i, j \in DOMAIN q : i < j => q[i].sequence < q[j].sequence
        BY <2>1 DEF Goes, Waits
      <3>3. h.typed < frame.sequence /\ \A i \in DOMAIN q : q[i].sequence < frame.sequence
        BY <1>0, <2>1, <2>2, <3>1, <3>2
      <3>4. CASE frame.kind = "ping"
        <4>1. p = q
          BY <3>4
        <4> HIDE DEF p, q, s, h
        <4>2. /\ h.typed <= frame.sequence
              /\ \A i \in DOMAIN q : q[i].sequence <= frame.sequence
          BY <2>1, <2>2, <3>1, <3>3
        <4> QED  BY <2>5, <3>2, <4>1, <4>2 DEF Waits
      <3>5. CASE frame.kind # "ping"
        <4>1. p = Append(q, frame) /\ q \in Seq(Frame)
          BY <2>1, <3>5
        <4> HIDE DEF p, q, s, h
        <4>2. /\ Len(q) \in Nat /\ DOMAIN q = 1 .. Len(q) /\ DOMAIN p = 1 .. Len(q) + 1
              /\ p[Len(q) + 1] = frame /\ \A i \in DOMAIN q : p[i] = q[i]
          BY <4>1, AppendProperties
        <4>3. \A i \in DOMAIN p : i \in DOMAIN q \/ i = Len(q) + 1
          BY <4>2
        <4>4. \A i \in DOMAIN p : h.typed < p[i].sequence /\ p[i].sequence <= frame.sequence
          BY <2>2, <3>1, <3>2, <3>3, <4>2, <4>3
        <4>5. ASSUME NEW i \in DOMAIN p, NEW j \in DOMAIN p, i < j
              PROVE  p[i].sequence < p[j].sequence
          <5>1. i \in DOMAIN q
            BY <4>2, <4>5
          <5> QED  BY <3>2, <3>3, <4>2, <4>3, <4>5, <5>1
        <4>6. h.typed <= frame.sequence
          BY <2>1, <2>2, <3>3
        <4> QED  BY <2>5, <4>4, <4>5, <4>6 DEF Waits
      <3> QED  BY <3>4, <3>5
    <2>7. Goes(s, h)
      <3> HIDE DEF s, h, p
      <3> QED  BY <2>1, <2>5, <2>6 DEF Goes, Streams
    <2>8. sessions' = [sessions EXCEPT ![id] = s] /\ UNCHANGED shells
      BY <1>3 DEF Receive
    <2> HIDE DEF s
    <2> QED  BY <1>0, <2>4, <2>5, <2>7, <2>8, SessionChanges
  <1> QED  BY <1>2, <1>3

LEMMA GrowsStaleKeeps ==
    ASSUME TerminalInv, NEW id \in SessionIds, GrowsStale(id)
    PROVE  TerminalInv'
  <1> DEFINE old == sessions[id]
             s == [old EXCEPT !.stale = TRUE]
  <1>1. id \in DOMAIN sessions /\ UNCHANGED <<shells, serving, leases, listening, opening>>
        /\ sessions' = [sessions EXCEPT ![id] = s]
    BY DEF GrowsStale
  <1>2. old \in Session /\ Goes(old, shells[old.shell])
    BY <1>1, TablesAre
  <1>3. /\ s \in Session /\ s.shell = old.shell /\ s.ready = old.ready
        /\ s.preamble = old.preamble /\ s.output = old.output
        /\ s.received = old.received /\ s.pending = old.pending
    BY <1>2 DEF Session
  <1> HIDE DEF s
  <1>4. Goes(s, shells[old.shell])
    BY <1>2, <1>3 DEF Goes, Streams, Waits
  <1> QED  BY <1>1, <1>3, <1>4, SessionChanges

\* The head of what waits is written, or is a directory that is not there.
LEMMA TakePendingKeeps ==
    ASSUME TerminalInv, NEW id \in SessionIds, TakePending(id)
    PROVE  TerminalInv'
  <1> DEFINE old == sessions[id]
             q == old.pending
             p == RemoveAt(q, 1)
             s == [old EXCEPT !.pending = p]
             h == shells[old.shell]
  <1>1. /\ id \in DOMAIN sessions /\ UNCHANGED <<serving, leases, listening, opening>>
        /\ 1 \in DOMAIN q /\ sessions' = [sessions EXCEPT ![id] = s]
        /\ \/ shells' = [shells EXCEPT ![old.shell].typed = q[1].sequence]
           \/ UNCHANGED shells
    BY DEF TakePending, Due
  <1>2. old \in Session /\ Goes(old, h) /\ h \in Shell /\ q \in Seq(Frame)
        /\ h.typed \in Nat /\ old.shell \in DOMAIN shells
    <2>1. old \in Session /\ Goes(old, h) /\ h \in Shell /\ old.shell \in DOMAIN shells
      BY <1>1, TablesAre
    <2> HIDE DEF old, h
    <2>2. q \in Seq(Frame)
      BY <2>1 DEF Session
    <2>3. h.typed \in 0 .. MaxSequence
      BY <2>1 DEF Shell
    <2> QED  BY <2>1, <2>2, <2>3
  <1>3. /\ p \in Seq(Frame) /\ DOMAIN p = 1 .. Len(q) - 1 /\ DOMAIN q = 1 .. Len(q)
        /\ Len(q) \in Nat /\ \A i \in 1 .. Len(q) - 1 : p[i] = q[i + 1]
    <2> HIDE DEF q
    <2>1. Len(q) \in Nat /\ DOMAIN q = 1 .. Len(q) /\ q # <<>>
      BY <1>1, <1>2
    <2>2. 1 - 1 = 0 /\ 1 + 1 = 2
      OBVIOUS
    <2>3. SubSeq(q, 1, 0) = <<>>
      BY SubSeqEmpty
    <2>4. Tail(q) = SubSeq(q, 2, Len(q)) /\ Tail(q) \in Seq(Frame)
      BY <1>2, <2>1, TailIsSubSeq
    <2>5. p = <<>> \o Tail(q)
      BY <2>2, <2>3, <2>4 DEF RemoveAt
    <2>6. p = Tail(q)
      BY <2>4, <2>5, ConcatEmptySeq
    <2> QED  BY <1>2, <2>1, <2>4, <2>6
  <1>4. s \in Session
    <2> HIDE DEF p
    <2> QED  BY <1>2, <1>3 DEF Session
  <1>5. /\ s.shell = old.shell /\ s.ready = old.ready /\ s.preamble = old.preamble
        /\ s.output = old.output /\ s.received = old.received /\ s.pending = p
    <2> HIDE DEF p
    <2> QED  BY <1>2 DEF Session
  <1>6. \A i \in DOMAIN q : q[i] \in Frame /\ q[i].sequence \in 1 .. MaxSequence
    <2>1. \A i \in DOMAIN q : q[i] \in Frame
      BY <1>2
    <2> QED  BY <2>1 DEF Frame
  <1>7. /\ h.typed <= old.received
        /\ \A i \in DOMAIN q : h.typed < q[i].sequence /\ q[i].sequence <= old.received
        /\ \A i, j \in DOMAIN q : i < j => q[i].sequence < q[j].sequence
    BY <1>2 DEF Goes, Waits
  <1> HIDE DEF p, s
  <1>8. ASSUME NEW i \in DOMAIN p
        PROVE  /\ i + 1 \in DOMAIN q /\ p[i] = q[i + 1] /\ i \in Nat /\ 1 < i + 1
    BY <1>3
  <1>9. \A i, j \in DOMAIN p : i < j => p[i].sequence < p[j].sequence
    BY <1>7, <1>8
  <1>10. CASE UNCHANGED shells
    <2>1. Waits(s, h)
      BY <1>5, <1>7, <1>8, <1>9 DEF Waits
    <2>2. Goes(s, h)
      BY <1>2, <1>5, <2>1 DEF Goes, Streams
    <2> QED  BY <1>1, <1>4, <1>5, <1>10, <2>2, SessionChanges
  <1>11. CASE shells' = [shells EXCEPT ![old.shell].typed = q[1].sequence]
    <2> DEFINE k == [h EXCEPT !.typed = q[1].sequence]
    <2>1. q[1].sequence \in 0 .. MaxSequence /\ q[1].sequence <= old.received
      BY <1>1, <1>6, <1>7
    <2>2. /\ k \in Shell /\ k.typed = q[1].sequence /\ k.alive = h.alive /\ k.told = h.told
          /\ k.marker = h.marker /\ k.printed = h.printed /\ k.sent = h.sent
      <3> HIDE DEF h, q
      <3> QED  BY <1>2, <2>1 DEF Shell
    <2>3. shells' = [shells EXCEPT ![old.shell] = k]
      BY <1>11
    <2> HIDE DEF k
    <2>4. Waits(s, k)
      <3>1. \A i \in DOMAIN p : q[1].sequence < p[i].sequence
        BY <1>1, <1>7, <1>8
      <3> QED  BY <1>5, <1>7, <1>8, <1>9, <2>1, <2>2, <3>1 DEF Waits
    <2>5. Goes(s, k)
      BY <1>2, <1>5, <2>2, <2>4 DEF Goes, Streams
    <2> QED  BY <1>1, <1>4, <1>5, <2>2, <2>3, <2>5, ChangingKeeps
  <1> QED  BY <1>1, <1>10, <1>11

\* What is printed is buffered, in a session that is otherwise s, or ends it.
LEMMA QueueKeeps ==
    ASSUME TerminalInv, NEW id \in DOMAIN sessions, NEW s \in Session,
           s.shell = sessions[id].shell, NEW prints \in Seq(1 .. MaxPrinted),
           NEW h \in Shell,
           Goes([s EXCEPT !.output = s.output \o prints], h),
           NEW all, all = [shells EXCEPT ![sessions[id].shell] = h],
           Queue(id, s, prints, all),
           UNCHANGED <<serving, leases, listening, opening>>
    PROVE  TerminalInv'
  <1> DEFINE n == sessions[id].shell
             o == s.output \o prints
             t == [s EXCEPT !.output = o]
  <1>1. /\ shells \in [1 .. Len(shells) -> Shell] /\ shells \in Seq(Shell)
        /\ DOMAIN shells = 1 .. Len(shells) /\ Len(shells) \in Nat /\ n \in DOMAIN shells
    <2>1. shells \in Seq(Shell)
      BY TablesAre
    <2> QED  BY <2>1, TablesAre
  <1>2. t \in Session /\ t.shell = s.shell
    <2>1. s.output \in Seq(1 .. MaxPrinted)
      BY DEF Session
    <2>2. o \in Seq(1 .. MaxPrinted)
      BY <2>1, ConcatProperties
    <2> HIDE DEF o
    <2> QED  BY <2>2 DEF Session
  <1>3. Left(h)
    <2> HIDE DEF t
    <2>1. Goes(t, h)
      BY DEF t
    <2> QED  BY <1>2, <2>1, GoneIsLeft
  <1>4. CASE sessions' = [sessions EXCEPT ![id] = t] /\ shells' = all
    <2>1. Goes(t, h)
      OBVIOUS
    <2> HIDE DEF t
    <2> QED  BY <1>2, <1>4, <2>1, ChangingKeeps
  <1>5. CASE CloseAll({id}, all)
    <2>1. all \in Seq(Shell) /\ Len(all) = Len(shells)
      <3>1. all \in [1 .. Len(shells) -> Shell]
        BY <1>1
      <3> QED  BY <1>1, <3>1
    <2>2. \A k \in DOMAIN shells : all[k] = shells[k] \/ (all[k] = h /\ k = n)
      BY <1>1
    <2>3. \A k \in DOMAIN shells : all[k] = shells[k]
             \/ (Left(all[k]) /\ \E i \in {id} : sessions[i].shell = k)
      BY <1>3, <2>2
    <2>4. Quiet'
      BY TablesAre DEF Quiet
    <2>5. \A i \in SessionIds :
             /\ opening'[i].starting + opening'[i].telling <= 1
             /\ opening'[i].starting > 0 => i \notin DOMAIN sessions \ {id}
      BY OpeningsAre
    <2>6. {id} \subseteq DOMAIN sessions
      OBVIOUS
    <2> QED  BY <1>5, <2>1, <2>3, <2>4, <2>5, <2>6, ClosingKeeps
  <1> QED  BY <1>4, <1>5 DEF Queue

\* What is held back and the rest is shown from now on.
LEMMA ReleaseKeeps ==
    ASSUME TerminalInv, NEW id \in DOMAIN sessions, NEW prints \in Seq(1 .. MaxPrinted),
           NEW h \in Shell, ~sessions[id].ready, h.alive, ~h.told,
           h.marker <= h.printed, h.sent = <<>>, prints = Span(h.marker, h.printed),
           h.typed = shells[sessions[id].shell].typed,
           NEW all, all = [shells EXCEPT ![sessions[id].shell] = h],
           Release(id, prints, all),
           UNCHANGED <<serving, leases, listening, opening>>
    PROVE  TerminalInv'
  <1> DEFINE old == sessions[id]
             r == [old EXCEPT !.ready = TRUE]
             s == [r EXCEPT !.preamble = <<>>]
             t == [s EXCEPT !.output = s.output \o prints]
  <1>1. old \in Session /\ Goes(old, shells[old.shell])
    BY TablesAre
  <1>2. /\ r \in Session /\ r.shell = old.shell /\ r.ready /\ r.output = old.output
        /\ r.received = old.received /\ r.pending = old.pending
    BY <1>1 DEF Session
  <1>3. /\ s \in Session /\ s.shell = old.shell /\ s.ready /\ s.output = old.output
        /\ s.received = old.received /\ s.pending = old.pending /\ s.preamble = <<>>
    <2> HIDE DEF r
    <2>1. <<>> \in Seq(1 .. MaxPrinted)
      OBVIOUS
    <2> QED  BY <1>2, <2>1 DEF Session
  <1>4. s.output = <<>> /\ s.output \o prints = prints
    <2>1. old.output = <<>>
      BY <1>1 DEF Goes, Streams
    <2>2. <<>> \o prints = prints
      BY ConcatEmptySeq
    <2> HIDE DEF s
    <2> QED  BY <1>3, <2>1, <2>2
  <1>5. Queue(id, s, prints, all)
    <2>1. s = [old EXCEPT !.ready = TRUE, !.preamble = <<>>]
      OBVIOUS
    <2> HIDE DEF s
    <2> QED  BY <2>1 DEF Release
  <1> HIDE DEF s
  <1>6. /\ t.ready /\ t.preamble = <<>> /\ t.output = prints
        /\ t.received = old.received /\ t.pending = old.pending
    BY <1>3, <1>4 DEF Session
  <1>7. Goes(t, h)
    <2> HIDE DEF t
    <2>1. h.sent \o t.output = Span(h.marker, h.printed)
      <3>1. <<>> \o prints = prints
        BY ConcatEmptySeq
      <3> QED  BY <1>6, <3>1
    <2>2. Waits(t, h)
      BY <1>1, <1>6 DEF Goes, Waits
    <2> QED  BY <1>6, <2>1, <2>2 DEF Goes, Streams
  <1> QED  BY <1>3, <1>5, <1>7, QueueKeeps

\* A shell that prints once more.
LEMMA PrintedIs ==
    ASSUME TerminalInv, NEW n \in DOMAIN shells, shells[n].printed < MaxPrinted
    PROVE  LET h == [shells[n] EXCEPT !.printed = shells[n].printed + 1]
           IN  /\ Printed(n) = [shells EXCEPT ![n] = h]
               /\ h \in Shell /\ h.printed = shells[n].printed + 1
               /\ h.alive = shells[n].alive /\ h.told = shells[n].told
               /\ h.typed = shells[n].typed /\ h.marker = shells[n].marker
               /\ h.sent = shells[n].sent
               /\ h.printed \in 1 .. MaxPrinted /\ h.marker \in Nat
  <1> DEFINE old == shells[n]
             h == [old EXCEPT !.printed = old.printed + 1]
  <1>1. old \in Shell
    BY TablesAre
  <1>2. old.printed \in Nat /\ MaxPrinted \in Nat
    BY <1>1, TerminalAssumption DEF Shell
  <1>3. old.printed + 1 \in 0 .. MaxPrinted /\ old.printed + 1 \in 1 .. MaxPrinted
    BY <1>2
  <1>4. /\ h \in Shell /\ h.printed = old.printed + 1 /\ h.alive = old.alive
        /\ h.told = old.told /\ h.typed = old.typed /\ h.marker = old.marker
        /\ h.sent = old.sent
    <2> HIDE DEF old
    <2> QED  BY <1>1, <1>3 DEF Shell
  <1>5. Printed(n) = [shells EXCEPT ![n] = h]
    BY DEF Printed
  <1>6. h.marker \in Nat
    BY <1>1, <1>4 DEF Shell
  <1> QED  BY <1>3, <1>4, <1>5, <1>6

LEMMA PrintsKeeps ==
    ASSUME TerminalInv, NEW id \in SessionIds, Prints(id)
    PROVE  TerminalInv'
  <1> DEFINE old == sessions[id]
             n == old.shell
             g == shells[n]
             print == g.printed + 1
             h == [g EXCEPT !.printed = g.printed + 1]
  <1>1. /\ id \in DOMAIN sessions /\ UNCHANGED <<serving, leases, listening, opening>>
        /\ g.printed < MaxPrinted
    BY DEF Prints
  <1>2. /\ old \in Session /\ g \in Shell /\ n \in DOMAIN shells /\ Goes(old, g)
    BY <1>1, TablesAre
  <1>3. /\ Printed(n) = [shells EXCEPT ![n] = h]
        /\ h \in Shell /\ h.printed = print /\ h.alive = g.alive /\ h.told = g.told
        /\ h.typed = g.typed /\ h.marker = g.marker /\ h.sent = g.sent
        /\ print \in 1 .. MaxPrinted
    BY <1>1, <1>2, PrintedIs
  <1>4. /\ g.marker \in Nat /\ g.printed \in Nat /\ g.marker <= g.printed
        /\ h.marker <= h.printed
        /\ g.sent \in Seq(Nat) /\ old.output \in Seq(1 .. MaxPrinted)
        /\ old.output \in Seq(Nat)
        /\ old.preamble \in Seq(1 .. MaxPrinted) /\ old.preamble \in Seq(Nat)
    <2>1. /\ g.marker \in Nat /\ g.printed \in Nat /\ g.sent \in Seq(1 .. MaxPrinted)
          /\ old.output \in Seq(1 .. MaxPrinted) /\ old.preamble \in Seq(1 .. MaxPrinted)
      BY <1>2 DEF Session, Shell
    <2>2. g.marker <= g.printed
      BY <1>2 DEF Goes, Streams
    <2> HIDE DEF old, g, h
    <2>3. h.marker <= h.printed
      BY <1>3, <2>1, <2>2 DEF g, h
    <2> QED  BY <2>1, <2>2, <2>3, PrintsAreNumbers
  <1> HIDE DEF h
  <1>5. CASE old.ready
    <2> DEFINE t == [old EXCEPT !.output = old.output \o <<print>>]
    <2>1. Queue(id, old, <<print>>, Printed(n))
      BY <1>5 DEF Prints
    <2>2. old.output \o <<print>> = Append(old.output, print)
      BY <1>3, <1>4, AppendIsConcat
    <2>3. g.sent \o Append(old.output, print) = Span(g.marker, print)
      <3>1. g.sent \o old.output = Span(g.marker, g.printed)
        BY <1>2, <1>5 DEF Goes, Streams
      <3> HIDE DEF old, g
      <3> QED  BY <1>4, <3>1, SpanGrows
    <2>4. /\ t.ready /\ t.preamble = old.preamble /\ t.output = old.output \o <<print>>
          /\ t.received = old.received /\ t.pending = old.pending
      BY <1>2, <1>5 DEF Session
    <2>5. Goes(t, h)
      <3> HIDE DEF t
      <3>1. Waits(t, h)
        BY <1>2, <1>3, <2>4 DEF Goes, Waits
      <3>2. h.sent \o t.output = Span(h.marker, h.printed)
        BY <1>3, <2>2, <2>3, <2>4
      <3> QED  BY <1>2, <1>3, <1>4, <1>5, <2>4, <3>1, <3>2 DEF Goes, Streams
    <2>6. <<print>> \in Seq(1 .. MaxPrinted)
      BY <1>3
    <2> QED  BY <1>1, <1>2, <1>3, <2>1, <2>5, <2>6, QueueKeeps
  <1>6. CASE ~old.ready
    <2> DEFINE held == Append(old.preamble, print)
    <2>1. /\ g.marker = 0 /\ g.sent = <<>> /\ old.output = <<>>
          /\ old.preamble = Span(0, g.printed)
      BY <1>2, <1>6 DEF Goes, Streams
    <2>2. held = Span(0, print) /\ held \in Seq(1 .. MaxPrinted)
      <3>1. held \in Seq(1 .. MaxPrinted) /\ held \in Seq(Nat)
        BY <1>3, <1>4, AppendProperties
      <3>2. <<>> \o old.preamble = Span(0, g.printed) /\ <<>> \in Seq(Nat)
        BY <1>4, <2>1, ConcatEmptySeq
      <3>3. <<>> \o held = Span(0, print)
        BY <1>4, <2>1, <3>2, SpanGrows
      <3> HIDE DEF held
      <3>4. <<>> \o held = held
        BY <3>1, ConcatEmptySeq
      <3> QED  BY <3>1, <3>3, <3>4
    <2>3. CASE Release(id, held, Printed(n))
      <3> HIDE DEF held
      <3>1. held = Span(h.marker, h.printed)
        BY <1>3, <2>1, <2>2
      <3> QED  BY <1>1, <1>2, <1>3, <1>4, <1>6, <2>1, <2>2, <2>3, <3>1, ReleaseKeeps DEF Goes
    <2>4. CASE sessions' = [sessions EXCEPT ![id].preamble = held] /\ shells' = Printed(n)
      <3> DEFINE s == [old EXCEPT !.preamble = held]
      <3>1. sessions' = [sessions EXCEPT ![id] = s]
        BY <2>4
      <3>2. /\ s \in Session /\ s.shell = n /\ s.ready = old.ready /\ s.preamble = held
            /\ s.output = old.output /\ s.received = old.received /\ s.pending = old.pending
        <4> HIDE DEF held
        <4> QED  BY <1>2, <2>2 DEF Session
      <3> HIDE DEF s
      <3>3. Waits(s, h)
        BY <1>2, <1>3, <3>2 DEF Goes, Waits
      <3>4. Goes(s, h)
        BY <1>2, <1>3, <1>4, <1>6, <2>1, <2>2, <3>2, <3>3 DEF Goes, Streams
      <3> QED  BY <1>1, <1>3, <2>4, <3>1, <3>2, <3>4, ChangingKeeps
    <2> QED  BY <1>6, <2>3, <2>4 DEF Prints
  <1> QED  BY <1>5, <1>6

\* The marker ends what is held back, and what came before it is not shown.
LEMMA PrintsMarkerKeeps ==
    ASSUME TerminalInv, NEW id \in SessionIds, PrintsMarker(id)
    PROVE  TerminalInv'
  <1> DEFINE old == sessions[id]
             n == old.shell
             g == shells[n]
             p == [g EXCEPT !.printed = g.printed + 1]
             h == [p EXCEPT !.marker = g.printed + 1]
             all == [Printed(n) EXCEPT ![n].marker = g.printed + 1]
  <1>1. /\ id \in DOMAIN sessions /\ UNCHANGED <<serving, leases, listening, opening>>
        /\ g.printed < MaxPrinted /\ ~old.ready /\ Release(id, <<>>, all)
    BY DEF PrintsMarker
  <1>2. /\ old \in Session /\ g \in Shell /\ n \in DOMAIN shells /\ Goes(old, g)
    BY <1>1, TablesAre
  <1>3. /\ Printed(n) = [shells EXCEPT ![n] = p]
        /\ p \in Shell /\ p.printed = g.printed + 1 /\ p.alive = g.alive /\ p.told = g.told
        /\ p.typed = g.typed /\ p.sent = g.sent /\ p.printed \in 1 .. MaxPrinted
    BY <1>1, <1>2, PrintedIs
  <1> HIDE DEF p
  <1>4. /\ h \in Shell /\ h.marker = p.printed /\ h.printed = p.printed
        /\ h.alive = g.alive /\ h.told = g.told /\ h.typed = g.typed /\ h.sent = g.sent
    <2>1. g.printed + 1 \in 0 .. MaxPrinted
      BY <1>3
    <2> HIDE DEF g
    <2> QED  BY <1>3, <2>1 DEF Shell
  <1>5. all = [shells EXCEPT ![n] = h]
    <2>1. Printed(n)[n] = p
      BY <1>2, <1>3
    <2>2. all = [[shells EXCEPT ![n] = p] EXCEPT ![n].marker = g.printed + 1]
      BY <1>3
    <2>3. [shells EXCEPT ![n] = p][n] = p
      BY <1>2
    <2> HIDE DEF n, g, all
    <2> QED  BY <2>2, <2>3
  <1>6. /\ h.marker <= h.printed /\ <<>> = Span(h.marker, h.printed)
        /\ <<>> \in Seq(1 .. MaxPrinted)
    <2>1. p.printed \in Nat
      BY <1>3
    <2>2. Span(p.printed, p.printed) = <<>>
      BY <2>1, SpanIs
    <2> HIDE DEF h
    <2> QED  BY <1>4, <2>1, <2>2
  <1>7. h.alive /\ ~h.told /\ h.sent = <<>>
    BY <1>1, <1>2, <1>4 DEF Goes, Streams
  <1> HIDE DEF h, all
  <1> QED  BY <1>1, <1>4, <1>5, <1>6, <1>7, ReleaseKeeps

LEMMA ShellsStay ==
    ASSUME TerminalInv, NEW n \in DOMAIN shells
    PROVE  shells = [shells EXCEPT ![n] = shells[n]]
  <1>1. shells \in Seq(Shell)
    BY TablesAre
  <1>2. shells \in [1 .. Len(shells) -> Shell]
    BY <1>1
  <1> QED  BY <1>2

LEMMA ReadyTimerKeeps ==
    ASSUME TerminalInv, NEW id \in SessionIds, ReadyTimer(id)
    PROVE  TerminalInv'
  <1> DEFINE old == sessions[id]
             h == shells[old.shell]
  <1>1. /\ id \in DOMAIN sessions /\ UNCHANGED <<serving, leases, listening, opening>>
        /\ ~old.ready /\ Release(id, old.preamble, shells)
    BY DEF ReadyTimer
  <1>2. /\ h \in Shell /\ Goes(old, h) /\ old.preamble \in Seq(1 .. MaxPrinted)
        /\ shells = [shells EXCEPT ![old.shell] = h]
    BY <1>1, TablesAre, ShellsStay DEF Session
  <1>3. /\ h.alive /\ ~h.told /\ h.marker <= h.printed /\ h.sent = <<>>
        /\ old.preamble = Span(h.marker, h.printed)
    BY <1>1, <1>2 DEF Goes, Streams
  <1> QED  BY <1>1, <1>2, <1>3, ReleaseKeeps

\* What has come of a shell when its browser was sent more of what it printed.
LEMMA SentMore ==
    ASSUME NEW h \in Shell, NEW more \in Seq(1 .. MaxPrinted)
    PROVE  LET k == [h EXCEPT !.sent = h.sent \o more]
           IN  /\ k \in Shell /\ k.sent = h.sent \o more /\ k.alive = h.alive
               /\ k.told = h.told /\ k.typed = h.typed /\ k.marker = h.marker
               /\ k.printed = h.printed
  <1>1. h.sent \in Seq(1 .. MaxPrinted)
    BY DEF Shell
  <1> DEFINE all == h.sent \o more
  <1>2. all \in Seq(1 .. MaxPrinted)
    BY <1>1, ConcatProperties
  <1> HIDE DEF all
  <1>3. LET k == [h EXCEPT !.sent = all]
        IN  /\ k \in Shell /\ k.sent = all /\ k.alive = h.alive
            /\ k.told = h.told /\ k.typed = h.typed /\ k.marker = h.marker
            /\ k.printed = h.printed
    BY <1>2 DEF Shell
  <1> QED  BY <1>3 DEF all

LEMMA FlushOutputKeeps ==
    ASSUME TerminalInv, NEW id \in SessionIds, FlushOutput(id)
    PROVE  TerminalInv'
  <1> DEFINE old == sessions[id]
             n == old.shell
             g == shells[n]
             s == [old EXCEPT !.output = <<>>]
             h == [g EXCEPT !.sent = g.sent \o old.output]
  <1>1. /\ id \in DOMAIN sessions /\ UNCHANGED <<serving, leases, listening, opening>>
        /\ old.output # <<>> /\ sessions' = [sessions EXCEPT ![id] = s]
        /\ shells' = [shells EXCEPT ![n] = h]
    BY DEF FlushOutput, Sent
  <1>2. /\ old \in Session /\ g \in Shell /\ Goes(old, g)
        /\ old.output \in Seq(1 .. MaxPrinted) /\ g.sent \in Seq(1 .. MaxPrinted)
    BY <1>1, TablesAre DEF Session, Shell
  <1>3. old.ready /\ g.sent \o old.output = Span(g.marker, g.printed)
    BY <1>1, <1>2 DEF Goes, Streams
  <1>4. /\ s \in Session /\ s.shell = n /\ s.ready /\ s.preamble = old.preamble
        /\ s.output = <<>> /\ s.received = old.received /\ s.pending = old.pending
    <2>1. <<>> \in Seq(1 .. MaxPrinted)
      OBVIOUS
    <2>2. ASSUME NEW o \in Session, o.ready
          PROVE  LET t == [o EXCEPT !.output = <<>>]
                 IN  /\ t \in Session /\ t.shell = o.shell /\ t.ready
                     /\ t.preamble = o.preamble /\ t.output = <<>>
                     /\ t.received = o.received /\ t.pending = o.pending
      BY <2>1, <2>2 DEF Session
    <2> HIDE DEF old
    <2> QED  BY <1>2, <1>3, <2>2
  <1>5. /\ h \in Shell /\ h.sent = g.sent \o old.output /\ h.alive = g.alive
        /\ h.told = g.told /\ h.typed = g.typed /\ h.marker = g.marker
        /\ h.printed = g.printed
    BY <1>2, SentMore
  <1> HIDE DEF s, h
  <1>6. Waits(s, h)
    BY <1>2, <1>4, <1>5 DEF Goes, Waits
  <1>7. h.sent \o s.output = Span(h.marker, h.printed)
    <2>1. h.sent \in Seq(1 .. MaxPrinted)
      BY <1>5 DEF Shell
    <2>2. h.sent \o <<>> = h.sent
      BY <2>1, ConcatEmptySeq
    <2> QED  BY <1>3, <1>4, <1>5, <2>2
  <1>8. Goes(s, h)
    BY <1>2, <1>3, <1>4, <1>5, <1>6, <1>7 DEF Goes, Streams
  <1> QED  BY <1>1, <1>4, <1>5, <1>8, ChangingKeeps

\* A shell ends by itself: its browser was sent the rest, or too much was held back.
LEMMA ShellExitsKeeps ==
    ASSUME TerminalInv, NEW id \in SessionIds, ShellExits(id)
    PROVE  TerminalInv'
  <1> DEFINE old == sessions[id]
             n == old.shell
             g == shells[n]
             rest == old.output \o old.preamble
             k == [g EXCEPT !.sent = g.sent \o rest]
             h == [k EXCEPT !.told = TRUE]
             all == [shells EXCEPT ![n] = h]
  <1>1. /\ id \in DOMAIN sessions /\ UNCHANGED <<serving, leases, listening, opening>>
    BY DEF ShellExits
  <1>2. Quiet'
    BY <1>1, TablesAre DEF Quiet
  <1>3. CASE CloseAll({id}, shells)
    <2>1. {id} \subseteq DOMAIN sessions /\ UNCHANGED opening
      BY <1>1
    <2> QED  BY <1>2, <1>3, <2>1, EndingKeeps
  <1>4. CASE CloseAll({id}, [shells EXCEPT ![n].sent = @ \o rest, ![n].told = TRUE])
    <2>1. /\ old \in Session /\ g \in Shell /\ Goes(old, g) /\ n \in DOMAIN shells
          /\ old.output \in Seq(1 .. MaxPrinted) /\ g.sent \in Seq(1 .. MaxPrinted)
          /\ old.preamble \in Seq(1 .. MaxPrinted)
      BY <1>1, TablesAre DEF Session, Shell
    <2>2. rest \in Seq(1 .. MaxPrinted)
      BY <2>1, ConcatProperties
    <2>3. /\ k \in Shell /\ k.sent = g.sent \o rest /\ k.marker = g.marker
          /\ k.printed = g.printed
      <3> HIDE DEF rest, g
      <3> QED  BY <2>1, <2>2, SentMore
    <2>4. /\ h \in Shell /\ h.sent = g.sent \o rest /\ h.marker = g.marker
          /\ h.printed = g.printed /\ h.told
      <3> HIDE DEF k
      <3> QED  BY <2>3 DEF Shell
    <2>5. g.sent \o rest = Span(g.marker, g.printed)
      <3>1. CASE old.ready
        <4>1. old.preamble = <<>> /\ g.sent \o old.output = Span(g.marker, g.printed)
          BY <2>1, <3>1 DEF Goes, Streams
        <4>2. rest = old.output
          BY <2>1, <4>1, ConcatEmptySeq
        <4> QED  BY <4>1, <4>2
      <3>2. CASE ~old.ready
        <4>1. /\ g.sent = <<>> /\ old.output = <<>> /\ old.preamble = Span(g.marker, g.printed)
          BY <2>1, <3>2 DEF Goes, Streams
        <4>2. rest = old.preamble
          BY <2>1, <4>1, ConcatEmptySeq
        <4>3. <<>> \o old.preamble = old.preamble
          BY <2>1, ConcatEmptySeq
        <4> QED  BY <4>1, <4>2, <4>3
      <3> QED  BY <3>1, <3>2
    <2>6. Left(h)
      <3> DEFINE whole == Span(g.marker, g.printed)
      <3>0. g.marker \in Nat /\ g.printed \in Nat /\ g.marker <= g.printed
        BY <2>1 DEF Goes, Streams, Shell
      <3>1. whole \in Seq(Nat)
        <4> HIDE DEF g
        <4> QED  BY <3>0, SpanIs
      <3> HIDE DEF whole
      <3>4. <<>> \in Seq(Nat)
        OBVIOUS
      <3>2. whole \o <<>> = whole /\ IsPrefix(whole, whole \o <<>>)
        BY <3>1, <3>4, ConcatEmptySeq, BeginningIsPrefix
      <3>3. IsPrefix(whole, whole)
        BY <3>2
      <3> HIDE DEF h, rest
      <3> QED  BY <2>4, <2>5, <3>0, <3>3 DEF Left, whole
    <2>7. CloseAll({id}, all)
      <3>1. [shells EXCEPT ![n].sent = @ \o rest, ![n].told = TRUE] = all
        <4>1. [shells EXCEPT ![n].sent = @ \o rest, ![n].told = TRUE]
                 = [[shells EXCEPT ![n] = k] EXCEPT ![n].told = TRUE]
          OBVIOUS
        <4>2. [shells EXCEPT ![n] = k][n] = k
          BY <2>1
        <4> HIDE DEF k, n
        <4> QED  BY <4>1, <4>2
      <3> QED  BY <1>4, <3>1
    <2> HIDE DEF h
    <2>8. all \in Seq(Shell) /\ Len(all) = Len(shells)
      <3>0. shells \in Seq(Shell)
        BY TablesAre
      <3>1. shells \in [1 .. Len(shells) -> Shell] /\ Len(shells) \in Nat
        BY <3>0
      <3>2. all \in [1 .. Len(shells) -> Shell]
        BY <2>1, <2>4, <3>1
      <3> QED  BY <3>1, <3>2
    <2>9. \A i \in DOMAIN shells : all[i] = shells[i]
             \/ (Left(all[i]) /\ \E j \in {id} : sessions[j].shell = i)
      BY <2>1, <2>6
    <2>10. \A i \in SessionIds :
             /\ opening'[i].starting + opening'[i].telling <= 1
             /\ opening'[i].starting > 0 => i \notin DOMAIN sessions \ {id}
      BY <1>1, OpeningsAre
    <2>11. {id} \subseteq DOMAIN sessions
      BY <1>1
    <2> HIDE DEF all
    <2> QED  BY <1>2, <2>7, <2>8, <2>9, <2>10, <2>11, ClosingKeeps
  <1> QED  BY <1>3, <1>4 DEF ShellExits

LEMMA TerminalNextKeeps ==
    ASSUME TerminalInv, [TerminalNext]_tvars
    PROVE  TerminalInv'
  <1>1. CASE UNCHANGED tvars
    <2>1. UNCHANGED <<serving, leases, listening, sessions, opening, shells>>
      BY <1>1 DEF tvars
    <2>2. Quiet'
      BY <2>1, TablesAre DEF Quiet
    <2> QED  BY <2>1, <2>2, OpeningsAre, StayingKeeps
  <1>2. CASE \/ StartTerminal
             \/ \E r \in Repository : AddRepository(r) \/ ReleaseRepository(r)
    BY <1>2, ServingKeeps
  <1>3. CASE StopTerminal \/ SweepSessions
    BY <1>3, EndsKeep
  <1>4. ASSUME NEW id \in SessionIds,
               \/ OpenFrame(id) \/ ShellStarts(id) \/ ShellFails(id) \/ OpenAnswered(id)
               \/ \E frame \in Frame : Receive(id, frame)
               \/ TakePending(id)
               \/ Prints(id) \/ PrintsMarker(id) \/ ReadyTimer(id) \/ FlushOutput(id)
               \/ ShellExits(id) \/ SendFails(id) \/ GrowsStale(id)
        PROVE  TerminalInv'
    <2>1. CASE OpenFrame(id)
      BY <2>1, OpenFrameKeeps
    <2>2. CASE ShellStarts(id)
      BY <2>2, ShellStartsKeeps
    <2>3. CASE ShellFails(id) \/ OpenAnswered(id)
      BY <2>3, ServingKeeps
    <2>4. CASE \E frame \in Frame : Receive(id, frame)
      BY <2>4, ReceiveKeeps
    <2>5. CASE TakePending(id)
      BY <2>5, TakePendingKeeps
    <2>6. CASE Prints(id)
      BY <2>6, PrintsKeeps
    <2>7. CASE PrintsMarker(id)
      BY <2>7, PrintsMarkerKeeps
    <2>8. CASE ReadyTimer(id)
      BY <2>8, ReadyTimerKeeps
    <2>9. CASE FlushOutput(id)
      BY <2>9, FlushOutputKeeps
    <2>10. CASE ShellExits(id)
      BY <2>10, ShellExitsKeeps
    <2>11. CASE SendFails(id)
      BY <2>11, EndsKeep
    <2>12. CASE GrowsStale(id)
      BY <2>12, GrowsStaleKeeps
    <2> QED  BY <1>4, <2>1, <2>2, <2>3, <2>4, <2>5, <2>6, <2>7, <2>8, <2>9, <2>10, <2>11, <2>12
  <1> QED  BY <1>1, <1>2, <1>3, <1>4 DEF TerminalNext

\* The invariant holds, from which the theorems below follow.
THEOREM TerminalInvariance == TerminalSpec => []TerminalInv
  <1>1. TerminalInv /\ [TerminalNext]_tvars => TerminalInv'
    BY TerminalNextKeeps
  <1> QED  BY <1>1, TerminalBegins, PTL DEF TerminalSpec

\* The tables of the terminal server keep their types, whatever the bounds.
THEOREM TerminalTypesHold == TerminalSpec => []TerminalTypeOK
  <1>1. TerminalInv => TerminalTypeOK
    BY DEF TerminalInv
  <1> QED  BY <1>1, TerminalInvariance, PTL

\* No shell runs that the table does not know, for any number of sessions, rooms and opens.
THEOREM ShellsHaveSessions == TerminalSpec => []EveryShellHasItsSession
  <1>1. TerminalInv => EveryShellHasItsSession
    BY DEF TerminalInv, OneToOne, EveryShellHasItsSession
  <1> QED  BY <1>1, TerminalInvariance, PTL

\* What a browser reads of a shell has no gap, for any number of prints and sizes of the
\* buffers.
THEOREM BrowsersReadWhole == TerminalSpec => []ReadsWhole
  <1>1. TerminalInv => ReadsWhole
    <2> SUFFICES ASSUME TerminalInv, NEW n \in DOMAIN shells
                 PROVE  /\ IsPrefix(shells[n].sent, Reads(n))
                        /\ shells[n].told => shells[n].sent = Reads(n)
      BY DEF ReadsWhole
    <2>1. Reads(n) = Span(shells[n].marker, shells[n].printed)
      BY DEF Reads, Span
    <2> QED  BY <2>1 DEF TerminalInv, AllLeft, Left
  <1> QED  BY <1>1, TerminalInvariance, PTL

-----------------------------------------------------------------------------
(***************************************************************************)
(* TerminalSessions: only TakePending writes to a shell.                      *)
(***************************************************************************)

\* In the table all, nothing has been written to a shell.
Unwritten(all) ==
    /\ all \in Seq(Shell) /\ DOMAIN shells \subseteq DOMAIN all
    /\ \A n \in DOMAIN shells : all[n].typed = shells[n].typed

\* What a step has left as it was to the shells there were.
Spared == \A n \in DOMAIN shells : shells'[n].typed = shells[n].typed

LEMMA NothingIsWritten == TerminalInv => Unwritten(shells)
  BY TablesAre DEF Unwritten

\* One shell is replaced by another that has taken the same.
LEMMA ReplacedIsUnwritten ==
    ASSUME TerminalInv, NEW n \in DOMAIN shells, NEW h \in Shell,
           h.typed = shells[n].typed
    PROVE  Unwritten([shells EXCEPT ![n] = h])
  <1> DEFINE all == [shells EXCEPT ![n] = h]
  <1>1. shells \in Seq(Shell) /\ DOMAIN shells = 1 .. Len(shells) /\ Len(shells) \in Nat
    BY TablesAre
  <1>2. all \in [1 .. Len(shells) -> Shell]
    BY <1>1
  <1>3. all \in Seq(Shell) /\ DOMAIN all = DOMAIN shells
    <2> HIDE DEF all
    <2> QED  BY <1>1, <1>2
  <1>4. \A m \in DOMAIN shells : all[m].typed = shells[m].typed
    BY <1>1
  <1> HIDE DEF all
  <1> QED  BY <1>3, <1>4 DEF Unwritten, all

LEMMA ClosingSpares ==
    ASSUME NEW ids, NEW all, Unwritten(all), CloseAll(ids, all)
    PROVE  Spared
  <1> SUFFICES ASSUME NEW n \in DOMAIN shells  PROVE shells'[n].typed = shells[n].typed
    BY DEF Spared
  <1>1. /\ n \in DOMAIN all /\ all[n] \in Shell /\ all[n].typed = shells[n].typed
    BY DEF Unwritten
  <1>2. \/ shells'[n] = [all[n] EXCEPT !.alive = FALSE]
        \/ shells'[n] = all[n]
    BY <1>1 DEF CloseAll, KillShells
  <1> QED  BY <1>1, <1>2 DEF Shell

LEMMA ReleasingSpares ==
    ASSUME NEW id, NEW prints, NEW all, Unwritten(all),
           Release(id, prints, all) \/ Queue(id, sessions[id], prints, all)
    PROVE  Spared
  <1>1. CloseAll({id}, all) \/ shells' = all
    BY DEF Release, Queue
  <1>2. CASE shells' = all
    BY <1>2 DEF Unwritten, Spared
  <1> QED  BY <1>1, <1>2, ClosingSpares

LEMMA PrintsSpares ==
    ASSUME TerminalInv, NEW id \in SessionIds, Prints(id) \/ PrintsMarker(id)
    PROVE  Spared
  <1> DEFINE n == sessions[id].shell
             h == [shells[n] EXCEPT !.printed = shells[n].printed + 1]
             k == [h EXCEPT !.marker = shells[n].printed + 1]
  <1>1. id \in DOMAIN sessions /\ shells[n].printed < MaxPrinted
    BY DEF Prints, PrintsMarker
  <1>2. n \in DOMAIN shells
    BY <1>1, TablesAre
  <1>3. /\ Printed(n) = [shells EXCEPT ![n] = h] /\ h \in Shell
        /\ h.typed = shells[n].typed /\ h.printed = shells[n].printed + 1
        /\ h.printed \in 1 .. MaxPrinted
    BY <1>1, <1>2, PrintedIs
  <1>4. Unwritten(Printed(n))
    <2> HIDE DEF h, n
    <2> QED  BY <1>2, <1>3, ReplacedIsUnwritten
  <1>5. CASE Prints(id)
    <2>1. \/ \E prints : \/ Queue(id, sessions[id], prints, Printed(n))
                         \/ Release(id, prints, Printed(n))
          \/ shells' = Printed(n)
      BY <1>5 DEF Prints
    <2>2. CASE shells' = Printed(n)
      <3> HIDE DEF n
      <3> QED  BY <1>4, <2>2 DEF Unwritten, Spared
    <2> HIDE DEF n
    <2> QED  BY <1>4, <2>1, <2>2, ReleasingSpares
  <1>6. CASE PrintsMarker(id)
    <2>1. /\ k \in Shell /\ k.typed = shells[n].typed
      <3>1. h.printed \in 0 .. MaxPrinted
        BY <1>3
      <3> HIDE DEF h
      <3> QED  BY <1>3, <3>1 DEF Shell
    <2>2. [Printed(n) EXCEPT ![n].marker = shells[n].printed + 1] = [shells EXCEPT ![n] = k]
      <3>1. [shells EXCEPT ![n] = h][n] = h
        BY <1>2
      <3> HIDE DEF h, n
      <3> QED  BY <1>3, <3>1
    <2>3. Unwritten([Printed(n) EXCEPT ![n].marker = shells[n].printed + 1])
      <3> HIDE DEF k, n
      <3> QED  BY <1>2, <2>1, <2>2, ReplacedIsUnwritten
    <2>4. Release(id, <<>>, [Printed(n) EXCEPT ![n].marker = shells[n].printed + 1])
      BY <1>6 DEF PrintsMarker
    <2> HIDE DEF n
    <2> QED  BY <2>3, <2>4, ReleasingSpares
  <1> QED  BY <1>5, <1>6

LEMMA SendsSpare ==
    ASSUME TerminalInv, NEW id \in SessionIds, FlushOutput(id) \/ ShellExits(id)
    PROVE  Spared
  <1> DEFINE n == sessions[id].shell
  <1>1. n \in DOMAIN shells /\ shells[n] \in Shell
    BY TablesAre DEF FlushOutput, ShellExits
  <1>2. CASE FlushOutput(id)
    <2>1. shells' = [shells EXCEPT ![n].sent = @ \o sessions[id].output]
      BY <1>2 DEF FlushOutput, Sent
    <2> HIDE DEF n
    <2> QED  BY <1>1, <2>1, TablesAre DEF Spared, Shell
  <1>3. CASE ShellExits(id)
    <2> DEFINE s == sessions[id]
               told(rest) == [shells EXCEPT ![n].sent = @ \o rest, ![n].told = TRUE]
    <2>1. CloseAll({id}, shells) \/ CloseAll({id}, told(s.output \o s.preamble))
      BY <1>3 DEF ShellExits
    <2>2. CASE CloseAll({id}, shells)
      BY <2>2, NothingIsWritten, ClosingSpares
    <2>3. CASE CloseAll({id}, told(s.output \o s.preamble))
      <3>1. ASSUME NEW rest, NEW m \in DOMAIN shells
            PROVE  /\ m \in DOMAIN told(rest)
                   /\ told(rest)[m].typed = shells[m].typed
                   /\ [told(rest)[m] EXCEPT !.alive = FALSE].typed = shells[m].typed
        <4>1. shells[m] \in Shell
          BY TablesAre
        <4> HIDE DEF n
        <4> QED  BY <1>1, <4>1 DEF Shell
      <3> HIDE DEF told, s
      <3>2. ASSUME NEW m \in DOMAIN shells  PROVE shells'[m].typed = shells[m].typed
        BY <2>3, <3>1 DEF CloseAll, KillShells
      <3> QED  BY <3>2 DEF Spared
    <2> QED  BY <2>1, <2>2, <2>3
  <1> QED  BY <1>2, <1>3

\* The only step that writes to a shell writes a frame that is newer than the last.
LEMMA TakingIsInOrder ==
    ASSUME TerminalInv, NEW id \in SessionIds, TakePending(id),
           NEW n \in DOMAIN shells, shells'[n].typed # shells[n].typed
    PROVE  shells'[n].typed > shells[n].typed
  <1> DEFINE old == sessions[id]
             q == old.pending
             h == shells[old.shell]
  <1>1. /\ id \in DOMAIN sessions /\ 1 \in DOMAIN q
        /\ \/ shells' = [shells EXCEPT ![old.shell].typed = q[1].sequence]
           \/ UNCHANGED shells
    BY DEF TakePending, Due
  <1>2. /\ old.shell \in DOMAIN shells /\ h \in Shell /\ shells[n] \in Shell
        /\ h.typed < q[1].sequence /\ q \in Seq(Frame)
    BY <1>1, TablesAre DEF Goes, Waits, Session
  <1>3. q[1] \in Frame
    BY <1>1, <1>2
  <1>4. q[1].sequence \in Nat /\ h.typed \in Nat
    <2> HIDE DEF q, h
    <2>1. q[1].sequence \in 1 .. MaxSequence
      BY <1>3 DEF Frame
    <2>2. h.typed \in 0 .. MaxSequence
      BY <1>2 DEF Shell
    <2> QED  BY <2>1, <2>2
  <1> HIDE DEF q, old
  <1>5. CASE shells' = [shells EXCEPT ![old.shell].typed = q[1].sequence]
    <2>1. CASE n = old.shell
      <3>1. shells'[n].typed = q[1].sequence
        BY <1>2, <1>5, <2>1 DEF Shell
      <3> QED  BY <1>2, <1>4, <2>1, <3>1
    <2> QED  BY <1>5, <2>1
  <1> QED  BY <1>1, <1>5

\* A shell takes what was typed in the order it was typed, each frame once, for any number
\* of frames, rooms and sessions (#receive).
THEOREM TypedInOrderAlways == TerminalSpec => TypedInOrder
  <1>1. ASSUME TerminalInv, [TerminalNext]_tvars
        PROVE  [\A n \in DOMAIN shells : shells'[n].typed # shells[n].typed =>
                    shells'[n].typed > shells[n].typed]_tvars
    <2> SUFFICES \A n \in DOMAIN shells : shells'[n].typed # shells[n].typed =>
                    shells'[n].typed > shells[n].typed
      OBVIOUS
    <2>0. Spared => \A n \in DOMAIN shells : shells'[n].typed # shells[n].typed =>
                    shells'[n].typed > shells[n].typed
      BY DEF Spared
    <2>1. CASE UNCHANGED shells
      BY <2>0, <2>1 DEF Spared
    <2>2. Unwritten(shells)
      BY <1>1, NothingIsWritten
    <2>3. CASE StopTerminal \/ SweepSessions \/ \E id \in SessionIds : SendFails(id) \/ OpenFrame(id)
      <3>1. \E ids : CloseAll(ids, shells)
        BY <2>3 DEF StopTerminal, SweepSessions, SendFails, OpenFrame
      <3> QED  BY <2>0, <2>2, <3>1, ClosingSpares
    <2>4. CASE \E r \in Repository : AddRepository(r) \/ ReleaseRepository(r)
      BY <2>1, <2>4 DEF AddRepository, ReleaseRepository
    <2>5. ASSUME NEW id \in SessionIds,
                 \/ ShellFails(id) \/ OpenAnswered(id) \/ GrowsStale(id) \/ StartTerminal
          PROVE  Spared
      BY <2>5 DEF ShellFails, OpenAnswered, GrowsStale, StartTerminal, Spared
    <2>6. ASSUME NEW id \in SessionIds, ShellStarts(id)
          PROVE  Spared
      <3>1. shells' = Append(shells, NewShell) /\ shells \in Seq(Shell)
        BY <1>1, <2>6, TablesAre DEF ShellStarts
      <3>2. \A n \in DOMAIN shells : Append(shells, NewShell)[n] = shells[n]
        BY <3>1
      <3> QED  BY <3>1, <3>2 DEF Spared
    <2>7. ASSUME NEW id \in SessionIds, NEW frame \in Frame, Receive(id, frame)
          PROVE  Spared
      <3>1. CloseAll({id}, shells) \/ UNCHANGED shells
        BY <2>7 DEF Receive
      <3>2. CASE UNCHANGED shells
        BY <3>2 DEF Spared
      <3> QED  BY <2>2, <3>1, <3>2, ClosingSpares
    <2>8. ASSUME NEW id \in SessionIds, Prints(id) \/ PrintsMarker(id)
          PROVE  Spared
      BY <1>1, <2>8, PrintsSpares
    <2>9. ASSUME NEW id \in SessionIds, ReadyTimer(id)
          PROVE  Spared
      BY <2>2, <2>9, ReleasingSpares DEF ReadyTimer
    <2>10. ASSUME NEW id \in SessionIds, FlushOutput(id) \/ ShellExits(id)
           PROVE  Spared
      BY <1>1, <2>10, SendsSpare
    <2>11. ASSUME NEW id \in SessionIds, TakePending(id)
           PROVE  \A n \in DOMAIN shells : shells'[n].typed # shells[n].typed =>
                    shells'[n].typed > shells[n].typed
      BY <1>1, <2>11, TakingIsInOrder
    <2>12. CASE StartTerminal
      BY <2>1, <2>12 DEF StartTerminal
    <2>13. CASE UNCHANGED tvars
      BY <2>1, <2>13 DEF tvars
    <2> QED  BY <1>1, <2>0, <2>3, <2>4, <2>5, <2>6, <2>7, <2>8, <2>9, <2>10, <2>11, <2>12,
                <2>13 DEF TerminalNext
  <1> QED  BY <1>1, TerminalInvariance, PTL DEF TerminalSpec, TypedInOrder

-----------------------------------------------------------------------------
(***************************************************************************)
(* WatcherService: the processes of the service and their starters.           *)
(***************************************************************************)

Pcs == {"idle", "lock", "steal", "done"} \cup Holding \cup Stopping
Proc == [phase : Phases, version : Version, ready : BOOLEAN, stopping : BOOLEAN,
         handler : BOOLEAN, again : {0} \cup Version]
Doing == [pc : Pcs, kind : {"start", "stop", "restart"},
          child : Service \cup {None}, targets : SUBSET Service, attempt : {1, 2}]
StartLock == [by : Starter \cup {None}, old : BOOLEAN, missed : SUBSET Starter]
ServiceState == [by : Service \cup {None}, ready : BOOLEAN, fresh : BOOLEAN]
Counters ==
    /\ command \in Service \cup {None}
    /\ installed \in Version \cup {0}
    /\ watchdog \in {None, "loaded", "unloaded"}
    /\ late \in BOOLEAN /\ stolen \in BOOLEAN
    /\ replaced \in 0..MaxReplaced /\ crashes \in 0..MaxCrashes /\ kills \in 0..MaxKills
    /\ stalls \in 0..MaxStalls /\ slow \in 0..MaxSlow

\* A process that is there and is not its successor's starter.
Lives(s) == svc[s].phase \notin {"none", "restarting"}
LockHeld == \A a \in Starter : Holds(a) => lock.by = a
Cleared == \A a \in Starter : Holds(a) =>
    /\ act[a].pc = "kill" => \A s \in Service : Alive(s) => s = a \/ s \in act[a].targets
    /\ act[a].pc = "spawn" => \A s \in Service : Alive(s) => s = a
OneLives == \A s, t \in Service : Lives(s) /\ Lives(t) => s = t

Stops(c) == Command[c] \ {"start"} # {}
OneStops == \A c, d \in Caller : Stops(c) /\ Stops(d) => c = d
Commanded == \A a \in Starter :
    act[a].pc \in Stopping => a \in Caller /\ act[a].kind \in Command[a] \ {"start"}
Asked == OneStops =>
    \A c \in Caller : act[c].pc = "stopwait" =>
        \A t \in act[c].targets : Polls(t) => state.by = t

Orderly == LockHeld /\ Cleared /\ OneLives /\ Asked
WatcherInv == TypeOK /\ Commanded /\ (stolen \/ Orderly)

LEMMA TypesAre ==
    TypeOK <=> /\ svc \in [Service -> Proc] /\ act \in [Starter -> Doing]
               /\ lock \in StartLock /\ state \in ServiceState /\ Counters
  BY DEF TypeOK, Proc, Doing, StartLock, ServiceState, Counters, Pcs

LEMMA NextTypesAre ==
    TypeOK' <=> /\ svc' \in [Service -> Proc] /\ act' \in [Starter -> Doing]
                /\ lock' \in StartLock /\ state' \in ServiceState /\ Counters'
  BY DEF TypeOK, Proc, Doing, StartLock, ServiceState, Counters, Pcs

LEMMA Blank ==
    /\ Dead \in Proc /\ Idle \in Doing /\ NoLock \in StartLock /\ NoState \in ServiceState
    /\ Dead.phase = "none" /\ Idle.pc = "idle" /\ Idle.targets = {} /\ NoLock.by = None
    /\ NoState.by = None
  <1>1. 1 \in Version
    BY BoundAssumption DEF Version
  <1>2. Dead \in Proc
    BY <1>1 DEF Dead, Proc, Phases
  <1>3. Idle \in Doing
    BY DEF Idle, Doing, Pcs
  <1> QED  BY <1>2, <1>3 DEF Dead, Idle, NoLock, NoState, StartLock, ServiceState

\* A starter goes to another place, and with targets.
LEMMA PcMoves ==
    ASSUME act \in [Starter -> Doing], NEW a \in Starter, NEW pc \in Pcs
    PROVE  LET d == [act[a] EXCEPT !.pc = pc]
           IN  /\ d \in Doing /\ d.pc = pc /\ d.kind = act[a].kind /\ d.targets = act[a].targets
               /\ [act EXCEPT ![a].pc = pc] = [act EXCEPT ![a] = d]
  <1> DEFINE o == act[a]
  <1>1. o \in Doing
    OBVIOUS
  <1> HIDE DEF o
  <1>2. LET d == [o EXCEPT !.pc = pc]
        IN  d \in Doing /\ d.pc = pc /\ d.kind = o.kind /\ d.targets = o.targets
    BY <1>1 DEF Doing
  <1> QED  BY <1>2 DEF o

\* What a starter does, gone on to pc with the processes it is after.
After(d, pc, targets) == [d EXCEPT !.pc = pc, !.targets = targets]

LEMMA TargetsMove ==
    ASSUME act \in [Starter -> Doing], NEW a \in Starter, NEW pc \in Pcs,
           NEW targets, targets \subseteq Service
    PROVE  /\ After(act[a], pc, targets) \in Doing
           /\ After(act[a], pc, targets).pc = pc
           /\ After(act[a], pc, targets).kind = act[a].kind
           /\ After(act[a], pc, targets).targets = targets
  <1> DEFINE o == act[a]
             e == [o EXCEPT !.pc = pc]
             d == [e EXCEPT !.targets = targets]
  <1>1. e \in Doing /\ e.pc = pc /\ e.kind = o.kind
    BY PcMoves
  <1>2. d \in Doing /\ d.pc = pc /\ d.kind = o.kind /\ d.targets = targets
    <2> HIDE DEF e, o
    <2> QED  BY <1>1 DEF Doing
  <1>3. After(o, pc, targets) = d
    BY DEF After
  <1> HIDE DEF d
  <1> QED  BY <1>2, <1>3

-----------------------------------------------------------------------------
\* What a step leaves of the processes.
Fewer == \A s \in Service : (Alive(s)' => Alive(s)) /\ (Lives(s)' => Lives(s))
NoneRestarts(S) == \A s \in S : svc'[s].phase = "restarting" => svc[s].phase = "restarting"

\* Only processes of the service move, and the state file with them.
LEMMA ServicesMove ==
    ASSUME WatcherInv, TypeOK', UNCHANGED act, lock'.by = lock.by, stolen => stolen',
           ~stolen => /\ Fewer /\ NoneRestarts(Service)
                      /\ \A t \in Service :
                            Polls(t)' => state'.by = t \/ (Polls(t) /\ state'.by = state.by)
    PROVE  WatcherInv'
  <1>1. Commanded'
    BY DEF WatcherInv, Commanded
  <1>2. ASSUME ~stolen  PROVE Orderly'
    <2>1. /\ LockHeld /\ Cleared /\ OneLives /\ Asked /\ Fewer /\ NoneRestarts(Service)
      BY <1>2 DEF WatcherInv, Orderly
    <2>2. \A a \in Starter : Holds(a)' => Holds(a)
      BY <2>1 DEF Holds, Active, NoneRestarts
    <2>3. LockHeld'
      BY <2>1, <2>2 DEF LockHeld
    <2>4. Cleared'
      BY <2>1, <2>2 DEF Cleared, Fewer
    <2>5. OneLives'
      BY <2>1 DEF OneLives, Fewer
    <2>6. Asked'
      <3>0. \A c \in Caller : act[c].targets \subseteq Service
        BY TypesAre DEF WatcherInv, Starter, Doing
      <3>1. SUFFICES ASSUME OneStops, NEW c \in Caller, act'[c].pc = "stopwait",
                            NEW t \in act'[c].targets, Polls(t)'
                     PROVE  state'.by = t
        BY DEF Asked, OneStops, Stops
      <3>2. t \in act[c].targets /\ act[c].pc = "stopwait" /\ t \in Service
        BY <3>0, <3>1
      <3>3. Polls(t) => state.by = t
        BY <2>1, <3>1, <3>2 DEF Asked
      <3> QED  BY <1>2, <3>1, <3>2, <3>3
    <2> QED  BY <2>3, <2>4, <2>5, <2>6 DEF Orderly
  <1> QED  BY <1>1, <1>2 DEF WatcherInv

\* The starter a goes on to d.
LEMMA StarterMoves ==
    ASSUME WatcherInv, TypeOK', NEW a \in Starter, NEW d \in Doing,
           act' = [act EXCEPT ![a] = d], stolen => stolen',
           d.pc \in Stopping => a \in Caller /\ d.kind \in Command[a] \ {"start"},
           ~stolen' =>
              /\ Fewer /\ NoneRestarts(Service \ {a})
              /\ \A t \in Service : Polls(t)' => Polls(t)
              /\ lock'.by = lock.by \/ \A b \in Starter \ {a} : ~Holds(b)
              /\ Holds(a)' =>
                    /\ lock'.by = a
                    /\ d.pc = "kill" => \A s \in Service : Alive(s)' => s = a \/ s \in d.targets
                    /\ d.pc = "spawn" => \A s \in Service : Alive(s)' => s = a
              /\ \/ state'.by = state.by
                 \/ \A t \in Service : ~Polls(t)'
                 \/ OneStops => \A c \in Caller \ {a} : act[c].pc # "stopwait"
              /\ d.pc = "stopwait" => \A t \in d.targets : Polls(t)' => state'.by = t
    PROVE  WatcherInv'
  <1>0. /\ act'[a] = d /\ \A b \in Starter \ {a} : act'[b] = act[b]
    BY TypesAre DEF WatcherInv
  <1>1. Commanded'
    BY <1>0 DEF WatcherInv, Commanded
  <1>2. ASSUME ~stolen'  PROVE Orderly'
    <2>1. /\ LockHeld /\ Cleared /\ OneLives /\ Asked /\ Fewer /\ NoneRestarts(Service \ {a})
      BY <1>2 DEF WatcherInv, Orderly
    <2>2. \A b \in Starter \ {a} : Holds(b)' => Holds(b)
      BY <1>0, <2>1 DEF Holds, Active, NoneRestarts
    <2>3. LockHeld'
      BY <1>2, <2>1, <2>2 DEF LockHeld
    <2>4. Cleared'
      BY <1>0, <1>2, <2>1, <2>2 DEF Cleared, Fewer
    <2>5. OneLives'
      BY <2>1 DEF OneLives, Fewer
    <2>6. Asked'
      <3>0. \A c \in Caller : act'[c].targets \subseteq Service
        BY NextTypesAre DEF Starter, Doing
      <3>1. SUFFICES ASSUME OneStops, NEW c \in Caller, act'[c].pc = "stopwait",
                            NEW t \in act'[c].targets, Polls(t)'
                     PROVE  state'.by = t
        BY DEF Asked, OneStops, Stops
      <3>2. CASE c = a
        BY <1>0, <1>2, <3>1, <3>2
      <3>3. CASE c # a
        <4>1. c \in Starter \ {a} /\ t \in Service /\ act'[c] = act[c]
          BY <1>0, <3>0, <3>3 DEF Starter
        <4>2. Polls(t) /\ state.by = t
          BY <1>2, <2>1, <3>1, <4>1 DEF Asked
        <4> QED  BY <1>2, <3>1, <3>3, <4>1, <4>2
      <3> QED  BY <3>2, <3>3
    <2> QED  BY <2>3, <2>4, <2>5, <2>6 DEF Orderly
  <1> QED  BY <1>1, <1>2 DEF WatcherInv

-----------------------------------------------------------------------------
\* As long as no lock was removed from under its holder, nobody else holds one.
LEMMA OneHolds ==
    ASSUME WatcherInv, ~stolen, NEW a \in Starter, Holds(a) \/ lock.by = None
    PROVE  \A b \in Starter \ {a} : ~Holds(b)
  BY NoneAssumption DEF WatcherInv, Orderly, LockHeld

LEMMA LockKeeps ==
    ASSUME WatcherInv, NEW a \in Starter, TakeLock(a) \/ SeesOldLock(a) \/ RemoveOldLock(a)
    PROVE  WatcherInv'
  <1> DEFINE d(pc) == [act[a] EXCEPT !.pc = pc]
  <1>0. /\ svc \in [Service -> Proc] /\ act \in [Starter -> Doing] /\ lock \in StartLock
        /\ state \in ServiceState /\ Counters
    BY TypesAre DEF WatcherInv
  <1>1. \A pc \in Pcs : /\ d(pc) \in Doing /\ d(pc).pc = pc /\ d(pc).kind = act[a].kind
                        /\ [act EXCEPT ![a].pc = pc] = [act EXCEPT ![a] = d(pc)]
    BY <1>0, PcMoves
  <1>2. /\ UNCHANGED svc /\ UNCHANGED state /\ UNCHANGED late
        /\ UNCHANGED <<command, installed, watchdog, bounds>>
    BY DEF TakeLock, SeesOldLock, RemoveOldLock, history, files
  <1>3. Fewer /\ NoneRestarts(Service \ {a}) /\ \A t \in Service : Polls(t)' => Polls(t)
    BY <1>2 DEF Fewer, NoneRestarts, Alive, Lives, Polls
  <1>4. {"check", "steal", "lock"} \subseteq Pcs \ Stopping /\ "check" \in Holding
        /\ "steal" \notin Holding /\ "lock" \notin Holding
    BY DEF Pcs, Stopping, Holding
  <1>5. CASE TakeLock(a)
    <2>1. /\ lock = NoLock /\ lock' = [NoLock EXCEPT !.by = a] /\ UNCHANGED stolen
          /\ act' = [act EXCEPT ![a] = d("check")]
      BY <1>1, <1>4, <1>5 DEF TakeLock, Goto, history
    <2>2. lock'.by = a /\ lock' \in StartLock /\ lock.by = None
      BY <2>1, Blank DEF NoLock, StartLock
    <2>3. d("check") \in Doing /\ d("check").pc = "check"
      BY <1>1, <1>4
    <2>4. TypeOK'
      BY <1>0, <1>2, <2>1, <2>2, <2>3, NextTypesAre DEF Counters, bounds
    <2> HIDE DEF d
    <2> QED  BY <1>2, <1>3, <1>4, <2>1, <2>2, <2>3, <2>4, OneHolds, StarterMoves
  <1>6. CASE SeesOldLock(a)
    <2>1. /\ UNCHANGED lock /\ UNCHANGED stolen
          /\ act' = [act EXCEPT ![a] = d("steal")]
      BY <1>1, <1>4, <1>6 DEF SeesOldLock, Goto, history, files
    <2>3. d("steal") \in Doing /\ d("steal").pc = "steal"
      BY <1>1, <1>4
    <2>4. TypeOK'
      BY <1>0, <1>2, <2>1, <2>3, NextTypesAre DEF Counters, bounds
    <2>5. ~Holds(a)'
      BY <1>0, <1>4, <2>1, <2>3 DEF Holds
    <2> HIDE DEF d
    <2> QED  BY <1>2, <1>3, <1>4, <2>1, <2>3, <2>4, <2>5, StarterMoves
  <1>7. CASE RemoveOldLock(a)
    <2>1. /\ lock' = NoLock /\ stolen' = (stolen \/ (lock.by # None /\ Holds(lock.by)))
          /\ act' = [act EXCEPT ![a] = d("lock")]
      BY <1>1, <1>4, <1>7 DEF RemoveOldLock, Goto
    <2>3. d("lock") \in Doing /\ d("lock").pc = "lock"
      BY <1>1, <1>4
    <2>4. TypeOK'
      <3>1. stolen' \in BOOLEAN
        BY <2>1
      <3> QED  BY <1>0, <1>2, <2>1, <2>3, <3>1, Blank, NextTypesAre DEF Counters, bounds
    <2>5. ~Holds(a)'
      BY <1>0, <1>4, <2>1, <2>3 DEF Holds
    <2>6. ~stolen' => ~stolen /\ \A b \in Starter \ {a} : ~Holds(b)
      <3> SUFFICES ASSUME ~stolen', NEW b \in Starter \ {a}, Holds(b), ~stolen
                   PROVE  FALSE
        BY <2>1
      <3>1. lock.by = b
        BY DEF WatcherInv, Orderly, LockHeld
      <3> QED  BY <2>1, <3>1, NoneAssumption
    <2> HIDE DEF d
    <2> QED  BY <1>2, <1>3, <1>4, <2>1, <2>3, <2>4, <2>5, <2>6, StarterMoves
  <1> QED  BY <1>5, <1>6, <1>7

\* The process s becomes p, and nobody else moves.
LEMMA OneProcessMoves ==
    ASSUME WatcherInv, NEW s \in Service, NEW p \in Proc, svc' = [svc EXCEPT ![s] = p],
           p.phase # "none" => Lives(s) /\ p.phase # "restarting",
           state' \in ServiceState,
           ~stolen => \/ Polls(s)' => state'.by = s \/ (Polls(s) /\ state'.by = state.by),
           \/ state'.by = state.by \/ Lives(s),
           UNCHANGED <<act, lock, stolen>>, Counters'
    PROVE  WatcherInv'
  <1>0. /\ svc \in [Service -> Proc] /\ act \in [Starter -> Doing] /\ lock \in StartLock
    BY TypesAre DEF WatcherInv
  <1>1. TypeOK'
    BY <1>0, NextTypesAre
  <1>2. svc'[s] = p /\ \A t \in Service \ {s} : svc'[t] = svc[t]
    BY <1>0
  <1>3. Fewer /\ NoneRestarts(Service)
    BY <1>2 DEF Fewer, NoneRestarts, Alive, Lives
  <1>4. ASSUME ~stolen, NEW t \in Service, Polls(t)'
        PROVE  state'.by = t \/ (Polls(t) /\ state'.by = state.by)
    <2>1. CASE t = s
      BY <1>4, <2>1
    <2>2. CASE t # s
      <3>1. Polls(t) /\ Lives(t)
        BY <1>2, <1>4, <2>2 DEF Polls, Lives
      <3>2. ~Lives(s)
        BY <1>4, <2>2, <3>1 DEF WatcherInv, Orderly, OneLives
      <3> QED  BY <3>1, <3>2
    <2> QED  BY <2>1, <2>2
  <1> QED  BY <1>1, <1>3, <1>4, ServicesMove

\* What may be written of a process.
LEMMA ProcessIs ==
    ASSUME NEW o \in Proc
    PROVE  /\ \A ph \in Phases : LET p == [o EXCEPT !.phase = ph]
                                 IN  p \in Proc /\ p.phase = ph
           /\ LET p == [o EXCEPT !.phase = "ready", !.ready = TRUE]
              IN  p \in Proc /\ p.phase = "ready"
           /\ LET p == [o EXCEPT !.stopping = TRUE] IN p \in Proc /\ p.phase = o.phase
           /\ \A v \in Version : LET p == [o EXCEPT !.again = v, !.stopping = TRUE]
                                 IN  p \in Proc /\ p.phase = o.phase
           /\ LET p == [o EXCEPT !.handler = FALSE, !.stopping = TRUE]
              IN p \in Proc /\ p.phase = o.phase
           /\ o.version \in Version /\ o.ready \in BOOLEAN /\ o.phase \in Phases
  <1>1. "ready" \in Phases
    BY DEF Phases
  <1>2. \A ph \in Phases : LET p == [o EXCEPT !.phase = ph] IN p \in Proc /\ p.phase = ph
    BY DEF Proc
  <1>3. ASSUME NEW u \in Proc
        PROVE  LET p == [u EXCEPT !.ready = TRUE] IN p \in Proc /\ p.phase = u.phase
    BY DEF Proc
  <1>4. ASSUME NEW u \in Proc
        PROVE  LET p == [u EXCEPT !.stopping = TRUE] IN p \in Proc /\ p.phase = u.phase
    BY DEF Proc
  <1>5. ASSUME NEW u \in Proc, NEW v \in Version
        PROVE  LET p == [u EXCEPT !.again = v] IN p \in Proc /\ p.phase = u.phase
    BY DEF Proc
  <1>6. ASSUME NEW u \in Proc
        PROVE  LET p == [u EXCEPT !.handler = FALSE] IN p \in Proc /\ p.phase = u.phase
    BY DEF Proc
  <1>7. o.version \in Version /\ o.ready \in BOOLEAN /\ o.phase \in Phases
    BY DEF Proc
  <1>8. LET p == [[o EXCEPT !.phase = "ready"] EXCEPT !.ready = TRUE]
        IN  p \in Proc /\ p.phase = "ready"
    BY <1>1, <1>2, <1>3
  <1>9. \A v \in Version : LET p == [[o EXCEPT !.again = v] EXCEPT !.stopping = TRUE]
                           IN  p \in Proc /\ p.phase = o.phase
    BY <1>4, <1>5
  <1>10. LET p == [[o EXCEPT !.handler = FALSE] EXCEPT !.stopping = TRUE]
         IN  p \in Proc /\ p.phase = o.phase
    BY <1>4, <1>6
  <1> QED  BY <1>2, <1>4, <1>7, <1>8, <1>9, <1>10

LEMMA WrittenIs ==
    ASSUME svc \in [Service -> Proc], NEW s \in Service
    PROVE  Written(s) \in ServiceState /\ Written(s).by = s
  <1>1. svc[s].ready \in BOOLEAN
    BY ProcessIs
  <1> QED  BY <1>1 DEF Written, ServiceState

\* What a process does up to the end of its service.
LEMMA ProcessKeeps ==
    ASSUME WatcherInv, NEW s \in Service,
           \/ CreateControl(s) \/ Ready(s) \/ StartFails(s) \/ EnsureWatchdog(s) \/ Poll(s)
           \/ (\E v \in Version : InstallUpdate(s, v)) \/ Rotate(s) \/ Close(s) \/ DropHandlers(s)
           \/ CrashService(s)
    PROVE  WatcherInv'
  <1> DEFINE o == svc[s]
  <1>0. /\ svc \in [Service -> Proc] /\ act \in [Starter -> Doing] /\ lock \in StartLock
        /\ state \in ServiceState /\ Counters
    BY TypesAre DEF WatcherInv
  <1>1. o \in Proc
    BY <1>0
  <1>2. /\ Written(s) \in ServiceState /\ Written(s).by = s
        /\ [by |-> s, ready |-> TRUE, fresh |-> TRUE] \in ServiceState
    BY <1>0, WrittenIs DEF ServiceState
  <1>3. {"starting", "ready", "serving", "closing", "teardown", "none"} \subseteq Phases
    BY DEF Phases
  <1>4. CASE CreateControl(s)
    <2>1. UNCHANGED <<act, lock, stolen>> /\ Lives(s) /\ Counters'
      BY <1>0, <1>4 DEF CreateControl, Lives, history, bounds, Counters
    <2>2. CASE svc' = [svc EXCEPT ![s] = Dead] /\ state' = state
      BY <1>0, <2>1, <2>2, Blank, OneProcessMoves DEF Polls
    <2>3. CASE Set(s, "starting") /\ state' = Written(s)
      <3> DEFINE p == [o EXCEPT !.phase = "starting"]
      <3>1. p \in Proc /\ p.phase = "starting"
        BY <1>1, <1>3, ProcessIs
      <3>2. svc' = [svc EXCEPT ![s] = p]
        BY <2>3 DEF Set
      <3> HIDE DEF p
      <3> QED  BY <1>2, <2>1, <2>3, <3>1, <3>2, OneProcessMoves
    <2> QED  BY <1>4, <2>2, <2>3 DEF CreateControl
  <1>5. CASE Ready(s)
    <2> DEFINE p == [o EXCEPT !.phase = "ready", !.ready = TRUE]
    <2>1. p \in Proc /\ p.phase = "ready"
      BY <1>1, ProcessIs
    <2>2. /\ UNCHANGED <<act, lock, stolen>> /\ Lives(s) /\ Counters' /\ svc' = [svc EXCEPT ![s] = p]
          /\ state' = [by |-> s, ready |-> TRUE, fresh |-> TRUE]
      BY <1>0, <1>5 DEF Ready, Lives, history, bounds, Counters
    <2> HIDE DEF p
    <2> QED  BY <1>2, <2>1, <2>2, OneProcessMoves
  <1>6. CASE StartFails(s) \/ Close(s)
    <2> DEFINE p == [o EXCEPT !.phase = "closing"]
    <2>1. p \in Proc /\ p.phase = "closing"
      BY <1>1, <1>3, ProcessIs
    <2>2. /\ UNCHANGED <<act, lock, stolen>> /\ Lives(s) /\ Counters' /\ svc' = [svc EXCEPT ![s] = p]
          /\ state' \in ServiceState
      BY <1>0, <1>6, Blank DEF StartFails, Close, Set, Lives, history, bounds, Counters
    <2>3. ~Polls(s)'
      <3> HIDE DEF p
      <3> QED  BY <1>0, <2>1, <2>2 DEF Polls
    <2> HIDE DEF p
    <2> QED  BY <2>1, <2>2, <2>3, OneProcessMoves
  <1>7. CASE EnsureWatchdog(s) \/ DropHandlers(s)
    <2> DEFINE p(ph) == [o EXCEPT !.phase = ph]
    <2>1. PICK ph \in {"serving", "teardown"} :
             /\ svc' = [svc EXCEPT ![s] = p(ph)]
             /\ ph = "serving" => svc[s].phase = "ready"
      BY <1>7 DEF EnsureWatchdog, DropHandlers, Set
    <2>2. p(ph) \in Proc /\ p(ph).phase = ph
      <3>1. ph \in Phases
        BY <1>3
      <3> HIDE DEF o
      <3> QED  BY <1>1, <3>1, ProcessIs
    <2>3. /\ UNCHANGED <<act, lock, stolen, state>> /\ Lives(s) /\ Counters'
      BY <1>0, <1>7 DEF EnsureWatchdog, DropHandlers, Lives, history, bounds, Counters, files
    <2> HIDE DEF p
    <2>4. Polls(s)' => Polls(s)
      BY <1>0, <2>1, <2>2 DEF Polls
    <2> QED  BY <1>0, <2>1, <2>2, <2>3, <2>4, OneProcessMoves
  <1>8. CASE Poll(s)
    <2> DEFINE p == [o EXCEPT !.stopping = TRUE]
    <2>1. p \in Proc /\ p.phase = o.phase
      BY <1>1, ProcessIs
    <2>2. /\ UNCHANGED <<act, lock, stolen>> /\ Lives(s) /\ Counters' /\ state' = Written(s)
          /\ svc' = [svc EXCEPT ![s] = p] \/ svc' = [svc EXCEPT ![s] = o]
      BY <1>0, <1>8 DEF Poll, Polls, Lives, history, bounds, Counters
    <2>3. o.phase # "restarting"
      BY <1>8 DEF Poll, Polls
    <2> HIDE DEF p
    <2> QED  BY <1>1, <1>2, <2>1, <2>2, <2>3, OneProcessMoves
  <1>9. CASE (\E v \in Version : InstallUpdate(s, v)) \/ Rotate(s)
    <2> DEFINE p(v) == [o EXCEPT !.again = v, !.stopping = TRUE]
    <2>1. \A v \in Version : p(v) \in Proc /\ p(v).phase = o.phase
      BY <1>1, ProcessIs
    <2>2. PICK v \in Version : svc' = [svc EXCEPT ![s] = p(v)]
      <3>1. o.version \in Version
        <4> HIDE DEF o
        <4> QED  BY <1>1, ProcessIs
      <3>2. CASE Rotate(s)
        <4>1. svc' = [svc EXCEPT ![s] = p(svc[s].version)]
          BY <3>2 DEF Rotate
        <4> HIDE DEF p
        <4> QED  BY <3>1, <4>1
      <3>3. CASE \E v \in Version : InstallUpdate(s, v)
        <4>1. PICK v \in Version : InstallUpdate(s, v)
          BY <3>3
        <4>2. svc' = [svc EXCEPT ![s] = p(v)]
          BY <4>1 DEF InstallUpdate
        <4> HIDE DEF p
        <4> QED  BY <4>1, <4>2
      <3> QED  BY <1>9, <3>2, <3>3
    <2>3. /\ UNCHANGED <<act, lock, stolen, state>> /\ o.phase = "serving"
      BY <1>0, <1>9 DEF InstallUpdate, Rotate, history, files
    <2>4. Counters'
      <3>1. replaced < MaxReplaced /\ replaced' = replaced + 1
        BY <1>9 DEF InstallUpdate, Rotate
      <3>2. replaced' \in 0 .. MaxReplaced
        BY <1>0, <3>1, BoundAssumption DEF Counters
      <3> QED  BY <1>0, <1>9, <3>2 DEF InstallUpdate, Rotate, Counters, history, files
    <2>5. Lives(s) /\ Polls(s)
      BY <2>3 DEF Lives, Polls
    <2> HIDE DEF p
    <2> QED  BY <1>0, <2>1, <2>2, <2>3, <2>4, <2>5, OneProcessMoves
  <1>10. CASE CrashService(s)
    <2>1. /\ svc' = [svc EXCEPT ![s] = Dead] /\ UNCHANGED <<act, lock, stolen, state>>
      BY <1>10 DEF CrashService, files, history
    <2>2. crashes' \in 0 .. MaxCrashes
      BY <1>0, <1>10, BoundAssumption DEF CrashService, Counters
    <2>3. Counters'
      BY <1>0, <1>10, <2>2 DEF CrashService, Counters, history, files
    <2>4. ~Polls(s)'
      BY <1>0, <2>1, Blank DEF Polls
    <2> QED  BY <1>0, <2>1, <2>3, <2>4, Blank, OneProcessMoves
  <1> QED  BY <1>4, <1>5, <1>6, <1>7, <1>8, <1>9, <1>10

\* A process that is torn down ends, or starts its successor.
LEMMA TearingKeeps ==
    ASSUME WatcherInv, NEW s \in Service, TornDown(s)
    PROVE  WatcherInv'
  <1> DEFINE d == [Idle EXCEPT !.pc = "lock"]
             p == [svc[s] EXCEPT !.phase = "restarting"]
  <1>0. /\ svc \in [Service -> Proc] /\ act \in [Starter -> Doing] /\ lock \in StartLock
        /\ state \in ServiceState /\ Counters
    BY TypesAre DEF WatcherInv
  <1>1. UNCHANGED <<lock, stolen, state>> /\ Counters' /\ Lives(s)
    BY <1>0 DEF TornDown, files, history, bounds, Counters, Lives
  <1>2. CASE svc' = [svc EXCEPT ![s] = Dead] /\ act' = act
    <2>1. ~Polls(s)'
      BY <1>0, <1>2, Blank DEF Polls
    <2> QED  BY <1>0, <1>1, <1>2, <2>1, Blank, OneProcessMoves
  <1>3. CASE Set(s, "restarting") /\ act' = [act EXCEPT ![s] = d]
    <2>1. p \in Proc /\ p.phase = "restarting"
      <3>1. "restarting" \in Phases /\ svc[s] \in Proc
        BY <1>0 DEF Phases
      <3> QED  BY <3>1, ProcessIs
    <2>2. d \in Doing /\ d.pc = "lock"
      BY Blank DEF Doing, Pcs, Idle
    <2>3. svc' = [svc EXCEPT ![s] = p]
      BY <1>3 DEF Set
    <2> HIDE DEF p, d
    <2>4. svc'[s].phase = "restarting" /\ \A t \in Service \ {s} : svc'[t] = svc[t]
      BY <1>0, <2>1, <2>3
    <2>5. Fewer /\ NoneRestarts(Service \ {s}) /\ \A t \in Service : Polls(t)' => Polls(t)
      BY <1>1, <2>4 DEF Fewer, NoneRestarts, Alive, Lives, Polls
    <2>6. s \in Starter /\ "lock" \notin Stopping /\ "lock" \notin Holding
      BY DEF Starter, Stopping, Holding
    <2>7. ~Holds(s)'
      BY <1>0, <1>3, <2>2, <2>6 DEF Holds
    <2>8. TypeOK'
      BY <1>0, <1>1, <1>3, <2>1, <2>2, <2>3, NextTypesAre
    <2> QED  BY <1>1, <1>3, <2>2, <2>5, <2>6, <2>7, <2>8, StarterMoves
  <1> QED  BY <1>2, <1>3 DEF TornDown

\* Time passes: the state file or the lock grows old, or a closed process writes late.
LEMMA AgeingKeeps ==
    ASSUME WatcherInv,
           HeartbeatAges \/ LockAges \/ \E s \in Service : WriteStateLate(s)
    PROVE  WatcherInv'
  <1>0. /\ svc \in [Service -> Proc] /\ act \in [Starter -> Doing] /\ lock \in StartLock
        /\ state \in ServiceState /\ Counters
    BY TypesAre DEF WatcherInv
  <1>1. UNCHANGED <<svc, act, stolen>>
    BY DEF HeartbeatAges, LockAges, WriteStateLate, history
  <1>2. Fewer /\ NoneRestarts(Service)
    BY <1>1 DEF Fewer, NoneRestarts, Alive, Lives
  <1>3. CASE HeartbeatAges \/ LockAges
    <2>1. /\ lock' \in StartLock /\ lock'.by = lock.by
      BY <1>0, <1>3 DEF HeartbeatAges, LockAges, StartLock
    <2>2. /\ state' \in ServiceState /\ state'.by = state.by
      BY <1>0, <1>3 DEF HeartbeatAges, LockAges, ServiceState
    <2>3. stalls' \in 0 .. MaxStalls
      BY <1>0, <1>3, BoundAssumption DEF HeartbeatAges, LockAges, Counters
    <2>4. Counters'
      BY <1>0, <1>3, <2>3 DEF HeartbeatAges, LockAges, Counters, history
    <2>5. TypeOK'
      BY <1>0, <1>1, <2>1, <2>2, <2>4, NextTypesAre
    <2>6. \A t \in Service : Polls(t)' => Polls(t)
      BY <1>1 DEF Polls
    <2> QED  BY <1>1, <1>2, <2>1, <2>2, <2>5, <2>6, ServicesMove
  <1>4. ASSUME NEW s \in Service, WriteStateLate(s)
        PROVE  WatcherInv'
    <2>1. /\ UNCHANGED lock /\ state' = Written(s) /\ Lives(s) /\ ~Polls(s)
      BY <1>4 DEF WriteStateLate, Lives, Polls
    <2>2. Counters'
      BY <1>0, <1>4 DEF WriteStateLate, Counters, bounds
    <2>3. TypeOK'
      BY <1>0, <1>1, <2>1, <2>2, WrittenIs, NextTypesAre
    <2>4. ASSUME NEW t \in Service, Polls(t)', ~stolen  PROVE FALSE
      <3>1. Polls(t) /\ Lives(t)
        BY <1>1, <2>4 DEF Polls, Lives
      <3> QED  BY <2>1, <2>4, <3>1 DEF WatcherInv, Orderly, OneLives
    <2> QED  BY <1>1, <1>2, <2>1, <2>3, <2>4, ServicesMove
  <1> QED  BY <1>3, <1>4

-----------------------------------------------------------------------------
\* Processes are signalled, or killed.
LEMMA Signalling ==
    ASSUME svc \in [Service -> Proc], NEW S \in SUBSET Service, Terminate(S) \/ Kill(S)
    PROVE  /\ svc' \in [Service -> Proc] /\ Fewer /\ NoneRestarts(Service)
           /\ \A t \in Service : Polls(t)' => Polls(t)
           /\ Kill(S) => \A s \in Service : Alive(s)' => Alive(s) /\ s \notin S
  <1>1. ASSUME NEW s \in Service
        PROVE  /\ Signalled(s) \in Proc
               /\ Signalled(s).phase = svc[s].phase \/ Signalled(s).phase = "none"
    <2> DEFINE o == svc[s]
    <2>1. o \in Proc
      OBVIOUS
    <2>2. LET p == [o EXCEPT !.handler = FALSE, !.stopping = TRUE] IN p \in Proc /\ p.phase = o.phase
      <3> HIDE DEF o
      <3> QED  BY <2>1, ProcessIs
    <2> QED  BY <2>2, Blank DEF Signalled
  <1>2. ASSUME NEW s \in Service
        PROVE  /\ svc'[s] \in Proc
               /\ svc'[s].phase = svc[s].phase \/ svc'[s].phase = "none"
               /\ Kill(S) /\ s \in S => svc'[s].phase = "none"
    BY <1>1, Blank DEF Terminate, Kill
  <1>3. svc' \in [Service -> Proc]
    <2>1. \E f : svc' = [s \in Service |-> f[s]]
      <3>1. CASE Terminate(S)
        <4> WITNESS [s \in Service |-> IF s \in S THEN Signalled(s) ELSE svc[s]]
        <4> QED  BY <3>1 DEF Terminate
      <3>2. CASE Kill(S)
        <4> WITNESS [s \in Service |-> IF s \in S THEN Dead ELSE svc[s]]
        <4> QED  BY <3>2 DEF Kill
      <3> QED  BY <3>1, <3>2
    <2> QED  BY <1>2, <2>1
  <1> QED  BY <1>2, <1>3 DEF Fewer, NoneRestarts, Alive, Lives, Polls

\* A starter that holds the lock comes to the next place of its start.
LEMMA ClearingKeeps ==
    ASSUME WatcherInv, NEW a \in Starter, FindsNone(a) \/ TerminateWatchers(a) \/ WatchersGone(a)
    PROVE  WatcherInv'
  <1>0. /\ svc \in [Service -> Proc] /\ act \in [Starter -> Doing] /\ lock \in StartLock
        /\ state \in ServiceState /\ Counters
    BY TypesAre DEF WatcherInv
  <1>1. /\ UNCHANGED <<lock, state, command, installed, watchdog, late, stolen, bounds>>
        /\ Holds(a)
    BY DEF FindsNone, TerminateWatchers, WatchersGone, files, history, Holds, Holding
  <1>2. Counters' /\ UNCHANGED <<lock, state, stolen>>
    BY <1>0, <1>1 DEF Counters, bounds
  <1>3. ~stolen => lock.by = a
    BY <1>1 DEF WatcherInv, Orderly, LockHeld
  <1>4. {"list", "kill", "spawn"} \subseteq Pcs \ Stopping
    BY DEF Pcs, Holding, Stopping
  <1>5. CASE FindsNone(a)
    <2> DEFINE d == [act[a] EXCEPT !.pc = "list"]
    <2>1. d \in Doing /\ d.pc = "list" /\ [act EXCEPT ![a].pc = "list"] = [act EXCEPT ![a] = d]
      BY <1>0, <1>4, PcMoves
    <2>2. act' = [act EXCEPT ![a] = d] /\ UNCHANGED svc
      BY <1>5, <2>1 DEF FindsNone, Goto
    <2> HIDE DEF d
    <2>3. Fewer /\ NoneRestarts(Service \ {a}) /\ \A t \in Service : Polls(t)' => Polls(t)
      BY <2>2 DEF Fewer, NoneRestarts, Alive, Lives, Polls
    <2>4. TypeOK'
      BY <1>0, <1>2, <2>1, <2>2, NextTypesAre
    <2> QED  BY <1>2, <1>3, <1>4, <2>1, <2>2, <2>3, <2>4, StarterMoves
  <1>6. CASE TerminateWatchers(a)
    <2> DEFINE found == {s \in Service : Alive(s)} \ {a}
               d == After(act[a], "kill", found)
    <2>1. d \in Doing /\ d.pc = "kill" /\ d.targets = found
      <3>1. found \subseteq Service
        OBVIOUS
      <3>2. "kill" \in Pcs
        BY <1>4
      <3> HIDE DEF found
      <3> QED  BY <1>0, <3>1, <3>2, TargetsMove
    <2>2. act' = [act EXCEPT ![a] = d] /\ Terminate(found)
      BY <1>6 DEF TerminateWatchers, After
    <2> HIDE DEF d
    <2>3. /\ svc' \in [Service -> Proc] /\ Fewer /\ NoneRestarts(Service)
          /\ \A t \in Service : Polls(t)' => Polls(t)
      BY <1>0, <2>2, Signalling
    <2>4. TypeOK'
      BY <1>0, <1>2, <2>1, <2>2, <2>3, NextTypesAre
    <2>5. \A s \in Service : Alive(s)' => s = a \/ s \in d.targets
      BY <2>1, <2>3 DEF Fewer
    <2>6. NoneRestarts(Service \ {a})
      BY <2>3 DEF NoneRestarts
    <2> HIDE DEF found
    <2> QED  BY <1>2, <1>3, <1>4, <2>1, <2>2, <2>3, <2>4, <2>5, <2>6, StarterMoves
  <1>7. CASE WatchersGone(a)
    <2> DEFINE gone == act[a].targets
               d == After(act[a], "spawn", {})
    <2>1. d \in Doing /\ d.pc = "spawn"
      <3>1. "spawn" \in Pcs /\ {} \subseteq Service
        BY <1>4
      <3> QED  BY <1>0, <3>1, TargetsMove
    <2>2. act' = [act EXCEPT ![a] = d] /\ Kill(gone) /\ act[a].pc = "kill"
      BY <1>7 DEF WatchersGone, After
    <2> HIDE DEF d
    <2>3. gone \in SUBSET Service
      BY <1>0 DEF Doing
    <2>4. /\ svc' \in [Service -> Proc] /\ Fewer /\ NoneRestarts(Service)
          /\ \A t \in Service : Polls(t)' => Polls(t)
          /\ \A s \in Service : Alive(s)' => Alive(s) /\ s \notin gone
      BY <1>0, <2>2, <2>3, Signalling
    <2>5. TypeOK'
      BY <1>0, <1>2, <2>1, <2>2, <2>4, NextTypesAre
    <2>6. ~stolen => \A s \in Service : Alive(s)' => s = a
      BY <1>1, <2>2, <2>4 DEF WatcherInv, Orderly, Cleared
    <2>7. NoneRestarts(Service \ {a})
      BY <2>4 DEF NoneRestarts
    <2> QED  BY <1>2, <1>3, <1>4, <2>1, <2>2, <2>4, <2>5, <2>6, <2>7, StarterMoves
  <1> QED  BY <1>5, <1>6, <1>7

\* A starter is done, or tries again: in either case it holds no lock any more.
LEMMA EndingIs ==
    ASSUME WatcherInv, NEW a \in Starter,
           (AfterSuccess(a) /\ UNCHANGED installed) \/ AfterFailure(a)
    PROVE  /\ svc' \in [Service -> Proc] /\ Fewer /\ NoneRestarts(Service)
           /\ \A t \in Service : Polls(t)' => Polls(t)
           /\ installed' \in Version \cup {0}
           /\ \E d \in Doing : /\ act' = [act EXCEPT ![a] = d]
                               /\ d.pc \in {"idle", "done", "lock"}
  <1>0. svc \in [Service -> Proc] /\ act \in [Starter -> Doing] /\ installed \in Version \cup {0}
    BY TypesAre DEF WatcherInv, Counters
  <1>1. /\ \/ UNCHANGED svc
           \/ a \in Service /\ svc' = [svc EXCEPT ![a] = Dead]
        /\ installed' \in Version \cup {0}
    BY <1>0 DEF AfterSuccess, AfterFailure
  <1>2. svc' \in [Service -> Proc]
    BY <1>0, <1>1, Blank
  <1>3. \A s \in Service : svc'[s].phase = svc[s].phase \/ svc'[s].phase = "none"
    BY <1>0, <1>1, Blank
  <1>4. Fewer /\ NoneRestarts(Service) /\ \A t \in Service : Polls(t)' => Polls(t)
    BY <1>3 DEF Fewer, NoneRestarts, Alive, Lives, Polls
  <1>5. /\ Ended(a) \in Doing /\ Ended(a).pc \in {"idle", "done"}
    <2>1. act[a].kind \in {"start", "stop", "restart"}
      BY <1>0 DEF Doing
    <2>2. ASSUME NEW k \in {"start", "stop", "restart"}
          PROVE  LET d == [Idle EXCEPT !.pc = "done", !.kind = k] IN d \in Doing /\ d.pc = "done"
      BY DEF Idle, Doing, Pcs
    <2> QED  BY <2>1, <2>2, Blank DEF Ended
  <1>6. LET d == [Idle EXCEPT !.pc = "lock", !.attempt = 2] IN d \in Doing /\ d.pc = "lock"
    BY DEF Idle, Doing, Pcs
  <1>7. \/ act' = [act EXCEPT ![a] = Ended(a)]
        \/ act' = [act EXCEPT ![a] = [Idle EXCEPT !.pc = "lock", !.attempt = 2]]
    BY DEF AfterSuccess, AfterFailure
  <1>8. \E d \in Doing : act' = [act EXCEPT ![a] = d] /\ d.pc \in {"idle", "done", "lock"}
    BY <1>5, <1>6, <1>7
  <1> QED  BY <1>1, <1>2, <1>4, <1>8

LEMMA GivingUpKeeps ==
    ASSUME WatcherInv, NEW a \in Starter,
           \/ LockTimesOut(a) \/ FindsRunning(a) \/ ServiceIsReady(a) \/ ServiceExited(a)
           \/ StartTimesOut(a)
    PROVE  WatcherInv'
  <1>0. /\ svc \in [Service -> Proc] /\ act \in [Starter -> Doing] /\ lock \in StartLock
        /\ state \in ServiceState /\ Counters
    BY TypesAre DEF WatcherInv
  <1>1. /\ svc' \in [Service -> Proc] /\ Fewer /\ NoneRestarts(Service)
        /\ \A t \in Service : Polls(t)' => Polls(t)
        /\ installed' \in Version \cup {0}
        /\ \E d \in Doing : act' = [act EXCEPT ![a] = d] /\ d.pc \in {"idle", "done", "lock"}
    <2>1. (AfterSuccess(a) /\ UNCHANGED installed) \/ AfterFailure(a)
      BY DEF LockTimesOut, FindsRunning, ServiceIsReady, ServiceExited, StartTimesOut
    <2> QED  BY <2>1, EndingIs
  <1>2. PICK d \in Doing : act' = [act EXCEPT ![a] = d] /\ d.pc \in {"idle", "done", "lock"}
    BY <1>1
  <1>3. UNCHANGED <<state, stolen>>
    BY DEF LockTimesOut, FindsRunning, ServiceIsReady, ServiceExited, StartTimesOut, history
  <1>4. slow' \in 0 .. MaxSlow
    BY <1>0, BoundAssumption
    DEF LockTimesOut, FindsRunning, ServiceIsReady, ServiceExited, StartTimesOut, bounds, Counters
  <1>5. Counters'
    BY <1>0, <1>1, <1>4
    DEF LockTimesOut, FindsRunning, ServiceIsReady, ServiceExited, StartTimesOut, bounds,
        history, Counters
  <1>6. lock' \in StartLock
    BY <1>0, Blank
    DEF LockTimesOut, FindsRunning, ServiceIsReady, ServiceExited, StartTimesOut, StartLock
  <1>7. TypeOK'
    BY <1>0, <1>1, <1>2, <1>3, <1>5, <1>6, NextTypesAre
  <1>8. lock'.by = lock.by \/ Holds(a)
    BY <1>0
    DEF LockTimesOut, FindsRunning, ServiceIsReady, ServiceExited, StartTimesOut, StartLock,
        Holds, Holding
  <1>9. ~stolen => lock'.by = lock.by \/ \A b \in Starter \ {a} : ~Holds(b)
    BY <1>8, OneHolds
  <1>10. ~Holds(a)'
    BY <1>0, <1>2 DEF Holds, Holding
  <1>11. d.pc \notin Stopping
    BY <1>2 DEF Stopping
  <1>12. NoneRestarts(Service \ {a})
    BY <1>1 DEF NoneRestarts
  <1> QED  BY <1>1, <1>2, <1>3, <1>7, <1>9, <1>10, <1>11, <1>12, StarterMoves

\* A start spawns a service where no process is left but its own.
LEMMA SpawningKeeps ==
    ASSUME WatcherInv, NEW a \in Starter, SpawnService(a)
    PROVE  WatcherInv'
  <1>0. /\ svc \in [Service -> Proc] /\ act \in [Starter -> Doing] /\ lock \in StartLock
        /\ state \in ServiceState /\ Counters
    BY TypesAre DEF WatcherInv
  <1>1. /\ UNCHANGED <<lock, installed, watchdog, late, stolen, bounds>>
        /\ Holds(a) /\ act[a].pc = "spawn" /\ Active(a)
        /\ state' = NoState /\ command' = None
    BY DEF SpawnService, history, Holds, Holding
  <1> DEFINE v == IF installed # 0 /\ act[a].attempt = 1 THEN installed ELSE BuildOf(a)
  <1>2. PICK s \in Free :
           /\ svc' = [svc EXCEPT ![s] = [Dead EXCEPT !.phase = "spawned", !.version = v]]
           /\ act' = [act EXCEPT ![a].pc = "await", ![a].child = s, ![s] = Idle]
    <2> DEFINE s == CHOOSE f \in Free : TRUE
    <2>1. s \in Free
      BY DEF SpawnService
    <2> QED  BY <2>1 DEF SpawnService
  <1>3. v \in Version
    <2>1. BuildOf(a) \in Version
      BY <1>0, CommandAssumption, ProcessIs DEF BuildOf, Starter
    <2> QED  BY <1>0, <2>1 DEF Counters
  <1> HIDE DEF v
  <1>4. s \in Service /\ s \in Starter /\ ~Alive(s) /\ \A b \in Starter : s \notin act[b].targets
    BY <1>2 DEF Free, Named, Starter
  <1>5. a # s
    BY <1>1, <1>4 DEF Active, Alive
  <1> DEFINE p == [Dead EXCEPT !.phase = "spawned", !.version = v]
             e == [act[a] EXCEPT !.pc = "await"]
             d == [e EXCEPT !.child = s]
  <1>6. p \in Proc /\ p.phase = "spawned"
    BY <1>3, Blank DEF Dead, Proc, Phases
  <1>7. d \in Doing /\ d.pc = "await"
    <2>1. "await" \in Pcs
      BY DEF Pcs, Holding
    <2>2. e \in Doing /\ e.pc = "await"
      BY <1>0, <2>1, PcMoves
    <2> HIDE DEF e
    <2> QED  BY <1>4, <2>2 DEF Doing
  <1>8. /\ act' \in [Starter -> Doing] /\ act'[a] = d /\ act'[s] = Idle
        /\ \A b \in Starter \ {a, s} : act'[b] = act[b]
    <2>1. act' = [[act EXCEPT ![a] = d] EXCEPT ![s] = Idle]
      BY <1>2, <1>5
    <2> HIDE DEF d
    <2> QED  BY <1>0, <1>4, <1>5, <1>7, <2>1, Blank
  <1>9. /\ svc' \in [Service -> Proc] /\ svc'[s].phase = "spawned"
        /\ \A t \in Service \ {s} : svc'[t] = svc[t]
    <2> HIDE DEF p
    <2> QED  BY <1>0, <1>2, <1>4, <1>6 DEF p
  <1> HIDE DEF p, d, e
  <1>10. TypeOK'
    <2>1. Counters'
      BY <1>0, <1>1 DEF Counters, bounds
    <2> QED  BY <1>0, <1>1, <1>8, <1>9, <2>1, Blank, NextTypesAre
  <1>11. Commanded'
    <2>1. ASSUME NEW b \in Starter, act'[b].pc \in Stopping
          PROVE  b \in Caller /\ act'[b].kind \in Command[b] \ {"start"}
      <3>1. b \notin {a, s}
        BY <1>7, <1>8, <2>1, Blank DEF Stopping
      <3> QED  BY <1>8, <2>1, <3>1 DEF WatcherInv, Commanded
    <2> QED  BY <2>1 DEF Commanded
  <1>12. ASSUME ~stolen  PROVE Orderly'
    <2>1. /\ LockHeld /\ Cleared
          /\ \A b \in Starter \ {a} : ~Holds(b)
          /\ \A t \in Service : Alive(t) => t = a
      BY <1>1, <1>12, OneHolds DEF WatcherInv, Orderly, Cleared
    <2>2. \A b \in Starter \ {a} : ~Holds(b)'
      <3> SUFFICES ASSUME NEW b \in Starter \ {a}, Holds(b)'  PROVE FALSE
        OBVIOUS
      <3>1. CASE b = s
        BY <1>8, <3>1, Blank DEF Holds, Holding
      <3>2. CASE b # s
        <4>1. Holds(b)
          BY <1>8, <1>9, <3>2 DEF Holds, Active
        <4> QED  BY <2>1, <4>1
      <3> QED  BY <3>1, <3>2
    <2>3. LockHeld'
      BY <1>1, <2>1, <2>2 DEF LockHeld
    <2>4. Cleared'
      BY <1>7, <1>8, <2>2 DEF Cleared
    <2>5. \A t \in Service : Lives(t)' => t = s
      <3> SUFFICES ASSUME NEW t \in Service, Lives(t)', t # s  PROVE FALSE
        OBVIOUS
      <3>1. t = a /\ Lives(t)
        BY <1>9, <2>1 DEF Lives, Alive
      <3> QED  BY <1>1, <3>1 DEF Active, Lives
    <2>6. OneLives'
      BY <2>5 DEF OneLives
    <2>7. \A t \in Service : ~Polls(t)'
      BY <1>9, <2>5 DEF Polls, Lives
    <2>8. Asked'
      <3>1. \A c \in Caller : act'[c].targets \subseteq Service
        BY <1>8 DEF Doing, Starter
      <3> QED  BY <2>7, <3>1 DEF Asked
    <2> QED  BY <2>3, <2>4, <2>6, <2>8 DEF Orderly
  <1> QED  BY <1>1, <1>10, <1>11, <1>12 DEF WatcherInv

-----------------------------------------------------------------------------
\* A command is killed.
LEMMA KillingKeeps ==
    ASSUME WatcherInv, NEW c \in Caller, KillCaller(c)
    PROVE  WatcherInv'
  <1>0. /\ svc \in [Service -> Proc] /\ act \in [Starter -> Doing] /\ lock \in StartLock
        /\ state \in ServiceState /\ Counters /\ c \in Starter
    BY TypesAre DEF WatcherInv, Starter
  <1> DEFINE d == Ended(c)
  <1>1. d \in Doing /\ d.pc \in {"idle", "done"}
    <2>1. act[c].kind \in {"start", "stop", "restart"}
      BY <1>0 DEF Doing
    <2>2. ASSUME NEW k \in {"start", "stop", "restart"}
          PROVE  LET f == [Idle EXCEPT !.pc = "done", !.kind = k] IN f \in Doing /\ f.pc = "done"
      BY DEF Idle, Doing, Pcs
    <2> QED  BY <2>1, <2>2, Blank DEF Ended
  <1>2. /\ act' = [act EXCEPT ![c] = d]
        /\ UNCHANGED <<svc, lock, state, command, installed, watchdog, late, stolen>>
        /\ UNCHANGED <<replaced, crashes, stalls, slow>>
    BY DEF KillCaller, files, history
  <1>3. kills' \in 0 .. MaxKills
    BY <1>0, BoundAssumption DEF KillCaller, Counters
  <1>4. TypeOK'
    BY <1>0, <1>1, <1>2, <1>3, NextTypesAre DEF Counters
  <1>5. Fewer /\ NoneRestarts(Service \ {c}) /\ \A t \in Service : Polls(t)' => Polls(t)
    BY <1>2 DEF Fewer, NoneRestarts, Alive, Lives, Polls
  <1>6. d.pc \notin Stopping /\ d.pc # "stopwait"
    BY <1>1 DEF Stopping
  <1>7. ~Holds(c)'
    BY <1>0, <1>1, <1>2 DEF Holds, Holding
  <1> HIDE DEF d
  <1> QED  BY <1>0, <1>1, <1>2, <1>4, <1>5, <1>6, <1>7, StarterMoves

\* A command begins; one that stops ends the starts of the agent.
LEMMA BeginningKeeps ==
    ASSUME WatcherInv, NEW c \in Caller, NEW kind \in Command[c], Begin(c, kind)
    PROVE  WatcherInv'
  <1>0. /\ svc \in [Service -> Proc] /\ act \in [Starter -> Doing] /\ lock \in StartLock
        /\ state \in ServiceState /\ Counters /\ c \in Starter
    BY TypesAre DEF WatcherInv, Starter
  <1> DEFINE pc == IF kind = "start" THEN "lock" ELSE "stop"
             d == [Idle EXCEPT !.kind = kind, !.pc = pc]
             ends(b) == kind = "stop" /\ b \in Watchdog
  <1>1. act' = [b \in Starter |-> IF b = c THEN d ELSE IF ends(b) THEN Idle ELSE act[b]]
    BY DEF Begin
  <1>2. UNCHANGED <<svc, lock, state, command, installed, late, stolen, bounds>>
    BY DEF Begin, history
  <1>3. d \in Doing /\ d.pc = pc /\ d.kind = kind
    <2>1. kind \in {"start", "stop", "restart"} /\ pc \in Pcs
      BY CommandAssumption DEF Pcs, Stopping
    <2> HIDE DEF pc
    <2> QED  BY <2>1 DEF Idle, Doing, Pcs
  <1> HIDE DEF d
  <1>4. /\ act' \in [Starter -> Doing]
        /\ \A b \in Starter : act'[b] = IF b = c THEN d ELSE IF ends(b) THEN Idle ELSE act[b]
    BY <1>0, <1>1, <1>3, Blank
  <1>5. TypeOK'
    <2>1. watchdog' \in {None, "loaded", "unloaded"}
      BY <1>0 DEF Begin, Counters
    <2>2. Counters'
      BY <1>0, <1>2, <2>1 DEF Counters, bounds
    <2> QED  BY <1>0, <1>2, <1>4, <2>2, NextTypesAre
  <1>6. Commanded'
    <2> SUFFICES ASSUME NEW b \in Starter, act'[b].pc \in Stopping
                 PROVE  b \in Caller /\ act'[b].kind \in Command[b] \ {"start"}
      BY DEF Commanded
    <2>1. CASE b = c
      BY <1>3, <1>4, <2>1 DEF Stopping
    <2>2. CASE b # c
      <3>1. act'[b] = act[b]
        BY <1>4, <2>2, Blank DEF Stopping
      <3> QED  BY <3>1 DEF WatcherInv, Commanded
    <2> QED  BY <2>1, <2>2
  <1>7. ASSUME ~stolen  PROVE Orderly'
    <2>1. LockHeld /\ Cleared /\ OneLives /\ Asked
      BY <1>7 DEF WatcherInv, Orderly
    <2>2. ASSUME NEW b \in Starter, Holds(b)'  PROVE Holds(b) /\ act'[b] = act[b]
      <3>1. act'[b].pc \notin {"idle", "lock", "stop"}
        BY <2>2 DEF Holds, Holding
      <3>2. act'[b] = act[b]
        BY <1>3, <1>4, <3>1, Blank
      <3> QED  BY <1>2, <2>2, <3>2 DEF Holds, Active
    <2>3. LockHeld'
      BY <1>2, <2>1, <2>2 DEF LockHeld
    <2>4. Cleared'
      BY <1>2, <2>1, <2>2 DEF Cleared, Alive
    <2>5. OneLives'
      BY <1>2, <2>1 DEF OneLives, Lives
    <2>6. Asked'
      <3> SUFFICES ASSUME OneStops, NEW b \in Caller, act'[b].pc = "stopwait",
                          NEW t \in act'[b].targets, Polls(t)'
                   PROVE  state'.by = t
        BY DEF Asked, OneStops, Stops
      <3>1. act'[b] = act[b]
        BY <1>3, <1>4, Blank DEF Starter
      <3>2. Polls(t)
        BY <1>2 DEF Polls
      <3> QED  BY <1>2, <2>1, <3>1, <3>2 DEF Asked
    <2> QED  BY <2>3, <2>4, <2>5, <2>6 DEF Orderly
  <1> QED  BY <1>2, <1>5, <1>6, <1>7 DEF WatcherInv

\* What a command that stops goes through.
LEMMA StopperMoves ==
    ASSUME WatcherInv, NEW c \in Caller, act[c].pc \in Stopping, NEW d \in Doing,
           act' = [act EXCEPT ![c] = d], d.pc \notin Holding, d.kind = act[c].kind,
           svc' \in [Service -> Proc], Fewer, NoneRestarts(Service),
           \A t \in Service : Polls(t)' => Polls(t),
           state' \in {state, NoState}, command' \in Service \cup {None},
           d.pc = "stopwait" => state' = state /\ d.targets = {state.by},
           UNCHANGED <<lock, installed, watchdog, late, stolen, bounds>>
    PROVE  WatcherInv'
  <1>0. /\ act \in [Starter -> Doing] /\ lock \in StartLock
        /\ state \in ServiceState /\ Counters /\ c \in Starter
    BY TypesAre DEF WatcherInv, Starter
  <1>1. TypeOK'
    <2>1. Counters'
      BY <1>0 DEF Counters, bounds
    <2>2. lock' \in StartLock /\ act' \in [Starter -> Doing] /\ state' \in ServiceState
      BY <1>0, Blank
    <2> QED  BY <2>1, <2>2, NextTypesAre
  <1>2. act[c].kind \in Command[c] \ {"start"}
    BY <1>0 DEF WatcherInv, Commanded
  <1>3. ~Holds(c)'
    BY <1>0 DEF Holds
  <1>4. OneStops => \A e \in Caller \ {c} : act[e].pc # "stopwait"
    <2> SUFFICES ASSUME OneStops, NEW e \in Caller, act[e].pc = "stopwait"
                 PROVE  e = c
      OBVIOUS
    <2>1. act[e].kind \in Command[e] \ {"start"}
      BY DEF WatcherInv, Commanded, Starter, Stopping
    <2> QED  BY <1>2, <2>1 DEF OneStops, Stops
  <1>5. NoneRestarts(Service \ {c})
    BY DEF NoneRestarts
  <1>6. d.pc \in {"kill", "spawn"} => FALSE
    BY DEF Holding
  <1> QED  BY <1>0, <1>1, <1>2, <1>3, <1>4, <1>5, <1>6, StarterMoves

LEMMA StoppingKeeps ==
    ASSUME WatcherInv, NEW c \in Caller, StopStep(c)
    PROVE  WatcherInv'
  <1>0. /\ svc \in [Service -> Proc] /\ act \in [Starter -> Doing] /\ lock \in StartLock
        /\ state \in ServiceState /\ Counters /\ c \in Starter
    BY TypesAre DEF WatcherInv, Starter
  <1>1. /\ act[c].pc \in Stopping
        /\ UNCHANGED <<lock, installed, watchdog, late, stolen, bounds>>
    BY DEF StopStep, StopFindsNone, StopAsks, StopSeesItGone, StopTimesOut, StopKills, Sweep,
           SweepDone, Stopping, files, history
  <1>2. act[c].targets \subseteq Service
    BY <1>0 DEF Doing
  <1>3. /\ {"lock", "sweep", "stopwait", "stopkill", "sweepwait", "done"} \subseteq Pcs
        /\ {"lock", "sweep", "stopwait", "stopkill", "sweepwait", "done"} \cap Holding = {}
    BY DEF Pcs, Stopping, Holding
  <1>4. AfterStop(c) \in {"lock", "sweep"}
    BY DEF AfterStop
  <1> DEFINE went(pc) == [act[c] EXCEPT !.pc = pc]
             aimed(pc, S) == After(act[c], pc, S)
  <1>5. \A pc \in Pcs : went(pc) \in Doing /\ went(pc).pc = pc /\ went(pc).kind = act[c].kind
    BY <1>0, PcMoves
  <1>6. ASSUME NEW pc \in Pcs, NEW S, S \subseteq Service
        PROVE  /\ aimed(pc, S) \in Doing /\ aimed(pc, S).pc = pc
               /\ aimed(pc, S).kind = act[c].kind /\ aimed(pc, S).targets = S
    BY <1>0, <1>6, TargetsMove
  <1>7. UNCHANGED svc =>
           /\ svc' \in [Service -> Proc] /\ Fewer /\ NoneRestarts(Service)
           /\ \A t \in Service : Polls(t)' => Polls(t)
    BY <1>0 DEF Fewer, NoneRestarts, Alive, Lives, Polls
  <1>8. command \in Service \cup {None}
    BY <1>0 DEF Counters
  <1>9. CASE StopFindsNone(c)
    <2>1. /\ act' = [act EXCEPT ![c] = went(AfterStop(c))] /\ UNCHANGED svc
          /\ state' = NoState /\ command' \in {command, None}
      BY <1>9 DEF StopFindsNone, Goto
    <2> HIDE DEF went
    <2> QED  BY <1>1, <1>3, <1>4, <1>5, <1>7, <1>8, <2>1, StopperMoves
  <1>10. CASE StopAsks(c)
    <2>1. /\ act' = [act EXCEPT ![c] = aimed("stopwait", {state.by})] /\ UNCHANGED svc
          /\ state' = state /\ command' = state.by /\ Running
      BY <1>10 DEF StopAsks, After
    <2>2. state.by \in Service
      BY <1>0, <2>1 DEF Running, ServiceState
    <2> HIDE DEF aimed
    <2>3. {state.by} \subseteq Service /\ "stopwait" \in Pcs
      BY <1>3, <2>2
    <2>4. LET d == aimed("stopwait", {state.by})
          IN  /\ d \in Doing /\ d.pc = "stopwait" /\ d.kind = act[c].kind
              /\ d.targets = {state.by}
      BY <1>6, <2>3
    <2> QED  BY <1>1, <1>3, <1>7, <2>1, <2>2, <2>4, StopperMoves
  <1>11. CASE StopSeesItGone(c)
    <2>1. /\ act' = [act EXCEPT ![c] = aimed(AfterStop(c), {})] /\ UNCHANGED svc
          /\ state' = state /\ command' = command
      BY <1>11 DEF StopSeesItGone, After, files
    <2> HIDE DEF aimed
    <2>2. LET d == aimed(AfterStop(c), {})
          IN  d \in Doing /\ d.pc = AfterStop(c) /\ d.kind = act[c].kind
      <3>1. AfterStop(c) \in Pcs /\ {} \subseteq Service
        BY <1>3, <1>4
      <3> QED  BY <1>6, <3>1
    <2> QED  BY <1>1, <1>3, <1>4, <1>7, <1>8, <2>1, <2>2, StopperMoves
  <1>12. CASE StopTimesOut(c)
    <2>1. /\ act' = [act EXCEPT ![c] = went("stopkill")] /\ Terminate(act[c].targets)
          /\ state' = state /\ command' = command
      BY <1>12 DEF StopTimesOut, Goto, files
    <2> HIDE DEF went
    <2>2. LET d == went("stopkill")
          IN  d \in Doing /\ d.pc = "stopkill" /\ d.kind = act[c].kind
      BY <1>3, <1>5
    <2>3. /\ svc' \in [Service -> Proc] /\ Fewer /\ NoneRestarts(Service)
          /\ \A t \in Service : Polls(t)' => Polls(t)
      BY <1>0, <1>2, <2>1, Signalling
    <2> QED  BY <1>1, <1>3, <1>8, <2>1, <2>2, <2>3, StopperMoves
  <1>13. CASE StopKills(c)
    <2>1. /\ act' = [act EXCEPT ![c] = aimed(AfterStop(c), {})] /\ Kill(act[c].targets)
          /\ state' = NoState /\ command' = None
      BY <1>13 DEF StopKills, After
    <2> HIDE DEF aimed
    <2>2. LET d == aimed(AfterStop(c), {})
          IN  d \in Doing /\ d.pc = AfterStop(c) /\ d.kind = act[c].kind
      <3>1. AfterStop(c) \in Pcs /\ {} \subseteq Service
        BY <1>3, <1>4
      <3> QED  BY <1>6, <3>1
    <2>3. /\ svc' \in [Service -> Proc] /\ Fewer /\ NoneRestarts(Service)
          /\ \A t \in Service : Polls(t)' => Polls(t)
      BY <1>0, <1>2, <2>1, Signalling
    <2> QED  BY <1>1, <1>3, <1>4, <2>1, <2>2, <2>3, StopperMoves
  <1>14. CASE Sweep(c)
    <2> DEFINE found == {s \in Service : Alive(s)}
    <2>1. /\ act' = [act EXCEPT ![c] = aimed("sweepwait", found)] /\ Terminate(found)
          /\ state' = state /\ command' = command
      BY <1>14 DEF Sweep, After, files
    <2>2. found \subseteq Service
      OBVIOUS
    <2> HIDE DEF aimed, found
    <2>3. LET d == aimed("sweepwait", found)
          IN  d \in Doing /\ d.pc = "sweepwait" /\ d.kind = act[c].kind
      BY <1>3, <1>6, <2>2
    <2>4. /\ svc' \in [Service -> Proc] /\ Fewer /\ NoneRestarts(Service)
          /\ \A t \in Service : Polls(t)' => Polls(t)
      BY <1>0, <2>1, <2>2, Signalling
    <2> QED  BY <1>1, <1>3, <1>8, <2>1, <2>3, <2>4, StopperMoves
  <1>15. CASE SweepDone(c)
    <2>1. /\ act' = [act EXCEPT ![c] = aimed("done", {})] /\ Kill(act[c].targets)
          /\ state' = state /\ command' = command
      BY <1>15 DEF SweepDone, After, files
    <2> HIDE DEF aimed
    <2>2. LET d == aimed("done", {})
          IN  d \in Doing /\ d.pc = "done" /\ d.kind = act[c].kind
      <3>1. {} \subseteq Service
        OBVIOUS
      <3> QED  BY <1>3, <1>6, <3>1
    <2>3. /\ svc' \in [Service -> Proc] /\ Fewer /\ NoneRestarts(Service)
          /\ \A t \in Service : Polls(t)' => Polls(t)
      BY <1>0, <1>2, <2>1, Signalling
    <2> QED  BY <1>1, <1>3, <1>8, <2>1, <2>2, <2>3, StopperMoves
  <1> QED  BY <1>9, <1>10, <1>11, <1>12, <1>13, <1>14, <1>15 DEF StopStep

-----------------------------------------------------------------------------
LEMMA WatcherBegins == Init => WatcherInv
  <1> SUFFICES ASSUME Init  PROVE WatcherInv
    OBVIOUS
  <1>0. act = [a \in Starter |-> Idle]
    BY DEF Init
  <1>1. \A a \in Starter : act[a].pc = "idle" /\ ~Holds(a)
    BY <1>0, Blank DEF Holds, Holding
  <1> DEFINE up == [Dead EXCEPT !.phase = "serving", !.ready = TRUE]
  <1>2. up \in Proc /\ up.phase = "serving"
    <2>1. 1 \in Version
      BY BoundAssumption DEF Version
    <2> QED  BY <2>1 DEF Dead, Proc, Phases
  <1> HIDE DEF up
  <1>3. \/ svc = [s \in Service |-> Dead] /\ state = NoState
        \/ \E s \in Service :
              /\ svc = [t \in Service |-> IF t = s THEN up ELSE Dead]
              /\ state = [by |-> s, ready |-> TRUE, fresh |-> TRUE]
    BY DEF Init, up
  <1>4. svc \in [Service -> Proc] /\ state \in ServiceState /\ OneLives
    <2>1. svc \in [Service -> Proc]
      BY <1>2, <1>3, Blank
    <2>2. state \in ServiceState
      <3>1. CASE state = NoState
        BY <3>1, Blank
      <3>2. CASE \E s \in Service : state = [by |-> s, ready |-> TRUE, fresh |-> TRUE]
        BY <3>2 DEF ServiceState
      <3> QED  BY <1>3, <3>1, <3>2
    <2>3. OneLives
      <3>1. CASE svc = [s \in Service |-> Dead]
        BY <3>1, Blank DEF OneLives, Lives
      <3>2. CASE \E s \in Service : svc = [t \in Service |-> IF t = s THEN up ELSE Dead]
        BY <1>2, <3>2, Blank DEF OneLives, Lives
      <3> QED  BY <1>3, <3>1, <3>2
    <2> QED  BY <2>1, <2>2, <2>3
  <1>5. lock \in StartLock
    <2>1. NoLock \in StartLock
      BY Blank
    <2>2. \A c \in Caller : [NoLock EXCEPT !.by = c] \in StartLock
      BY DEF NoLock, StartLock, Starter
    <2> QED  BY <2>1, <2>2 DEF Init
  <1>6. Counters
    <2>1. /\ command = None /\ installed = 0 /\ late = FALSE /\ stolen = FALSE
          /\ replaced = 0 /\ crashes = 0 /\ kills \in 0 .. MaxKills /\ stalls = 0 /\ slow = 0
          /\ watchdog \in {None, "loaded", "unloaded"}
      BY DEF Init
    <2>2. /\ MaxReplaced \in Nat /\ MaxCrashes \in Nat /\ MaxStalls \in Nat /\ MaxSlow \in Nat
      BY BoundAssumption
    <2>3. /\ replaced \in 0 .. MaxReplaced /\ crashes \in 0 .. MaxCrashes
          /\ stalls \in 0 .. MaxStalls /\ slow \in 0 .. MaxSlow
      BY <2>1, <2>2
    <2>4. late \in BOOLEAN /\ stolen \in BOOLEAN
      BY <2>1
    <2> QED  BY <2>1, <2>3, <2>4 DEF Counters
  <1>7. TypeOK
    BY <1>0, <1>4, <1>5, <1>6, Blank, TypesAre
  <1>8. Commanded /\ LockHeld /\ Cleared /\ Asked
    BY <1>1 DEF Commanded, LockHeld, Cleared, Asked, Stopping, Starter
  <1> QED  BY <1>4, <1>7, <1>8 DEF WatcherInv, Orderly

LEMMA WatcherNextKeeps ==
    ASSUME WatcherInv, [Next]_vars
    PROVE  WatcherInv'
  <1>1. CASE UNCHANGED vars
    <2>1. UNCHANGED <<svc, act, lock, state, stolen>> /\ UNCHANGED command
          /\ UNCHANGED <<installed, watchdog, late, replaced, crashes, kills, stalls, slow>>
      BY <1>1 DEF vars, files, history, bounds
    <2>2. TypeOK'
      <3>1. svc \in [Service -> Proc] /\ act \in [Starter -> Doing] /\ lock \in StartLock
            /\ state \in ServiceState /\ Counters
        BY TypesAre DEF WatcherInv
      <3> QED  BY <2>1, <3>1, NextTypesAre DEF Counters
    <2>3. Fewer /\ NoneRestarts(Service) /\ \A t \in Service : Polls(t)' => Polls(t)
      BY <2>1 DEF Fewer, NoneRestarts, Alive, Lives, Polls
    <2> QED  BY <2>1, <2>2, <2>3, ServicesMove
  <1>2. ASSUME NEW a \in Starter, StartStep(a) \/ LockTimesOut(a) \/ StartTimesOut(a)
        PROVE  WatcherInv'
    <2>1. CASE TakeLock(a) \/ SeesOldLock(a) \/ RemoveOldLock(a)
      BY <2>1, LockKeeps
    <2>2. CASE FindsNone(a) \/ TerminateWatchers(a) \/ WatchersGone(a)
      BY <2>2, ClearingKeeps
    <2>3. CASE \/ LockTimesOut(a) \/ FindsRunning(a) \/ ServiceIsReady(a) \/ ServiceExited(a)
               \/ StartTimesOut(a)
      BY <2>3, GivingUpKeeps
    <2>4. CASE SpawnService(a)
      BY <2>4, SpawningKeeps
    <2> QED  BY <1>2, <2>1, <2>2, <2>3, <2>4 DEF StartStep
  <1>3. ASSUME NEW c \in Caller,
               (\E kind \in Command[c] : Begin(c, kind)) \/ StopStep(c) \/ KillCaller(c)
        PROVE  WatcherInv'
    BY <1>3, BeginningKeeps, StoppingKeeps, KillingKeeps
  <1>4. ASSUME NEW s \in Service,
               \/ ServiceStep(s) \/ Poll(s) \/ Rotate(s) \/ WriteStateLate(s) \/ CrashService(s)
               \/ \E v \in Version : InstallUpdate(s, v)
        PROVE  WatcherInv'
    <2>1. CASE TornDown(s)
      BY <2>1, TearingKeeps
    <2>2. CASE WriteStateLate(s)
      BY <2>2, AgeingKeeps
    <2> QED  BY <1>4, <2>1, <2>2, ProcessKeeps DEF ServiceStep
  <1>5. CASE HeartbeatAges \/ LockAges
    BY <1>5, AgeingKeeps
  <1> QED  BY <1>1, <1>2, <1>3, <1>4, <1>5 DEF Next

\* A command is past its wait only when it has seen no state file.
LEMMA StopIsSeen ==
    ASSUME WatcherInv, NEW c \in Caller, act[c].pc = "stopwait",
           act'[c].pc \in {"sweep", "lock"}, Next
    PROVE  state.by = None
  <1>0. act \in [Starter -> Doing] /\ c \in Starter /\ c \notin Service
    BY TypesAre, NoneAssumption DEF WatcherInv, Starter
  <1>1. act'[c] # act[c]
    OBVIOUS
  <1>2. ASSUME NEW a \in Starter, StartStep(a) \/ LockTimesOut(a) \/ StartTimesOut(a)
        PROVE  FALSE
    <2>1. a # c
      BY <1>2 DEF StartStep, TakeLock, SeesOldLock, RemoveOldLock, FindsRunning, FindsNone,
                  TerminateWatchers, WatchersGone, SpawnService, ServiceIsReady, ServiceExited,
                  LockTimesOut, StartTimesOut
    <2>2. CASE TakeLock(a) \/ SeesOldLock(a) \/ RemoveOldLock(a) \/ FindsNone(a)
      BY <1>0, <1>1, <2>1, <2>2 DEF TakeLock, SeesOldLock, RemoveOldLock, FindsNone, Goto
    <2>3. CASE TerminateWatchers(a) \/ WatchersGone(a)
      BY <1>0, <1>1, <2>1, <2>3 DEF TerminateWatchers, WatchersGone
    <2>4. CASE \/ LockTimesOut(a) \/ FindsRunning(a) \/ ServiceIsReady(a) \/ ServiceExited(a)
               \/ StartTimesOut(a)
      <3>1. AfterSuccess(a) \/ AfterFailure(a)
        BY <2>4 DEF LockTimesOut, FindsRunning, ServiceIsReady, ServiceExited, StartTimesOut
      <3>2. \E d : act' = [act EXCEPT ![a] = d]
        BY <3>1 DEF AfterSuccess, AfterFailure
      <3> QED  BY <1>0, <1>1, <2>1, <3>2
    <2>5. CASE SpawnService(a)
      <3>1. PICK s \in Service : act' = [act EXCEPT ![a].pc = "await", ![a].child = s, ![s] = Idle]
        <4> DEFINE s == CHOOSE f \in Free : TRUE
        <4>1. s \in Service
          BY <2>5 DEF SpawnService, Free
        <4> QED  BY <2>5, <4>1 DEF SpawnService
      <3> QED  BY <1>0, <1>1, <2>1, <3>1
    <2> QED  BY <1>2, <2>2, <2>3, <2>4, <2>5 DEF StartStep
  <1>3. ASSUME NEW e \in Caller, NEW kind \in Command[e], Begin(e, kind)
        PROVE  FALSE
    <2>1. e # c
      BY <1>3 DEF Begin
    <2>2. act'[c] = Idle \/ act'[c] = act[c]
      BY <1>0, <1>3, <2>1 DEF Begin
    <2> QED  BY <1>1, <2>2, Blank
  <1>4. ASSUME NEW e \in Caller, StopStep(e)
        PROVE  state.by = None
    <2>1. CASE e = c
      <3>1. StopSeesItGone(c) \/ StopTimesOut(c)
        BY <1>4, <2>1 DEF StopStep, StopFindsNone, StopAsks, StopKills, Sweep, SweepDone
      <3>2. CASE StopTimesOut(c)
        BY <1>0, <3>2 DEF StopTimesOut, Goto
      <3> QED  BY <3>1, <3>2 DEF StopSeesItGone
    <2>2. CASE e # c
      <3>1. CASE StopFindsNone(e) \/ StopTimesOut(e)
        BY <1>0, <1>1, <2>2, <3>1 DEF StopFindsNone, StopTimesOut, Goto
      <3>2. CASE StopAsks(e) \/ StopSeesItGone(e) \/ StopKills(e) \/ Sweep(e) \/ SweepDone(e)
        BY <1>0, <1>1, <2>2, <3>2 DEF StopAsks, StopSeesItGone, StopKills, Sweep, SweepDone
      <3> QED  BY <1>4, <3>1, <3>2 DEF StopStep
    <2> QED  BY <2>1, <2>2
  <1>5. ASSUME NEW e \in Caller, KillCaller(e)
        PROVE  FALSE
    <2>1. act' = [act EXCEPT ![e] = Ended(e)]
      BY <1>5 DEF KillCaller
    <2>2. CASE e = c
      <3>1. act'[c] = Ended(c)
        BY <1>0, <2>1, <2>2
      <3>2. Ended(c).pc \in {"idle", "done"}
        BY DEF Ended, Idle
      <3> QED  BY <3>1, <3>2
    <2> QED  BY <1>0, <1>1, <2>1, <2>2
  <1>6. ASSUME NEW s \in Service,
               \/ ServiceStep(s) \/ Poll(s) \/ Rotate(s) \/ WriteStateLate(s) \/ CrashService(s)
               \/ \E v \in Version : InstallUpdate(s, v)
        PROVE  FALSE
    <2>1. CASE TornDown(s)
      <3>1. \E d : act' = act \/ act' = [act EXCEPT ![s] = d]
        BY <2>1 DEF TornDown
      <3> QED  BY <1>0, <1>1, <3>1
    <2>2. CASE ~TornDown(s)
      <3>1. act' = act
        BY <1>6, <2>2 DEF ServiceStep, CreateControl, Ready, StartFails, EnsureWatchdog, Close,
                          DropHandlers, Poll, Rotate, WriteStateLate, CrashService, InstallUpdate
      <3> QED  BY <1>1, <3>1
    <2> QED  BY <2>1, <2>2
  <1>7. CASE HeartbeatAges \/ LockAges
    BY <1>1, <1>7 DEF HeartbeatAges, LockAges
  <1> QED  BY <1>2, <1>3, <1>4, <1>5, <1>6, <1>7 DEF Next

\* The invariant holds, from which the theorems below follow.
THEOREM WatcherInvariance == Spec => []WatcherInv
  <1>1. WatcherInv /\ [Next]_vars => WatcherInv'
    BY WatcherNextKeeps
  <1> QED  BY <1>1, WatcherBegins, PTL DEF Spec

\* The four files, the starters and the processes keep their types.
THEOREM WatcherTypesHold == Spec => []TypeOK
  <1>1. WatcherInv => TypeOK
    BY DEF WatcherInv
  <1> QED  BY <1>1, WatcherInvariance, PTL

\* There is one watcher, for any number of processes, commands, updates, crashes and
\* stalls, as long as no start lock is removed from under its holder.
THEOREM OneServesAlways == Spec => []OneServes
  <1>1. WatcherInv => OneServes
    BY DEF WatcherInv, Orderly, OneLives, OneServes, Lives, Serves
  <1> QED  BY <1>1, WatcherInvariance, PTL

\* A stop that is answered has reached the service it asked, where one command at most
\* stops services, for any number of processes, updates, crashes and stalls.
THEOREM StopsReachTheirService ==
    ASSUME OneStops
    PROVE  Spec => StopReachesItsService
  <1>1. ASSUME WatcherInv, [Next]_vars
        PROVE  [\A c \in Caller :
                   act[c].pc = "stopwait" /\ act'[c].pc = AfterStop(c)
                      => stolen \/ \A s \in act[c].targets : ~Polls(s)]_vars
    <2> SUFFICES ASSUME NEW c \in Caller, act[c].pc = "stopwait", act'[c].pc = AfterStop(c),
                        ~stolen, NEW s \in act[c].targets, Polls(s)
                 PROVE  FALSE
      OBVIOUS
    <2>0. act \in [Starter -> Doing] /\ c \in Starter /\ state \in ServiceState
      BY <1>1, TypesAre DEF WatcherInv, Starter
    <2>1. s \in Service /\ state.by = s
      BY <1>1, <2>0 DEF WatcherInv, Orderly, Asked, Doing
    <2>2. state.by # None
      BY <2>1, NoneAssumption DEF Starter
    <2>3. AfterStop(c) \in {"sweep", "lock"}
      BY DEF AfterStop
    <2>4. act' # act
      BY <2>3
    <2>5. Next
      BY <1>1, <2>4 DEF vars
    <2> QED  BY <1>1, <2>2, <2>3, <2>5, StopIsSeen
  <1> QED  BY <1>1, WatcherInvariance, PTL DEF Spec, StopReachesItsService


-----------------------------------------------------------------------------
(***************************************************************************)
(* LanApproval: the records in the room.                                     *)
(***************************************************************************)

\* The bucket of the tick that runs, or of the last one at most.
Latest == IF round = Rest THEN bucket ELSE round.at

\* Where the service may have records after a tick in bucket a: what browsers read
\* then, and, from the moment the tick that runs has put its own, that one.
Kept(a) ==
    (a - 2)..a \cup (IF round # Rest /\ round.stage # "put" THEN {round.at} ELSE {})

\* What is in the room is known to the service or given up, and what it knows was
\* put by the tick that runs or read by browsers when the tick before it ended.
Gathered ==
    /\ room \ lost \subseteq lan.published
    /\ \E a \in Bucket : a <= Latest /\ lan.published \subseteq Kept(a)

LanInv == LanTypeOK /\ Gathered

\* Every kind of round has a stage and a bucket.
LEMMA RoundTypes ==
    ASSUME LanTypeOK, round # Rest
    PROVE  /\ round.stage \in {"put", "collect", "forward"} /\ round.at \in 0..bucket
           /\ round.stage # "forward" => round \in [stage : {"put", "collect"}, at : Bucket]
           /\ round.stage = "forward" =>
                round \in [stage : {"forward"}, at : Bucket, for : Device, noted : SUBSET Device]
  BY BucketsAssumption DEF LanTypeOK, Round, Rest, Bucket

LEMMA RestingRound == ASSUME LanTypeOK, round.stage = "rest" PROVE round = Rest
  BY DEF LanTypeOK, Round, Rest

\* What is noted of a device stays a note.
LEMMA NoteTypes ==
    ASSUME NEW n \in Note, NEW at \in 0..MaxAsking
    PROVE  /\ [n EXCEPT !.granted = TRUE] \in Note
           /\ [n EXCEPT !.granted = TRUE].known = n.known
           /\ [n EXCEPT !.known = TRUE, !.at = at] \in Note
           /\ [n EXCEPT !.known = TRUE, !.at = at].known
  BY DEF Note

LEMMA SomeNote ==
    ASSUME NEW n \in Note
    PROVE  [n EXCEPT !.granted = TRUE] \in Note /\ [n EXCEPT !.granted = TRUE].known = n.known
  BY DEF Note

LEMMA LanTypesKept == LanTypeOK /\ [LanNext]_lvars => LanTypeOK'
  <1> SUFFICES ASSUME LanTypeOK, [LanNext]_lvars  PROVE LanTypeOK'
    OBVIOUS
  <1> USE BucketsAssumption DEF LanTypeOK, Bucket
  <1>1. CASE TimePasses
    BY <1>1, RoundTypes DEF TimePasses
  <1>2. CASE LanTickBegins
    <2>1. PICK gone \in SUBSET Device :
             /\ lan' = [lan EXCEPT !.heard = [d \in Device |-> IF d \in gone THEN Unheard ELSE @[d]]]
             /\ round' = [stage |-> IF Heard \ gone # {} \/ ~lan.drained THEN "put" ELSE "collect",
                          at |-> bucket]
      BY <1>2 DEF LanTickBegins
    <2>2. Unheard \in Note
      BY DEF Unheard, Note
    <2>3. lan'.heard \in [Device -> Note] /\ lan'.published = lan.published
             /\ lan'.up = lan.up /\ lan'.drained = lan.drained
      BY <2>1, <2>2
    <2>4. \A d \in Device : ~lan'.heard[d].known => lan'.heard[d] = Unheard
      BY <2>1
    <2>5. round' \in Round /\ (round' # Rest => round'.at <= bucket)
      BY <2>1 DEF Round
    <2> QED  BY <1>2, <2>1, <2>3, <2>4, <2>5 DEF LanTickBegins
  <1>3. CASE PutRequests
    <2>1. round \in [stage : {"put", "collect"}, at : Bucket] /\ round.at \in 0..bucket
      BY <1>3, RoundTypes DEF PutRequests, Rest
    <2>2. round' \in Round /\ round'.at = round.at
      BY <1>3, <2>1 DEF PutRequests, Round
    <2>3. lan'.published \subseteq 0..bucket
      BY <1>3, <2>1 DEF PutRequests
    <2>4. lan' \in [up : BOOLEAN, drained : BOOLEAN, published : SUBSET Bucket,
                    heard : [Device -> Note]] /\ lan'.heard = lan.heard
      BY <1>3, <2>1 DEF PutRequests
    <2>5. room' \subseteq 0..bucket /\ lost' \subseteq 0..bucket
      BY <1>3, <2>1 DEF PutRequests
    <2>6. /\ bucket' = bucket /\ losses' = losses /\ device' = device /\ approved' = approved
      BY <1>3 DEF PutRequests
    <2>7. round'.stage = "collect"
      BY <1>3, <2>1 DEF PutRequests
    <2> QED  BY <2>1, <2>2, <2>3, <2>4, <2>5, <2>6, <2>7
  <1>4. CASE PutFails
    BY <1>4 DEF PutFails, Round, Rest
  <1>5. CASE ForwardEnds
    <2>1. round \in [stage : {"forward"}, at : Bucket, for : Device, noted : SUBSET Device]
             /\ round.at \in 0..bucket
      BY <1>5, RoundTypes DEF ForwardEnds, Rest
    <2>2. round' \in Round /\ round'.at = round.at
      BY <1>5, <2>1 DEF ForwardEnds, Round
    <2>3. device' \in [Device -> {"asks", "admitted"}]
      BY <1>5, <2>1 DEF ForwardEnds
    <2>4. lan' \in [up : BOOLEAN, drained : BOOLEAN, published : SUBSET Bucket,
                    heard : [Device -> Note]] /\ lan'.published = lan.published
      <3>1. CASE round.for \in round.noted
        <4>0. lan.heard[round.for] \in Note
          BY <2>1
        <4>1. [lan.heard[round.for] EXCEPT !.granted = TRUE] \in Note
          BY <4>0, SomeNote
        <4>2. lan' = [lan EXCEPT !.heard =
                         [lan.heard EXCEPT ![round.for] = [lan.heard[round.for] EXCEPT !.granted = TRUE]]]
          BY <1>5, <3>1 DEF ForwardEnds
        <4> QED  BY <2>1, <4>1, <4>2
      <3>2. CASE round.for \notin round.noted
        BY <1>5, <3>2 DEF ForwardEnds
      <3> QED  BY <3>1, <3>2
    <2>5. \A d \in Device : ~lan'.heard[d].known => lan'.heard[d] = Unheard
      <3>1. CASE round.for \in round.noted
        <4>1. lan' = [lan EXCEPT !.heard[round.for].granted = TRUE]
          BY <1>5, <3>1 DEF ForwardEnds
        <4>2. \A d \in Device : d # round.for => lan'.heard[d] = lan.heard[d]
          BY <2>1, <4>1
        <4>3. lan'.heard[round.for] = [lan.heard[round.for] EXCEPT !.granted = TRUE]
          BY <2>1, <4>1
        <4>4. lan.heard[round.for] \in Note
          BY <2>1
        <4>5. lan.heard[round.for].known
          BY <2>1
        <4>6. lan'.heard[round.for].known
          BY <4>3, <4>4, <4>5, SomeNote
        <4> QED  BY <4>2, <4>6
      <3>2. CASE round.for \notin round.noted
        BY <1>5, <3>2 DEF ForwardEnds
      <3> QED  BY <3>1, <3>2
    <2>6. round'.stage = "collect"
      BY <1>5 DEF ForwardEnds
    <2>7. UNCHANGED <<bucket, approved, room, lost, losses>>
      BY <1>5 DEF ForwardEnds
    <2> QED  BY <2>1, <2>2, <2>3, <2>4, <2>5, <2>6, <2>7
  <1>6. CASE LanTickEnds
    BY <1>6 DEF LanTickEnds, Round, Rest
  <1>7. CASE LanStops
    <2>1. /\ lan' \in [up : BOOLEAN, drained : BOOLEAN, published : SUBSET Bucket,
                       heard : [Device -> Note]]
          /\ lan'.published = {} /\ lan'.heard = [d \in Device |-> Unheard]
      <3>1. Unheard \in Note
        BY DEF Unheard, Note
      <3>2. lan' = [up |-> FALSE, drained |-> TRUE, published |-> {},
                    heard |-> [d \in Device |-> Unheard]]
        BY <1>7 DEF LanStops, Fresh
      <3> QED  BY <3>1, <3>2
    <2> QED  BY <1>7, <2>1 DEF LanStops, Round, Rest
  <1>8. CASE LanStarts
    BY <1>8 DEF LanStarts
  <1>9. ASSUME NEW d \in Device, Advertise(d)  PROVE LanTypeOK'
    <2>1. lan' \in [up : BOOLEAN, drained : BOOLEAN, published : SUBSET Bucket,
                    heard : [Device -> Note]] /\ lan'.published = lan.published
      <3>1. bucket \in 0..MaxAsking
        BY <1>9 DEF Advertise, Asking
      <3>2. [lan.heard[d] EXCEPT !.known = TRUE, !.at = bucket] \in Note
        BY <3>1, NoteTypes
      <3>3. lan' = [lan EXCEPT !.heard =
                      [lan.heard EXCEPT ![d] = [lan.heard[d] EXCEPT !.known = TRUE, !.at = bucket]]]
        BY <1>9 DEF Advertise
      <3> QED  BY <3>2, <3>3
    <2>2. \A e \in Device : ~lan'.heard[e].known => lan'.heard[e] = Unheard
      BY <1>9 DEF Advertise, Note
    <2>3. round' \in Round /\ (round' # Rest => round'.at <= bucket)
      <3>1. CASE round.stage = "forward"
        <4>1. round \in [stage : {"forward"}, at : Bucket, for : Device, noted : SUBSET Device]
                 /\ round.at \in 0..bucket
          BY <3>1, RoundTypes DEF Rest
        <4> QED  BY <1>9, <3>1, <4>1 DEF Advertise, Round
      <3>2. CASE round.stage # "forward"
        BY <1>9, <3>2 DEF Advertise
      <3> QED  BY <3>1, <3>2
    <2> QED  BY <1>9, <2>1, <2>2, <2>3 DEF Advertise
  <1>10. ASSUME NEW d \in Device, BrowserApproves(d)  PROVE LanTypeOK'
    BY <1>10 DEF BrowserApproves
  <1>11. ASSUME NEW d \in Device, ForwardBegins(d)  PROVE LanTypeOK'
    <2>1. round.at \in 0..bucket
      BY <1>11, RoundTypes DEF ForwardBegins, Rest
    <2> QED  BY <1>11, <2>1 DEF ForwardBegins, Round, Heard
  <1>12. ASSUME NEW b \in Bucket, Collect(b)  PROVE LanTypeOK'
    BY <1>12 DEF Collect
  <1>13. ASSUME NEW b \in Bucket, PruneStaleIndexRecords(b)  PROVE LanTypeOK'
    BY <1>13 DEF PruneStaleIndexRecords
  <1>14. CASE UNCHANGED lvars
    BY <1>14 DEF lvars
  <1> QED
    BY <1>1, <1>2, <1>3, <1>4, <1>5, <1>6, <1>7, <1>8, <1>9, <1>10, <1>11, <1>12, <1>13, <1>14
       DEF LanNext

LEMMA LanInitially == LanInit => LanInv
  <1> SUFFICES ASSUME LanInit  PROVE LanInv
    OBVIOUS
  <1>1. LanTypeOK
    BY BucketsAssumption DEF LanInit, LanTypeOK, Fresh, Unheard, Note, Round, Rest, Bucket
  <1>2. Gathered
    <2>1. room \ lost \subseteq lan.published /\ lan.published = {}
      BY DEF LanInit, Fresh
    <2>2. 0 \in Bucket /\ 0 <= Latest
      BY BucketsAssumption DEF LanInit, Latest, Bucket
    <2> QED  BY <2>1, <2>2 DEF Gathered
  <1> QED  BY <1>1, <1>2 DEF LanInv

\* A step puts only the bucket of its own tick, and a tick ends when nothing else than
\* what is read then is left.
LEMMA GatheredKept == LanInv /\ [LanNext]_lvars => Gathered'
  <1> SUFFICES ASSUME LanTypeOK, Gathered, [LanNext]_lvars  PROVE Gathered'
    BY DEF LanInv
  <1>a. PICK a \in Bucket : a <= Latest /\ lan.published \subseteq Kept(a)
    BY DEF Gathered
  <1>b. /\ bucket \in Nat /\ a \in Nat /\ lan.published \subseteq Nat
        /\ round # Rest => round.at \in 0..bucket
    BY RoundTypes, BucketsAssumption DEF LanTypeOK, Bucket
  <1>c. room \ lost \subseteq lan.published
    BY DEF Gathered
  \* Nothing moves but the clock, or nothing at all.
  <1>d. ASSUME UNCHANGED <<room, lost, round>>, lan'.published = lan.published, Latest <= Latest',
               bucket' \in Nat
        PROVE  Gathered'
    <2>1. a <= Latest'
      <3>1. Latest \in Nat /\ Latest' \in Nat
        BY <1>b, <1>d DEF Latest, LanTypeOK, Bucket
      <3> QED  BY <1>a, <1>b, <1>d, <3>1
    <2>2. Kept(a)' = Kept(a)
      BY <1>d DEF Kept
    <2> QED  BY <1>a, <1>c, <1>d, <2>1, <2>2 DEF Gathered
  <1>1. CASE TimePasses
    <2>1. Latest <= Latest' /\ bucket' \in Nat
      BY <1>1, <1>b DEF TimePasses, Latest
    <2> QED  BY <1>1, <1>d, <2>1 DEF TimePasses
  <1>2. CASE LanTickBegins
    <2>1. /\ round = Rest /\ round'.at = bucket /\ round' # Rest
          /\ lan'.published = lan.published /\ UNCHANGED <<bucket, room, lost>>
      BY <1>2 DEF LanTickBegins, Rest, LanTypeOK
    <2>2. a <= Latest' /\ Kept(a) \subseteq Kept(a)'
      BY <1>a, <2>1 DEF Latest, Kept
    <2> QED  BY <1>a, <1>c, <2>1, <2>2 DEF Gathered
  <1>3. CASE PutRequests
    <2>1. round # Rest /\ round'.at = round.at /\ round' # Rest /\ round'.stage # "put"
      BY <1>3 DEF PutRequests, LanTypeOK, Round, Rest
    <2>2. lan'.published = lan.published \cup {round.at}
      BY <1>3 DEF PutRequests, LanTypeOK
    <2>3. a <= Latest' /\ Kept(a) \cup {round.at} \subseteq Kept(a)'
      BY <1>a, <2>1 DEF Latest, Kept
    <2>4. room' \ lost' \subseteq lan'.published
      BY <1>3, <1>c, <2>2 DEF PutRequests
    <2> QED  BY <1>a, <2>2, <2>3, <2>4 DEF Gathered
  <1>4. CASE PutFails
    <2>1. a <= Latest' /\ Kept(a)' = Kept(a)
      BY <1>4, <1>a, <1>b DEF PutFails, Latest, Kept, Rest
    <2> QED  BY <1>4, <1>a, <1>c, <2>1 DEF Gathered, PutFails
  <1>5. CASE ForwardEnds
    <2>1. /\ round # Rest /\ round.stage = "forward"
          /\ round' # Rest /\ round'.at = round.at /\ round'.stage = "collect"
          /\ lan'.published = lan.published /\ UNCHANGED <<room, lost>>
      BY <1>5 DEF ForwardEnds, LanTypeOK, Rest
    <2>2. a <= Latest' /\ Kept(a)' = Kept(a)
      BY <1>a, <2>1 DEF Latest, Kept
    <2> QED  BY <1>a, <1>c, <2>1, <2>2 DEF Gathered
  <1>6. CASE LanTickEnds
    <2>1. /\ round # Rest /\ round.stage = "collect" /\ Collected /\ round' = Rest
          /\ UNCHANGED <<bucket, room, lan, lost>>
      BY <1>6 DEF LanTickEnds, Rest
    <2>2. PICK now \in Bucket : now = round.at /\ now <= Latest' /\ a <= now
      BY <1>a, <1>b, <2>1, BucketsAssumption DEF Latest, Bucket, LanTypeOK
    <2>3. lan.published \subseteq (now - 2)..now
      <3> SUFFICES ASSUME NEW b \in lan.published  PROVE b \in (now - 2)..now
        OBVIOUS
      <3>1. b <= now
        BY <1>a, <1>b, <2>1, <2>2 DEF Kept
      <3>2. ~(b < now - 2)
        BY <2>1, <2>2 DEF Collected, Unread
      <3>3. b \in Nat /\ now \in Nat
        BY <1>b, BucketsAssumption DEF Bucket
      <3> QED  BY <3>1, <3>2, <3>3
    <2>4. lan.published \subseteq Kept(now)'
      BY <2>3 DEF Kept
    <2> QED  BY <1>c, <2>1, <2>2, <2>4 DEF Gathered
  <1>7. CASE LanStops
    <2>1. lan'.published = {} /\ round' = Rest /\ bucket' = bucket
      BY <1>7 DEF LanStops, Fresh
    <2>2. room' \ lost' \subseteq lan'.published
      BY <1>7, <1>c DEF LanStops
    <2>3. bucket \in Bucket /\ bucket <= Latest'
      BY <2>1, <1>b DEF Latest, LanTypeOK
    <2> QED  BY <2>1, <2>2, <2>3 DEF Gathered
  <1>8. CASE LanStarts
    BY <1>8, <1>d, <1>b DEF LanStarts, LanTypeOK, Latest
  <1>9. ASSUME NEW d \in Device, Advertise(d)  PROVE Gathered'
    <2>1. lan'.published = lan.published /\ UNCHANGED <<bucket, room, lost>>
      BY <1>9 DEF Advertise, LanTypeOK
    <2>2. /\ round' = Rest <=> round = Rest
          /\ round # Rest => round'.at = round.at /\ round'.stage = round.stage
      BY <1>9, RoundTypes DEF Advertise, Rest
    <2>3. a <= Latest' /\ Kept(a)' = Kept(a)
      BY <1>a, <2>1, <2>2 DEF Latest, Kept
    <2> QED  BY <1>a, <1>c, <2>1, <2>3 DEF Gathered
  <1>10. ASSUME NEW d \in Device, BrowserApproves(d)  PROVE Gathered'
    BY <1>10, <1>d, <1>b DEF BrowserApproves, Latest
  <1>11. ASSUME NEW d \in Device, ForwardBegins(d)  PROVE Gathered'
    <2>1. /\ round # Rest /\ round.stage = "collect"
          /\ round' # Rest /\ round'.at = round.at /\ round'.stage = "forward"
          /\ UNCHANGED <<room, lan, lost>>
      BY <1>11 DEF ForwardBegins, Rest
    <2>2. a <= Latest' /\ Kept(a)' = Kept(a)
      BY <1>a, <2>1 DEF Latest, Kept
    <2> QED  BY <1>a, <1>c, <2>1, <2>2 DEF Gathered
  <1>12. ASSUME NEW b \in Bucket, Collect(b)  PROVE Gathered'
    <2>1. lan'.published = lan.published \ {b} /\ UNCHANGED <<bucket, round>>
      BY <1>12 DEF Collect, LanTypeOK
    <2>2. room' \ lost' \subseteq lan'.published
      BY <1>12, <1>c, <2>1 DEF Collect
    <2>3. a <= Latest' /\ Kept(a)' = Kept(a)
      BY <1>a, <2>1 DEF Latest, Kept
    <2> QED  BY <1>a, <2>1, <2>2, <2>3 DEF Gathered
  <1>13. ASSUME NEW b \in Bucket, PruneStaleIndexRecords(b)  PROVE Gathered'
    <2>1. room' \ lost' \subseteq room \ lost /\ UNCHANGED <<bucket, round, lan>>
      BY <1>13 DEF PruneStaleIndexRecords
    <2>2. a <= Latest' /\ Kept(a)' = Kept(a)
      BY <1>a, <2>1 DEF Latest, Kept
    <2> QED  BY <1>a, <1>c, <2>1, <2>2 DEF Gathered
  <1>14. CASE UNCHANGED lvars
    BY <1>14, <1>d, <1>b DEF lvars, Latest
  <1> QED
    BY <1>1, <1>2, <1>3, <1>4, <1>5, <1>6, <1>7, <1>8, <1>9, <1>10, <1>11, <1>12, <1>13, <1>14
       DEF LanNext

\* The buckets of three in a row, and one more, are four at most.
LEMMA FourBuckets ==
    ASSUME NEW a \in Nat, NEW b, NEW S, S \subseteq (a - 2)..a \cup {b}
    PROVE  Cardinality(S) <= 4
  <1> DEFINE T == (a - 2)..a
  <1>1. a - 2 \in Int /\ a \in Int /\ a - (a - 2) + 1 = 3 /\ ~(a - 2 > a)
    OBVIOUS
  <1>2. IsFiniteSet(T) /\ Cardinality(T) = 3
    BY <1>1, FS_Interval
  <1> HIDE DEF T
  <1>3. IsFiniteSet(T \cup {b}) /\ Cardinality(T \cup {b}) \in {3, 4}
    BY <1>2, FS_AddElement
  <1>4. S \in SUBSET (T \cup {b})
    BY DEF T
  <1>5. IsFiniteSet(S) /\ Cardinality(S) <= Cardinality(T \cup {b})
    BY <1>3, <1>4, FS_Subset
  <1>6. Cardinality(S) \in Nat
    BY <1>5, FS_CardinalityType
  <1> QED  BY <1>3, <1>5, <1>6

\* The variables of LanApproval keep their types.
THEOREM LanTypesHold == LanSpec => []LanTypeOK
  <1>1. LanInit => LanTypeOK
    BY LanInitially DEF LanInv
  <1> QED  BY <1>1, LanTypesKept, PTL DEF LanSpec

\* Of what a service has written, at most four records are in the room beside those it gave
\* up (lan-enrollment.js:188), for any number of devices, however its ticks lag.
THEOREM RecordsStayFew == LanSpec => []RecordsAreFew
  <1>1. LanInv => RecordsAreFew
    <2> SUFFICES ASSUME LanTypeOK, Gathered  PROVE RecordsAreFew
      BY DEF LanInv
    <2>1. PICK a \in Bucket : lan.published \subseteq Kept(a)
      BY DEF Gathered
    <2>2. a \in Nat
      BY BucketsAssumption DEF Bucket
    <2>3. room \ lost \subseteq (a - 2)..a \cup {round.at}
      BY <2>1 DEF Gathered, Kept
    <2> QED  BY <2>2, <2>3, FourBuckets DEF RecordsAreFew
  <1>2. LanInv /\ [LanNext]_lvars => LanInv'
    BY LanTypesKept, GatheredKept DEF LanInv
  <1> QED  BY <1>1, <1>2, LanInitially, PTL DEF LanSpec

-----------------------------------------------------------------------------
(***************************************************************************)
(* Pairing: what the machine puts down as paired.                            *)
(***************************************************************************)

LEMMA NoTickStage == NoTick \notin Going /\ NoTick.stage \notin Stages
  BY DEF NoTick, Going, Stages

\* A tick that is at some stage has all its fields.
LEMMA GoingTick ==
    ASSUME PairingTypeOK, NEW t \in Tick, tick[t] # NoTick \/ tick[t].stage \in Stages
    PROVE  /\ tick[t] \in Going
           /\ tick[t].stage \in Stages /\ tick[t].left \subseteq Page /\ tick[t].secret \in Secret
           /\ tick[t].for \subseteq Page /\ tick[t].net \in 0..MaxWindows
           /\ tick[t].record \in 0..MaxRecords /\ tick[t].seen \in Window
           /\ tick[t].record <= watcher.records
  <1>1. tick[t] \in Going
    BY NoTickStage DEF PairingTypeOK
  <1> QED  BY <1>1, NoTickStage DEF PairingTypeOK, Going

LEMMA BegunTypes ==
    ASSUME NEW left \in SUBSET Page, NEW secret \in Secret
    PROVE  /\ Begun(left, secret) \in Going
           /\ Begun(left, secret).stage = "next" /\ Begun(left, secret).record = 0
           /\ Begun(left, secret).secret = secret
  BY PairingAssumption DEF Begun, Going, Stages, Window, Shut

\* A tick that goes from one stage to another, and the rest of it.
LEMMA TickSet ==
    ASSUME PairingTypeOK, NEW t \in Tick, NEW g \in Going, g.record <= watcher'.records,
           tick' = [tick EXCEPT ![t] = g], watcher.records <= watcher'.records,
           watcher'.records \in Nat
    PROVE  /\ tick' \in [Tick -> {NoTick} \cup Going]
           /\ \A u \in Tick : tick'[u] # NoTick => tick'[u].record <= watcher'.records
  <1>1. \A u \in Tick : tick[u] # NoTick => tick[u].record \in Nat /\ tick[u].record <= watcher.records
    BY GoingTick
  <1>2. watcher.records \in Nat
    BY DEF PairingTypeOK, Watcher
  <1> QED  BY <1>1, <1>2 DEF PairingTypeOK

LEMMA TickDone ==
    ASSUME PairingTypeOK, NEW t \in Tick, tick' = [tick EXCEPT ![t] = NoTick],
           watcher' = watcher
    PROVE  /\ tick' \in [Tick -> {NoTick} \cup Going]
           /\ \A u \in Tick : tick'[u] # NoTick => tick'[u].record <= watcher'.records
  BY DEF PairingTypeOK

\* What a window makes of the watcher that follows it, a stop, and a start.
LEMMA WatcherFollows ==
    ASSUME NEW w \in Watcher, NEW f \in 0..MaxWindows, NEW q \in [Page -> 0..MaxRecords]
    PROVE  [w EXCEPT !.followed = f, !.network = 0, !.requests = q, !.joining = (@ \cup {f}) \ {0}]
               \in Watcher
  <1>1. (w.joining \cup {f}) \ {0} \subseteq Phrase /\ 0 \in 0..MaxWindows
    BY PairingAssumption DEF Watcher, Phrase
  <1> QED  BY <1>1 DEF Watcher

LEMMA WatcherHalts ==
    ASSUME NEW w \in Watcher, w.stops < MaxStops, NEW q \in [Page -> 0..MaxRecords]
    PROVE  [w EXCEPT !.up = FALSE, !.network = 0, !.stops = @ + 1, !.requests = q] \in Watcher
  <1>1. w.stops + 1 \in 0..MaxStops /\ 0 \in 0..MaxWindows
    BY PairingAssumption DEF Watcher
  <1> QED  BY <1>1 DEF Watcher

LEMMA PairingWatcherBegins ==
    ASSUME NEW w \in Watcher
    PROVE  [Started(w.records) EXCEPT !.stops = w.stops] \in Watcher
  <1>1. /\ w.records \in 0..MaxRecords /\ w.stops \in 0..MaxStops
        /\ 0 \in 0..MaxStops /\ 0 \in 0..MaxWindows /\ 0 \in 0..MaxRecords
    BY PairingAssumption DEF Watcher
  <1>2. Started(w.records) \in Watcher
    BY <1>1 DEF Watcher, Started
  <1> QED  BY <1>1, <1>2 DEF Watcher

LEMMA LinkParts ==
    ASSUME NEW l \in Link
    PROVE  /\ l.issued \in 0..MaxLinks /\ l.attempts \in 0..MaxAttempts /\ l.secret \in Secret
           /\ l.by \subseteq Page
  BY DEF Link

LEMMA LinkTried ==
    ASSUME NEW l \in Link, l.attempts < MaxAttempts, NEW b \in Page, NEW right \in BOOLEAN
    PROVE  [l EXCEPT !.attempts = @ + 1, !.stage = IF right THEN "granted" ELSE @,
                     !.by = IF right THEN {b} ELSE @] \in Link
  <1>1. l.attempts + 1 \in 0..MaxAttempts
    BY LinkParts, PairingAssumption
  <1>2. CASE right
    BY <1>1, <1>2 DEF Link
  <1>3. CASE ~right
    BY <1>1, <1>3 DEF Link
  <1> QED  BY <1>2, <1>3

LEMMA PairingTypesKept == PairingTypeOK /\ [PairingNext]_pairvars => PairingTypeOK'
  <1> SUFFICES ASSUME PairingTypeOK, [PairingNext]_pairvars  PROVE PairingTypeOK'
    OBVIOUS
  <1>a. /\ watcher.records \in Nat /\ MaxRecords \in Nat /\ MaxWindows \in Nat
        /\ \A b \in Page : watcher.requests[b] \in 0..MaxRecords
    BY PairingAssumption DEF PairingTypeOK, Watcher
  <1> DEFINE Others == UNCHANGED <<index, minted, window, windows, phraseOf, stored, answered,
                                   acks, taken, link>>
  \* Steps that leave the watcher and its ticks alone.
  <1>b. ASSUME UNCHANGED <<watcher, taken, tick, answered, acks, stored>>,
               index' \in [secret : Secret, complete : BOOLEAN], minted' \in 1..MaxSecrets,
               window' \in Window, windows' \in 0..MaxWindows,
               phraseOf' \in [Page -> 0..MaxWindows], link' \in Link
        PROVE  PairingTypeOK'
    BY <1>b DEF PairingTypeOK
  \* Steps of the watcher alone.
  <1>c. ASSUME Others, watcher' \in Watcher, watcher'.network \in {0, watcher'.followed},
               watcher'.records = watcher.records, tick' = tick,
               \A b \in Page : watcher'.requests[b] <= watcher'.records
        PROVE  PairingTypeOK'
    BY <1>c DEF PairingTypeOK
  <1>1. ASSUME NEW rotate \in BOOLEAN, ClaimDashboardPairing(rotate)
        PROVE  index' \in [secret : Secret, complete : BOOLEAN] /\ minted' \in 1..MaxSecrets
    BY <1>1, PairingAssumption DEF ClaimDashboardPairing, PairingTypeOK, Secret
  <1>2. ASSUME OpenPairingWindow  PROVE window' \in Window /\ windows' \in 0..MaxWindows
    BY <1>2, PairingAssumption DEF OpenPairingWindow, PairingTypeOK, Window, Opened
  <1>3. ASSUME NEW mode \in {"once", "again"}, Issue(mode), link.issued < MaxLinks,
               index' \in [secret : Secret, complete : BOOLEAN]
        PROVE  link' \in Link
    <2>1. link.issued \in 0..MaxLinks
      BY LinkParts DEF PairingTypeOK
    <2>2. link.issued + 1 \in 0..MaxLinks
      BY <1>3, <2>1, PairingAssumption
    <2>3. index'.secret \in Secret
      BY <1>3
    <2>4. link' = [stage |-> "serve", mode |-> mode, secret |-> index'.secret, by |-> {},
                   attempts |-> 0, issued |-> link.issued + 1]
      BY <1>3 DEF Issue, NoLink
    <2> QED  BY <2>2, <2>3, <2>4, PairingAssumption DEF Link
  <1>4. ASSUME NEW secret \in Secret, CompleteDashboardPairing(secret)
        PROVE  index' \in [secret : Secret, complete : BOOLEAN]
    BY <1>4 DEF CompleteDashboardPairing, PairingTypeOK
  <1>5. Shut \in Window /\ NoLink \in Link
    BY PairingAssumption DEF Shut, Window, NoLink, Link, Secret
  <1>6. CASE RotateMachineIndexSecret
    BY <1>1, <1>6, <1>b DEF RotateMachineIndexSecret, PairingTypeOK
  <1>7. CASE OfferPairing
    BY <1>2, <1>7, <1>b DEF OfferPairing, PairingTypeOK
  <1>8. CASE WindowRunsOut
    BY <1>5, <1>8, <1>b DEF WindowRunsOut, PairingTypeOK
  <1>9. CASE FollowWindow
    <2>1. window.phrase \in 0..MaxWindows /\ [b \in Page |-> 0] \in [Page -> 0..MaxRecords]
      BY <1>a DEF PairingTypeOK, Window
    <2>2. watcher \in Watcher
      BY DEF PairingTypeOK
    <2>3. watcher' \in Watcher
      BY <1>9, <2>1, <2>2, WatcherFollows DEF FollowWindow
    <2>4. watcher'.network = 0 /\ watcher'.records = watcher.records
             /\ watcher'.requests = [b \in Page |-> 0]
      BY <1>9, <2>2 DEF FollowWindow, Watcher
    <2> QED  BY <1>9, <1>a, <1>c, <2>3, <2>4 DEF FollowWindow
  <1>10. CASE StopWatcher
    <2>1. watcher \in Watcher /\ [b \in Page |-> 0] \in [Page -> 0..MaxRecords]
      BY <1>a DEF PairingTypeOK
    <2>2. watcher' \in Watcher
      BY <1>10, <2>1, WatcherHalts DEF StopWatcher
    <2>3. watcher'.network = 0 /\ watcher'.records = watcher.records
             /\ watcher'.requests = [b \in Page |-> 0]
      BY <1>10, <2>1 DEF StopWatcher, Watcher
    <2> QED  BY <1>10, <1>a, <1>c, <2>2, <2>3 DEF StopWatcher
  <1>d. [Started(watcher.records) EXCEPT !.stops = watcher.stops] \in Watcher
    BY PairingWatcherBegins DEF PairingTypeOK
  \* Steps that start the watcher anew.
  <1>e. ASSUME watcher' = [Started(watcher.records) EXCEPT !.stops = watcher.stops],
               tick' = [t \in Tick |-> NoTick], UNCHANGED <<taken, answered, acks, stored>>,
               index' \in [secret : Secret, complete : BOOLEAN], minted' \in 1..MaxSecrets,
               window' \in Window, windows' \in 0..MaxWindows,
               phraseOf' \in [Page -> 0..MaxWindows], link' \in Link
        PROVE  PairingTypeOK'
    <2>1. /\ watcher' \in Watcher /\ watcher'.network = 0 /\ watcher'.records = watcher.records
          /\ watcher'.requests = [b \in Page |-> 0]
      BY <1>d, <1>e DEF Started
    <2> QED  BY <1>a, <1>e, <2>1 DEF PairingTypeOK
  <1>11. CASE StartWatcher
    BY <1>11, <1>e DEF StartWatcher, PairingTypeOK
  <1>12. CASE PairCommand
    <2>1. index' \in [secret : Secret, complete : BOOLEAN] /\ minted' \in 1..MaxSecrets
      BY <1>1, <1>12 DEF PairCommand
    <2>2. link' \in Link
      BY <1>3, <1>12, <2>1 DEF PairCommand
    <2>3. window' \in Window /\ windows' \in 0..MaxWindows
      BY <1>2, <1>12 DEF PairCommand
    <2> QED  BY <1>12, <1>b, <2>1, <2>2, <2>3 DEF PairCommand, PairingTypeOK
  <1>13. CASE PairDashboardCommand
    <2>1. index' \in [secret : Secret, complete : BOOLEAN] /\ minted' \in 1..MaxSecrets
      BY <1>1, <1>13 DEF PairDashboardCommand
    <2>2. link' \in Link
      BY <1>3, <1>13, <2>1 DEF PairDashboardCommand
    <2> QED  BY <1>13, <1>e, <2>1, <2>2 DEF PairDashboardCommand, PairingTypeOK
  <1>14. CASE LinkIsAcknowledged
    <2>1. link' \in Link
      BY <1>14 DEF LinkIsAcknowledged, PairingTypeOK, Link
    <2> QED  BY <1>14, <1>b, <2>1 DEF LinkIsAcknowledged, PairingTypeOK
  <1>15. CASE LinkCompletes
    <2>1. link' \in Link /\ link.secret \in Secret
      BY <1>15 DEF LinkCompletes, PairingTypeOK, Link
    <2> QED  BY <1>15, <1>4, <1>b, <2>1 DEF LinkCompletes, PairingTypeOK
  <1>16. CASE LinkFails
    <2>1. CASE link.mode = "again"
      <3>1. index' \in [secret : Secret, complete : BOOLEAN] /\ minted' \in 1..MaxSecrets
        BY <1>1, <1>16, <2>1 DEF LinkFails
      <3>2. link' \in Link
        BY <1>3, <1>16, <2>1, <3>1 DEF LinkFails
      <3> QED  BY <1>16, <1>b, <3>1, <3>2 DEF LinkFails, PairingTypeOK
    <2>2. CASE link.mode # "again"
      <3>1. link' \in Link
        BY <1>16, <2>2 DEF LinkFails, PairingTypeOK, Link
      <3> QED  BY <1>16, <1>b, <2>2, <3>1 DEF LinkFails, PairingTypeOK
    <2> QED  BY <2>1, <2>2
  <1>17. CASE PairCommandEnds
    <2>1. link' \in Link
      BY <1>17 DEF PairCommandEnds, PairingTypeOK, Link
    <2> QED  BY <1>17, <1>b, <2>1 DEF PairCommandEnds, PairingTypeOK
  <1>18. ASSUME NEW p \in Phrase, ResponderStarts(p)  PROVE PairingTypeOK'
    <2>1. PICK started \in BOOLEAN :
             watcher' = [watcher EXCEPT !.joining = @ \ {p},
                !.network = IF started /\ watcher.up /\ watcher.followed = p THEN p ELSE @]
      BY <1>18 DEF ResponderStarts
    <2>2. p \in 0..MaxWindows
      BY <1>a DEF Phrase
    <2>3. watcher' \in Watcher /\ watcher'.records = watcher.records
             /\ watcher'.requests = watcher.requests /\ watcher'.network \in {0, watcher'.followed}
      BY <2>1, <2>2 DEF PairingTypeOK, Watcher
    <2> QED  BY <1>18, <1>c, <2>3 DEF ResponderStarts, PairingTypeOK
  <1>19. ASSUME NEW b \in Page, PhraseIsGiven(b)  PROVE PairingTypeOK'
    <2>1. phraseOf' \in [Page -> 0..MaxWindows]
      BY <1>19 DEF PhraseIsGiven, PairingTypeOK, Window
    <2> QED  BY <1>19, <1>b, <2>1 DEF PhraseIsGiven, PairingTypeOK
  <1>20. ASSUME NEW b \in Page, Announce(b)  PROVE PairingTypeOK'
    <2>1. watcher.records + 1 \in 0..MaxRecords
      BY <1>20, <1>a DEF Announce
    <2>2. /\ watcher' \in Watcher /\ watcher'.network = watcher.network
          /\ watcher'.followed = watcher.followed /\ watcher'.records = watcher.records + 1
          /\ watcher'.requests = [watcher.requests EXCEPT ![b] = watcher.records + 1]
      BY <1>20, <2>1 DEF Announce, PairingTypeOK, Watcher
    <2>3. \A c \in Page : watcher'.requests[c] <= watcher'.records
      BY <2>2, <1>a DEF PairingTypeOK, Watcher
    <2>4. \A t \in Tick : tick[t] # NoTick => tick[t].record <= watcher'.records
      BY <2>2, <1>a, GoingTick
    <2>5. taken \subseteq 1..watcher'.records
      BY <2>2, <1>a DEF PairingTypeOK
    <2> QED  BY <1>20, <2>2, <2>3, <2>4, <2>5 DEF Announce, PairingTypeOK
  <1>21. ASSUME NEW b \in Page, Pending(b)  PROVE PairingTypeOK'
    <2>1. /\ watcher' \in Watcher /\ watcher'.network = watcher.network
          /\ watcher'.followed = watcher.followed /\ watcher'.records = watcher.records
          /\ watcher'.requests = [watcher.requests EXCEPT ![b] = 0]
      BY <1>21, <1>a DEF Pending, PairingTypeOK, Watcher
    <2>2. \A c \in Page : watcher'.requests[c] <= watcher'.records
      BY <2>1, <1>a DEF PairingTypeOK, Watcher
    <2> QED  BY <1>21, <1>c, <2>1, <2>2 DEF Pending, PairingTypeOK
  <1>22. ASSUME NEW b \in Page, BrowserStores(b)  PROVE PairingTypeOK'
    <2>1. PICK t \in Tick : /\ tick[t].stage = "approve"
                            /\ stored' = [stored EXCEPT ![b] = @ \cup {tick[t].secret}]
      BY <1>22 DEF BrowserStores
    <2>2. tick[t].secret \in Secret
      BY <2>1, GoingTick DEF Stages
    <2>3. stored' \in [Page -> SUBSET Secret]
      BY <2>1, <2>2 DEF PairingTypeOK
    <2> QED  BY <1>22, <2>3 DEF BrowserStores, PairingTypeOK
  <1>23. ASSUME NEW b \in Page, AcceptedArrives(b)  PROVE PairingTypeOK'
    <2> DEFINE request == watcher.requests[b]
               records == watcher.records
    <2>1. records \in Nat /\ request \in 0..records
      BY <1>a DEF PairingTypeOK
    <2>2. /\ taken \subseteq 1..records
          /\ taken' = taken \/ taken' = taken \cup ({request} \ {0})
      BY <1>23 DEF AcceptedArrives, PairingTypeOK
    <2> HIDE DEF request, records
    <2>3. request # 0 => request \in 1..records
      BY <2>1
    <2>4. ASSUME NEW r \in taken'  PROVE r \in 1..records
      <3>1. r \in taken \/ (r = request /\ r # 0)
        BY <2>2
      <3> QED  BY <2>2, <2>3, <3>1
    <2>5. taken' \subseteq 1..watcher.records
      BY <2>4 DEF records
    <2> QED  BY <1>23, <2>5 DEF AcceptedArrives, PairingTypeOK
  <1>24. ASSUME NEW b \in Page, LinkIsClaimed(b)  PROVE PairingTypeOK'
    <2>1. link' \in Link
      <3>1. link \in Link /\ link.attempts < MaxAttempts
        BY <1>24 DEF LinkIsClaimed, PairingTypeOK
      <3>2. PICK right \in BOOLEAN :
              link' = [link EXCEPT !.attempts = @ + 1, !.stage = IF right THEN "granted" ELSE @,
                                   !.by = IF right THEN {b} ELSE @]
        BY <1>24 DEF LinkIsClaimed
      <3> QED  BY <3>1, <3>2, LinkTried
    <2> QED  BY <1>24, <1>b, <2>1 DEF LinkIsClaimed, PairingTypeOK
  <1>25. ASSUME NEW b \in Page, LinkIsStored(b)  PROVE PairingTypeOK'
    <2>1. link' \in Link /\ link.secret \in Secret
      BY <1>25 DEF LinkIsStored, PairingTypeOK, Link
    <2>2. stored' \in [Page -> SUBSET Secret]
      BY <1>25, <2>1 DEF LinkIsStored, PairingTypeOK
    <2> QED  BY <1>25, <2>1, <2>2 DEF LinkIsStored, PairingTypeOK
  \* Steps of one tick.
  <1>f. ASSUME NEW t \in Tick, NEW g \in Going, tick' = [tick EXCEPT ![t] = g],
               g.record <= watcher.records, watcher' \in Watcher,
               watcher'.records = watcher.records, watcher'.network \in {0, watcher'.followed},
               \A b \in Page : watcher'.requests[b] <= watcher'.records,
               UNCHANGED <<taken, answered, acks, stored, minted, windows, phraseOf, link>>,
               index' \in [secret : Secret, complete : BOOLEAN], window' \in Window
        PROVE  PairingTypeOK'
    <2>1. /\ tick' \in [Tick -> {NoTick} \cup Going]
          /\ \A u \in Tick : tick'[u] # NoTick => tick'[u].record <= watcher'.records
      <3>1. watcher.records <= watcher'.records /\ watcher'.records \in Nat
               /\ g.record <= watcher'.records
        BY <1>a, <1>f
      <3> QED  BY <1>f, <3>1, TickSet
    <2> QED  BY <1>f, <2>1 DEF PairingTypeOK
  <1>g. ASSUME NEW t \in Tick, tick' = [tick EXCEPT ![t] = NoTick],
               UNCHANGED <<watcher, taken, answered, acks, stored, minted, windows, phraseOf, link>>,
               index' \in [secret : Secret, complete : BOOLEAN], window' \in Window
        PROVE  PairingTypeOK'
    <2>1. /\ tick' \in [Tick -> {NoTick} \cup Going]
          /\ \A u \in Tick : tick'[u] # NoTick => tick'[u].record <= watcher'.records
      BY <1>g, TickDone
    <2> QED  BY <1>g, <2>1 DEF PairingTypeOK
  <1>h. ASSUME NEW t \in Tick, tick[t].stage \in Stages, GoesOn(t)
        PROVE  \E g \in Going : tick' = [tick EXCEPT ![t] = g] /\ g.record <= watcher.records
    <2>1. Begun(tick[t].left, tick[t].secret) \in Going
             /\ Begun(tick[t].left, tick[t].secret).record = 0
      BY <1>h, GoingTick, BegunTypes
    <2>2. tick' = [tick EXCEPT ![t] = Begun(tick[t].left, tick[t].secret)]
      BY <1>h DEF GoesOn
    <2>3. Begun(tick[t].left, tick[t].secret).record <= watcher.records
      BY <1>a, <2>1
    <2> QED  BY <2>1, <2>2, <2>3
  <1>i. /\ index \in [secret : Secret, complete : BOOLEAN] /\ window \in Window
        /\ watcher \in Watcher /\ watcher.network \in {0, watcher.followed}
        /\ \A b \in Page : watcher.requests[b] <= watcher.records
    BY DEF PairingTypeOK
  <1>26. ASSUME NEW t \in Tick, TickBegins(t)  PROVE PairingTypeOK'
    <2>1. Waiting \in SUBSET Page /\ index.secret \in Secret
      BY DEF Waiting, PairingTypeOK
    <2>2. Begun(Waiting, index.secret) \in Going /\ Begun(Waiting, index.secret).record = 0
      BY <2>1, BegunTypes
    <2>3. /\ tick' = [tick EXCEPT ![t] = Begun(Waiting, index.secret)]
          /\ UNCHANGED <<taken, answered, acks, stored, minted, windows, phraseOf, link>>
          /\ UNCHANGED <<index, window, watcher>>
      BY <1>26 DEF TickBegins
    <2>4. Begun(Waiting, index.secret).record <= watcher.records
      BY <1>a, <2>2
    <2> QED  BY <1>f, <1>i, <2>2, <2>3, <2>4
  <1>27. ASSUME NEW t \in Tick, CountFailure(t)  PROVE PairingTypeOK'
    <2>1. tick[t].stage \in Stages /\ tick[t].seen \in Window
      BY <1>27, GoingTick DEF CountFailure, Stages
    <2>2. window' \in Window
      BY <1>27, <1>5, <2>1, PairingAssumption DEF CountFailure, Window
    <2> QED  BY <1>27, <1>f, <1>h, <1>i, <2>1, <2>2 DEF CountFailure
  <1>28. ASSUME NEW t \in Tick, ApproveBegins(t)  PROVE PairingTypeOK'
    <2>1. tick[t] \in Going /\ tick[t].stage = "answer"
      BY <1>28, GoingTick DEF ApproveBegins, Stages
    <2>2. PICK b \in Page : tick[t].for = {b}
      BY <2>1 DEF Going
    <2>3. UNCHANGED <<index, minted, window, windows, phraseOf, stored, answered, acks, watcher,
                      taken, link>>
      BY <1>28 DEF ApproveBegins
    <2>4. CASE Ends(t)
      BY <1>g, <1>i, <2>3, <2>4 DEF Ends
    <2>5. CASE tick' = [tick EXCEPT ![t].stage = "approve", ![t].net = watcher.network,
                                    ![t].record = watcher.requests[b]]
      <3> DEFINE g == [tick[t] EXCEPT !.stage = "approve", !.net = watcher.network,
                                      !.record = watcher.requests[b]]
      <3>1. watcher.network \in 0..MaxWindows /\ watcher.requests[b] \in 0..MaxRecords
        BY <1>i DEF Watcher
      <3>2. g \in Going /\ g.record = watcher.requests[b]
        BY <2>1, <2>2, <3>1 DEF Going, Stages
      <3>3. tick' = [tick EXCEPT ![t] = g]
        BY <2>5
      <3>4. g.record <= watcher.records
        BY <1>i, <3>2
      <3> HIDE DEF g
      <3> QED  BY <1>f, <1>i, <2>3, <3>2, <3>3, <3>4
    <2> QED  BY <1>28, <2>2, <2>4, <2>5 DEF ApproveBegins
  <1>29. ASSUME NEW t \in Tick, ApproveEnds(t)  PROVE PairingTypeOK'
    <2>1. tick[t].stage \in Stages /\ tick[t].left \in SUBSET Page /\ tick[t].secret \in Secret
      BY <1>29, GoingTick DEF ApproveEnds, Stages
    <2> DEFINE g == [Begun(tick[t].left, tick[t].secret) EXCEPT !.stage = "close"]
    <2>2. Begun(tick[t].left, tick[t].secret) \in Going
             /\ Begun(tick[t].left, tick[t].secret).record = 0
      BY <2>1, BegunTypes
    <2>3. g \in Going /\ g.record = 0
      BY <2>2 DEF Going, Stages
    <2>4. \E h \in Going : tick' = [tick EXCEPT ![t] = h] /\ h.record <= watcher.records
      <3>1. CASE GoesOn(t)
        BY <1>h, <2>1, <3>1
      <3>2. CASE tick' = [tick EXCEPT ![t] = [Begun(@.left, @.secret) EXCEPT !.stage = "close"]]
        <4>1. tick' = [tick EXCEPT ![t] = g]
          BY <3>2
        <4>2. g.record <= watcher.records
          BY <1>a, <2>3
        <4> HIDE DEF g
        <4> QED  BY <2>3, <4>1, <4>2
      <3> QED  BY <1>29, <3>1, <3>2 DEF ApproveEnds
    <2> DEFINE q == [b \in Page |-> IF b \in tick[t].for THEN 0 ELSE watcher.requests[b]]
    <2>5. q \in [Page -> 0..MaxRecords] /\ \A b \in Page : q[b] <= watcher.records
      BY <1>a, <1>i
    <2>6. watcher' = watcher \/ watcher' = [watcher EXCEPT !.requests = q]
      BY <1>29 DEF ApproveEnds
    <2> HIDE DEF q
    <2>7. /\ watcher' \in Watcher /\ watcher'.records = watcher.records
          /\ watcher'.network \in {0, watcher'.followed}
          /\ \A b \in Page : watcher'.requests[b] <= watcher'.records
      BY <1>i, <2>5, <2>6 DEF Watcher
    <2>8. UNCHANGED <<index, minted, window, windows, phraseOf, stored, answered, acks, taken, link>>
      BY <1>29 DEF ApproveEnds
    <2> QED  BY <1>f, <1>i, <2>4, <2>7, <2>8
  <1>30. ASSUME NEW t \in Tick, ClosePairingWindow(t)  PROVE PairingTypeOK'
    <2>1. tick[t] \in Going /\ tick[t].record <= watcher.records
      BY <1>30, GoingTick DEF ClosePairingWindow, Stages
    <2>2. CASE tick[t].stage = "close"
      <3>1. [tick[t] EXCEPT !.stage = "complete"] \in Going
               /\ [tick[t] EXCEPT !.stage = "complete"].record = tick[t].record
        BY <2>1 DEF Going, Stages
      <3>2. tick' = [tick EXCEPT ![t] = [tick[t] EXCEPT !.stage = "complete"]]
        BY <1>30, <2>2 DEF ClosePairingWindow
      <3> QED  BY <1>30, <1>5, <1>f, <1>i, <2>1, <3>1, <3>2 DEF ClosePairingWindow
    <2>3. CASE tick[t].stage # "close"
      BY <1>30, <1>5, <1>g, <1>i, <2>3 DEF ClosePairingWindow, Ends
    <2> QED  BY <2>2, <2>3
  <1>31. ASSUME NEW t \in Tick, TickCompletes(t)  PROVE PairingTypeOK'
    <2>1. tick[t].stage \in Stages /\ tick[t].secret \in Secret
      BY <1>31, GoingTick DEF TickCompletes, Stages
    <2>2. index' \in [secret : Secret, complete : BOOLEAN]
      BY <1>31, <1>4, <2>1 DEF TickCompletes
    <2> QED  BY <1>31, <1>f, <1>h, <1>i, <2>1, <2>2 DEF TickCompletes
  <1>32. ASSUME NEW t \in Tick, TickEnds(t)  PROVE PairingTypeOK'
    BY <1>32, <1>g, <1>i DEF TickEnds, Ends
  <1>33. ASSUME NEW t \in Tick, AdoptMachineIndexCapability(t)  PROVE PairingTypeOK'
    <2>1. tick[t] \in Going /\ tick[t].record <= watcher.records /\ tick[t].secret \in Secret
      BY <1>33, GoingTick DEF AdoptMachineIndexCapability, Stages
    <2>2. CASE /\ index' = [secret |-> tick[t].secret, complete |-> FALSE]
               /\ tick' = [tick EXCEPT ![t].stage = "joined"]
      <3>1. [tick[t] EXCEPT !.stage = "joined"] \in Going
               /\ [tick[t] EXCEPT !.stage = "joined"].record = tick[t].record
        BY <2>1 DEF Going, Stages
      <3>2. tick' = [tick EXCEPT ![t] = [tick[t] EXCEPT !.stage = "joined"]]
        BY <2>2
      <3>3. index' \in [secret : Secret, complete : BOOLEAN]
        BY <2>1, <2>2
      <3> QED  BY <1>33, <1>f, <1>i, <2>1, <3>1, <3>2, <3>3 DEF AdoptMachineIndexCapability
    <2>3. CASE Ends(t) /\ UNCHANGED index
      BY <1>33, <1>g, <1>i, <2>3 DEF AdoptMachineIndexCapability, Ends
    <2> QED  BY <1>33, <2>2, <2>3 DEF AdoptMachineIndexCapability
  <1>34. ASSUME NEW t \in Tick, NEW b \in Page, VerifyPairingProof(t, b)  PROVE PairingTypeOK'
    <2>1. tick[t] \in Going /\ tick[t].record <= watcher.records
      BY <1>34, GoingTick DEF VerifyPairingProof, Stages
    <2>2. Verified(b) \in Stages
      BY DEF Verified, Stages
    <2> DEFINE seen == IF Verified(b) = "wrong" THEN window ELSE Shut
               g == [tick[t] EXCEPT !.left = @ \ {b}, !.for = {b}, !.stage = Verified(b),
                                    !.seen = seen]
    <2>3. seen \in Window
      BY <1>5, <1>i
    <2>4. tick' = [tick EXCEPT ![t] = g]
      BY <1>34 DEF VerifyPairingProof
    <2> HIDE DEF seen
    <2>5. g \in Going /\ g.record = tick[t].record
      BY <2>1, <2>2, <2>3 DEF Going
    <2>6. /\ watcher' \in Watcher /\ watcher'.records = watcher.records
          /\ watcher'.network = watcher.network /\ watcher'.followed = watcher.followed
          /\ watcher'.requests = watcher.requests
      BY <1>34, <1>i DEF VerifyPairingProof, Watcher
    <2>7. UNCHANGED <<index, minted, window, windows, phraseOf, stored, answered, acks, taken, link>>
      BY <1>34 DEF VerifyPairingProof
    <2>8. g.record <= watcher.records
      BY <2>1, <2>5
    <2> HIDE DEF g
    <2> QED  BY <1>f, <1>i, <2>4, <2>5, <2>6, <2>7, <2>8
  <1>35. ASSUME NEW t \in Tick, NEW b \in Page, IndexIsOffered(t, b)  PROVE PairingTypeOK'
    <2> DEFINE stage == IF Verified(b) = "answer" THEN "adopt" ELSE "wrong"
               seen == IF Verified(b) = "wrong" THEN window ELSE Shut
    <2>1. PICK secret \in stored[b] : tick' = [tick EXCEPT ![t] =
                [Begun({}, secret) EXCEPT !.stage = stage, !.seen = seen]]
      BY <1>35 DEF IndexIsOffered
    <2>2. secret \in Secret
      BY DEF PairingTypeOK
    <2>3. Begun({}, secret) \in Going /\ Begun({}, secret).record = 0
      BY <2>2, BegunTypes
    <2>4. seen \in Window /\ stage \in {"adopt", "wrong"}
      BY <1>5, <1>i
    <2> DEFINE g == [Begun({}, secret) EXCEPT !.stage = stage, !.seen = seen]
    <2> HIDE DEF stage, seen
    <2>5. g \in Going /\ g.record = 0
      BY <2>3, <2>4 DEF Going, Stages
    <2>6. g.record <= watcher.records /\ tick' = [tick EXCEPT ![t] = g]
      BY <1>a, <2>1, <2>5
    <2>7. UNCHANGED <<index, minted, window, windows, phraseOf, stored, answered, acks, watcher,
                      taken, link>>
      BY <1>35 DEF IndexIsOffered
    <2> HIDE DEF g
    <2> QED  BY <1>f, <1>i, <2>5, <2>6, <2>7
  <1>36. CASE UNCHANGED pairvars
    BY <1>36 DEF pairvars, PairingTypeOK
  <1> QED
    BY <1>6, <1>7, <1>8, <1>9, <1>10, <1>11, <1>12, <1>13, <1>14, <1>15, <1>16, <1>17, <1>18,
       <1>19, <1>20, <1>21, <1>22, <1>23, <1>24, <1>25, <1>26, <1>27, <1>28, <1>29, <1>30, <1>31,
       <1>32, <1>33, <1>34, <1>35, <1>36
       DEF PairingNext

(***************************************************************************)
(* What is put down as paired is stored.  A tick puts it down once its record *)
(* is acknowledged: Answers says that the record is then of the one browser   *)
(* that it answers, which has stored the secret, and Requested why no two      *)
(* browsers, nor two requests of a browser, come to share a record.           *)
(***************************************************************************)
IsStored(secret) == \E b \in Page : secret \in stored[b]
Sealed ==
    /\ index.complete => IsStored(index.secret)
    /\ \A t \in Tick : tick[t].stage \in {"close", "complete"} => IsStored(tick[t].secret)
    /\ link.stage \in {"stored", "complete"} => IsStored(link.secret)

Answering(t, b) == tick[t].stage \in {"answer", "approve"} /\ tick[t].for = {b}
Approves(t, b) == tick[t].stage = "approve" /\ tick[t].for = {b}
Answers ==
    /\ \A t \in Tick, b \in Page : Answering(t, b) => b \in watcher.offered
    /\ \A t, u \in Tick, b \in Page : Answering(t, b) /\ Answering(u, b) => t = u
    /\ \A t \in Tick, b \in Page :
          Answering(t, b) /\ tick[t].stage = "answer" /\ watcher.requests[b] # 0 => b \notin answered
    /\ \A t \in Tick, b \in Page :
          Approves(t, b) /\ (b \in answered \/ tick[t].record \in taken) => tick[t].secret \in stored[b]
    /\ \A t \in Tick, b, c \in Page :
          Approves(t, b) /\ tick[t].record = watcher.requests[c] /\ watcher.requests[c] # 0 => c = b

Requested ==
    /\ \A b, c \in Page : watcher.requests[b] # 0 /\ watcher.requests[b] = watcher.requests[c] => b = c
    /\ \A b \in Page : watcher.requests[b] # 0 /\ b \notin watcher.offered => b \notin answered
    /\ \A b \in Page : watcher.requests[b] # 0 /\ watcher.requests[b] \in taken => b \in answered

PairingInv == PairingTypeOK /\ Sealed /\ Answers /\ Requested

LEMMA PairingInitially == PairingInit => PairingInv
  <1> SUFFICES ASSUME PairingInit  PROVE PairingInv
    OBVIOUS
  <1>1. /\ 0 \in 0..MaxWindows /\ 0 \in 0..MaxRecords /\ 0 \in 0..MaxStops /\ 0 \in 0..MaxLinks
        /\ 0 \in 0..MaxAttempts /\ 0 \in Secret /\ 1 \in Secret /\ 1 \in 1..MaxSecrets
        /\ 0 \in 0..PAIRING_MAX_FAILURES - 1
    BY PairingAssumption DEF Secret
  <1>2. index \in [secret : Secret, complete : BOOLEAN] /\ minted \in 1..MaxSecrets
           /\ window \in Window /\ windows \in 0..MaxWindows
    BY <1>1 DEF PairingInit, Window, Shut
  <1>3. /\ phraseOf \in [Page -> 0..MaxWindows] /\ stored \in [Page -> SUBSET Secret]
        /\ answered = {} /\ acks = {} /\ taken = {}
    BY <1>1 DEF PairingInit
  <1>4. /\ watcher \in Watcher /\ watcher.network = 0 /\ watcher.records = 0
        /\ watcher.requests = [b \in Page |-> 0]
    BY <1>1 DEF PairingInit, Started, Watcher
  <1>5. link \in Link /\ link.stage = "none"
    BY <1>1 DEF PairingInit, NoLink, Link
  <1>6. tick = [t \in Tick |-> NoTick] /\ NoTick.stage = "none" /\ ~index.complete
    BY DEF PairingInit, NoTick
  <1>7. PairingTypeOK
    BY <1>2, <1>3, <1>4, <1>5, <1>6 DEF PairingTypeOK
  <1> QED
    BY <1>3, <1>4, <1>5, <1>6, <1>7
       DEF PairingInv, Sealed, Answers, Requested, Answering, Approves

LEMMA PairingFunctions ==
    ASSUME PairingTypeOK
    PROVE  /\ tick \in [Tick -> {NoTick} \cup Going] /\ stored \in [Page -> SUBSET Secret]
           /\ watcher \in Watcher /\ watcher.requests \in [Page -> 0..MaxRecords]
           /\ NoTick.stage = "none"
  BY DEF PairingTypeOK, Watcher, NoTick

\* What a step does to the requests that no browser is behind: it may forget them.
Forgets ==
    /\ \A b \in Page : watcher'.requests[b] \in {0, watcher.requests[b]}
    /\ watcher.offered \subseteq watcher'.offered
    /\ UNCHANGED <<answered, taken>>
IndexSealed == index'.complete => \E b \in Page : index'.secret \in stored'[b]
LinkSealed == link'.stage \in {"stored", "complete"} => \E b \in Page : link'.secret \in stored'[b]

LEMMA RequestsForgotten == ASSUME Requested, Forgets  PROVE Requested'
  BY DEF Requested, Forgets

\* Steps beside the ticks.
LEMMA Standing ==
    ASSUME PairingInv, Forgets, tick' = tick, \A b \in Page : stored[b] \subseteq stored'[b],
           IndexSealed, LinkSealed
    PROVE  Sealed' /\ Answers' /\ Requested'
  <1>1. Requested'
    BY RequestsForgotten DEF PairingInv
  <1>2. Sealed'
    BY DEF PairingInv, Sealed, IsStored, IndexSealed, LinkSealed
  <1>3. Answers'
    BY DEF PairingInv, Answers, Answering, Approves, Forgets
  <1> QED  BY <1>1, <1>2, <1>3

\* Steps that start the watcher anew.
LEMMA Restarting ==
    ASSUME tick' = [t \in Tick |-> NoTick], watcher'.requests = [b \in Page |-> 0],
           IndexSealed, LinkSealed
    PROVE  Sealed' /\ Answers' /\ Requested'
  <1>1. NoTick.stage = "none"
    BY DEF NoTick
  <1> QED
    BY <1>1 DEF Sealed, Answers, Requested, Answering, Approves, IsStored, IndexSealed, LinkSealed

\* Steps of one tick, after which it answers nobody.
LEMMA Moving ==
    ASSUME PairingInv, Forgets, NEW t \in Tick, NEW g, tick' = [tick EXCEPT ![t] = g],
           g.stage \notin {"answer", "approve"}, UNCHANGED <<stored, link>>, IndexSealed,
           g.stage \in {"close", "complete"} => \E b \in Page : g.secret \in stored[b]
    PROVE  Sealed' /\ Answers' /\ Requested'
  <1>1. Requested'
    BY RequestsForgotten DEF PairingInv
  <1>2. \A u \in Tick : tick'[u] = IF u = t THEN g ELSE tick[u]
    BY PairingFunctions DEF PairingInv
  <1>3. Sealed'
    BY <1>2 DEF PairingInv, Sealed, IsStored, IndexSealed
  <1>4. Answers'
    BY <1>2 DEF PairingInv, Answers, Answering, Approves, Forgets
  <1> QED  BY <1>1, <1>3, <1>4

LEMMA IndexKept ==
    ASSUME PairingInv, index' = index, \A b \in Page : stored[b] \subseteq stored'[b]
    PROVE  IndexSealed
  BY DEF PairingInv, Sealed, IsStored, IndexSealed

LEMMA LinkKept ==
    ASSUME PairingInv, link' = link, \A b \in Page : stored[b] \subseteq stored'[b]
    PROVE  LinkSealed
  BY DEF PairingInv, Sealed, IsStored, LinkSealed

LEMMA IndexPut ==
    ASSUME PairingInv, NEW secret, CompleteDashboardPairing(secret), IsStored(secret),
           stored' = stored
    PROVE  IndexSealed
  <1>1. index \in [secret : Secret, complete : BOOLEAN]
    BY DEF PairingInv, PairingTypeOK
  <1> QED
    BY <1>1 DEF CompleteDashboardPairing, PairingInv, Sealed, IsStored, IndexSealed

LEMMA IndexClaimed ==
    ASSUME NEW rotate, ClaimDashboardPairing(rotate)  PROVE IndexSealed
  BY DEF ClaimDashboardPairing, IndexSealed

LEMMA LinkIssued == ASSUME NEW mode, Issue(mode)  PROVE LinkSealed
  BY DEF Issue, NoLink, LinkSealed

\* The steps beside the ticks.
LEMMA CommandsKeep ==
    ASSUME PairingInv,
           \/ RotateMachineIndexSecret \/ OfferPairing \/ WindowRunsOut \/ FollowWindow
           \/ StopWatcher \/ PairCommand \/ LinkIsAcknowledged \/ LinkCompletes \/ LinkFails
           \/ PairCommandEnds
           \/ \E p \in Phrase : ResponderStarts(p)
           \/ \E b \in Page : PhraseIsGiven(b) \/ Pending(b) \/ LinkIsClaimed(b) \/ LinkIsStored(b)
           \/ UNCHANGED pairvars
    PROVE  Sealed' /\ Answers' /\ Requested'
  <1>0. watcher \in Watcher /\ watcher.requests \in [Page -> 0..MaxRecords] /\ link \in Link
           /\ stored \in [Page -> SUBSET Secret]
    BY PairingFunctions DEF PairingInv, PairingTypeOK
  <1>a. ASSUME Forgets, UNCHANGED <<tick, stored, index, link>>
        PROVE  Sealed' /\ Answers' /\ Requested'
    BY <1>a, Standing, IndexKept, LinkKept
  <1>b. ASSUME UNCHANGED <<watcher, answered, taken>>  PROVE Forgets
    BY <1>b DEF Forgets
  <1>1. CASE RotateMachineIndexSecret
    BY <1>1, <1>b, Standing, IndexClaimed, LinkKept DEF RotateMachineIndexSecret
  <1>2. CASE OfferPairing
    BY <1>2, <1>a, <1>b DEF OfferPairing
  <1>3. CASE WindowRunsOut
    BY <1>3, <1>a, <1>b DEF WindowRunsOut
  <1>4. CASE FollowWindow
    <2>1. Forgets
      BY <1>0, <1>4 DEF FollowWindow, Forgets, Watcher
    <2> QED  BY <1>4, <1>a, <2>1 DEF FollowWindow
  <1>5. CASE StopWatcher
    <2>1. Forgets
      BY <1>0, <1>5 DEF StopWatcher, Forgets, Watcher
    <2> QED  BY <1>5, <1>a, <2>1 DEF StopWatcher
  <1>6. CASE PairCommand
    BY <1>6, <1>b, Standing, IndexClaimed, LinkIssued DEF PairCommand
  <1>7. CASE LinkIsAcknowledged
    <2>1. LinkSealed
      BY <1>0, <1>7 DEF LinkIsAcknowledged, LinkSealed, PairingInv, Sealed, IsStored, Link
    <2> QED  BY <1>7, <1>b, <2>1, Standing, IndexKept DEF LinkIsAcknowledged
  <1>8. CASE LinkCompletes
    <2>1. LinkSealed
      BY <1>0, <1>8 DEF LinkCompletes, LinkSealed, Link
    <2>2. IndexSealed
      BY <1>8, IndexPut DEF LinkCompletes, PairingInv, Sealed
    <2> QED  BY <1>8, <1>b, <2>1, <2>2, Standing DEF LinkCompletes
  <1>9. CASE LinkFails
    <2>1. CASE link.mode = "again"
      BY <1>9, <1>b, <2>1, Standing, IndexClaimed, LinkIssued DEF LinkFails
    <2>2. CASE link.mode # "again"
      <3>1. LinkSealed
        BY <1>0, <1>9, <2>2 DEF LinkFails, LinkSealed, Link
      <3> QED  BY <1>9, <1>b, <2>2, <3>1, Standing, IndexKept DEF LinkFails
    <2> QED  BY <2>1, <2>2
  <1>10. CASE PairCommandEnds
    <2>1. LinkSealed
      BY <1>0, <1>10 DEF PairCommandEnds, LinkSealed, PairingInv, Sealed, IsStored, Link
    <2> QED  BY <1>10, <1>b, <2>1, Standing, IndexKept DEF PairCommandEnds
  <1>11. ASSUME NEW p \in Phrase, ResponderStarts(p)  PROVE Sealed' /\ Answers' /\ Requested'
    <2>1. Forgets
      BY <1>0, <1>11 DEF ResponderStarts, Forgets, Watcher
    <2> QED  BY <1>11, <1>a, <2>1 DEF ResponderStarts
  <1>12. ASSUME NEW b \in Page, PhraseIsGiven(b)  PROVE Sealed' /\ Answers' /\ Requested'
    BY <1>12, <1>a, <1>b DEF PhraseIsGiven
  <1>13. ASSUME NEW b \in Page, Pending(b)  PROVE Sealed' /\ Answers' /\ Requested'
    <2>1. Forgets
      BY <1>0, <1>13 DEF Pending, Forgets, Watcher
    <2> QED  BY <1>13, <1>a, <2>1 DEF Pending
  <1>14. ASSUME NEW b \in Page, LinkIsClaimed(b)  PROVE Sealed' /\ Answers' /\ Requested'
    <2>1. LinkSealed
      BY <1>0, <1>14 DEF LinkIsClaimed, LinkSealed, Link
    <2> QED  BY <1>14, <1>b, <2>1, Standing, IndexKept DEF LinkIsClaimed
  <1>15. ASSUME NEW b \in Page, LinkIsStored(b)  PROVE Sealed' /\ Answers' /\ Requested'
    <2>1. (\A c \in Page : stored[c] \subseteq stored'[c]) /\ link.secret \in stored'[b]
      BY <1>0, <1>15 DEF LinkIsStored
    <2>2. LinkSealed
      BY <1>0, <1>15, <2>1 DEF LinkIsStored, LinkSealed, Link
    <2> QED  BY <1>15, <1>b, <2>1, <2>2, Standing, IndexKept DEF LinkIsStored
  <1>16. CASE UNCHANGED pairvars
    BY <1>16, <1>a, <1>b DEF pairvars
  <1> QED
    BY <1>1, <1>2, <1>3, <1>4, <1>5, <1>6, <1>7, <1>8, <1>9, <1>10, <1>11, <1>12, <1>13, <1>14,
       <1>15, <1>16

\* A browser asks: its record is a new one, and it was not answered.
LEMMA AnnounceKeeps ==
    ASSUME PairingInv, NEW b \in Page, Announce(b)  PROVE Sealed' /\ Answers' /\ Requested'
  <1>1. /\ UNCHANGED <<index, stored, answered, taken, tick, link>>
        /\ watcher.requests[b] = 0 /\ b \notin answered
    BY DEF Announce, Asks
  <1>2. watcher'.offered = watcher.offered
           /\ watcher'.requests = [watcher.requests EXCEPT ![b] = watcher.records + 1]
    BY PairingFunctions DEF Announce, PairingInv, Watcher
  <1>3. \A c \in Page : watcher'.requests[c] = IF c = b THEN watcher.records + 1 ELSE watcher.requests[c]
    BY <1>2, PairingFunctions DEF PairingInv
  <1>4. /\ watcher.records \in Nat /\ taken \subseteq 1..watcher.records
        /\ \A c \in Page : watcher.requests[c] \in Nat /\ watcher.requests[c] <= watcher.records
    BY PairingFunctions, PairingAssumption DEF PairingInv, PairingTypeOK, Watcher
  <1>5. \A t \in Tick : tick[t].stage \in Stages => tick[t].record \in Nat /\ tick[t].record <= watcher.records
    BY GoingTick, PairingAssumption DEF PairingInv
  <1>6. Sealed'
    BY <1>1 DEF PairingInv, Sealed, IsStored
  <1>7. Requested'
    BY <1>1, <1>2, <1>3, <1>4 DEF PairingInv, Requested
  <1>8. Answers'
    BY <1>1, <1>2, <1>3, <1>4, <1>5 DEF PairingInv, Answers, Answering, Approves, Stages
  <1> QED  BY <1>6, <1>7, <1>8

\* The browser stores what its one tick sealed for it.
LEMMA BrowserStoresKeeps ==
    ASSUME PairingInv, NEW b \in Page, BrowserStores(b)  PROVE Sealed' /\ Answers' /\ Requested'
  <1>1. PICK t \in Tick : Approves(t, b) /\ stored' = [stored EXCEPT ![b] = @ \cup {tick[t].secret}]
    BY DEF BrowserStores, Approves
  <1>2. answered' = answered \cup {b} /\ UNCHANGED <<index, watcher, taken, tick, link>>
    BY DEF BrowserStores
  <1>3. (\A c \in Page : stored[c] \subseteq stored'[c]) /\ tick[t].secret \in stored'[b]
    BY <1>1, PairingFunctions DEF PairingInv
  <1>4. b \in watcher.offered /\ \A u \in Tick : Answering(u, b) => u = t
    BY <1>1 DEF PairingInv, Answers, Answering, Approves
  <1>5. Sealed'
    BY <1>2, <1>3 DEF PairingInv, Sealed, IsStored
  <1>6. Requested'
    BY <1>2, <1>4 DEF PairingInv, Requested
  <1>7. Answers'
    <2>1. \A u \in Tick, c \in Page : Answering(u, c)' <=> Answering(u, c)
      BY <1>2 DEF Answering
    <2>2. \A u \in Tick, c \in Page : Approves(u, c)' <=> Approves(u, c)
      BY <1>2 DEF Approves
    <2>3. \A u \in Tick, c \in Page : Approves(u, c) => Answering(u, c)
      BY DEF Approves, Answering
    <2>4. ASSUME NEW u \in Tick, NEW c \in Page, Approves(u, c),
                 c \in answered' \/ tick[u].record \in taken
          PROVE  tick[u].secret \in stored'[c]
      BY <1>2, <1>3, <1>4, <2>3, <2>4 DEF PairingInv, Answers
    <2>5. ASSUME NEW u \in Tick, NEW c \in Page, Answering(u, c), tick[u].stage = "answer",
                 watcher.requests[c] # 0
          PROVE  c \notin answered'
      BY <1>1, <1>2, <1>4, <2>5 DEF PairingInv, Answers, Approves
    <2> QED  BY <1>2, <2>1, <2>2, <2>4, <2>5 DEF PairingInv, Answers
  <1> QED  BY <1>5, <1>6, <1>7

\* What is acknowledged is the record of a browser that was answered.
LEMMA AcceptedKeeps ==
    ASSUME PairingInv, NEW b \in Page, AcceptedArrives(b)  PROVE Sealed' /\ Answers' /\ Requested'
  <1>1. /\ UNCHANGED <<index, stored, answered, watcher, tick, link>> /\ b \in answered
        /\ taken \subseteq taken' /\ taken' \subseteq taken \cup ({watcher.requests[b]} \ {0})
    BY DEF AcceptedArrives, PairingInv, PairingTypeOK
  <1>2. Sealed'
    BY <1>1 DEF PairingInv, Sealed, IsStored
  <1>3. Requested'
    BY <1>1 DEF PairingInv, Requested
  <1>4. ASSUME NEW t \in Tick, NEW c \in Page, Approves(t, c),
               c \in answered \/ tick[t].record \in taken'
        PROVE  tick[t].secret \in stored[c]
    <2>1. CASE c \in answered \/ tick[t].record \in taken
      BY <1>4, <2>1 DEF PairingInv, Answers
    <2>2. CASE tick[t].record = watcher.requests[b] /\ watcher.requests[b] # 0
      BY <1>1, <1>4, <2>2 DEF PairingInv, Answers
    <2> QED  BY <1>1, <1>4, <2>1, <2>2
  <1>5. Answers'
    BY <1>1, <1>4 DEF PairingInv, Answers, Answering, Approves
  <1> QED  BY <1>2, <1>3, <1>5

LEMMA RestartsKeep ==
    ASSUME PairingInv, StartWatcher \/ PairDashboardCommand
    PROVE  Sealed' /\ Answers' /\ Requested'
  <1>1. ASSUME watcher' = [Started(watcher.records) EXCEPT !.stops = watcher.stops]
        PROVE  watcher'.requests = [b \in Page |-> 0]
    BY <1>1 DEF Started
  <1>2. CASE StartWatcher
    BY <1>1, <1>2, Restarting, IndexKept, LinkKept DEF StartWatcher
  <1>3. CASE PairDashboardCommand
    BY <1>1, <1>3, Restarting, IndexClaimed, LinkIssued DEF PairDashboardCommand
  <1> QED  BY <1>2, <1>3

\* A tick that takes up a browser's request: no other answers it, as none is answered twice.
LEMMA VerifyKeeps ==
    ASSUME PairingInv, NEW t \in Tick, NEW b \in Page, VerifyPairingProof(t, b)
    PROVE  Sealed' /\ Answers' /\ Requested'
  <1>1. tick[t] \in Going
    BY GoingTick DEF VerifyPairingProof, PairingInv, Stages
  <1>2. PICK g : tick' = [tick EXCEPT ![t] = g] /\ g.stage = Verified(b) /\ g.for = {b}
    <2> DEFINE h == [tick[t] EXCEPT !.left = @ \ {b}, !.for = {b}, !.stage = Verified(b),
                                    !.seen = IF Verified(b) = "wrong" THEN window ELSE Shut]
    <2>1. tick' = [tick EXCEPT ![t] = h]
      BY DEF VerifyPairingProof
    <2>2. h.stage = Verified(b) /\ h.for = {b}
      BY <1>1 DEF Going
    <2> HIDE DEF h
    <2> QED  BY <2>1, <2>2
  <1>3. Verified(b) \in {"next", "answer", "wrong"}
    BY DEF Verified
  <1>4. Forgets /\ watcher'.requests = watcher.requests /\ b \in watcher'.offered
           /\ watcher'.offered = watcher.offered \cup {b}
    BY PairingFunctions DEF VerifyPairingProof, Forgets, Watcher, PairingInv
  <1>5. b \notin watcher.offered /\ UNCHANGED <<index, stored, answered, taken, link>>
    BY DEF VerifyPairingProof
  <1>6. \A u \in Tick : tick'[u] = IF u = t THEN g ELSE tick[u]
    BY <1>2, PairingFunctions DEF PairingInv
  <1>7. Requested'
    BY <1>4, RequestsForgotten DEF PairingInv
  <1>8. Sealed'
    BY <1>2, <1>3, <1>5, <1>6 DEF PairingInv, Sealed, IsStored
  <1>9. /\ \A u \in Tick, c \in Page : Answering(u, c)' => IF u = t THEN c = b ELSE Answering(u, c)
        /\ \A u \in Tick, c \in Page : Approves(u, c)' => u # t /\ Approves(u, c)
    BY <1>2, <1>3, <1>6 DEF Answering, Approves
  <1>10. b \notin answered \/ watcher.requests[b] = 0
    BY <1>5 DEF PairingInv, Requested
  <1>11. \A u \in Tick : ~Answering(u, b)
    BY <1>5 DEF PairingInv, Answers
  <1>12. Answers'
    BY <1>4, <1>5, <1>6, <1>9, <1>10, <1>11 DEF PairingInv, Answers
  <1> QED  BY <1>7, <1>8, <1>12

\* It seals the browser the secret, if its request is not forgotten.
LEMMA ApproveBeginsKeeps ==
    ASSUME PairingInv, NEW t \in Tick, ApproveBegins(t)  PROVE Sealed' /\ Answers' /\ Requested'
  <1>1. tick[t] \in Going /\ tick[t].stage = "answer"
    BY GoingTick DEF ApproveBegins, PairingInv, Stages
  <1>2. PICK b \in Page : tick[t].for = {b}
    BY <1>1 DEF Going
  <1>3. UNCHANGED <<index, stored, answered, watcher, taken, link>>
    BY DEF ApproveBegins
  <1>4. Forgets
    BY <1>3 DEF Forgets
  <1>5. CASE Ends(t)
    <2>1. NoTick.stage = "none"
      BY DEF NoTick
    <2> QED  BY <1>3, <1>4, <1>5, <2>1, Moving, IndexKept DEF Ends
  <1>6. CASE /\ watcher.requests[b] # 0
             /\ tick' = [tick EXCEPT ![t].stage = "approve", ![t].net = watcher.network,
                                     ![t].record = watcher.requests[b]]
    <2>1. PICK g : /\ tick' = [tick EXCEPT ![t] = g] /\ g.stage = "approve" /\ g.for = {b}
                   /\ g.record = watcher.requests[b] /\ g.secret = tick[t].secret
      <3> DEFINE h == [tick[t] EXCEPT !.stage = "approve", !.net = watcher.network,
                                      !.record = watcher.requests[b]]
      <3>1. tick' = [tick EXCEPT ![t] = h]
        BY <1>6
      <3>2. h.stage = "approve" /\ h.for = {b} /\ h.record = watcher.requests[b]
               /\ h.secret = tick[t].secret
        BY <1>1, <1>2 DEF Going
      <3> HIDE DEF h
      <3> QED  BY <3>1, <3>2
    <2>2. \A u \in Tick : tick'[u] = IF u = t THEN g ELSE tick[u]
      BY <2>1, PairingFunctions DEF PairingInv
    <2>3. Answering(t, b) /\ b \notin answered
      BY <1>1, <1>2, <1>6 DEF PairingInv, Answers, Answering
    <2>4. watcher.requests[b] \notin taken
      BY <1>6, <2>3 DEF PairingInv, Requested
    <2>5. \A c \in Page : watcher.requests[c] = watcher.requests[b] => c = b
      BY <1>6 DEF PairingInv, Requested
    <2>6. Requested'
      BY <1>4, RequestsForgotten DEF PairingInv
    <2>7. Sealed'
      BY <1>3, <2>1, <2>2 DEF PairingInv, Sealed, IsStored
    <2>8. /\ \A u \in Tick, c \in Page : Answering(u, c)' => Answering(u, c)
          /\ \A u \in Tick, c \in Page : Approves(u, c)' => IF u = t THEN c = b ELSE Approves(u, c)
      BY <1>1, <1>2, <2>1, <2>2 DEF Answering, Approves
    <2>9. Answers'
      BY <1>3, <2>1, <2>2, <2>3, <2>4, <2>5, <2>8 DEF PairingInv, Answers
    <2> QED  BY <2>6, <2>7, <2>9
  <1> QED  BY <1>2, <1>5, <1>6 DEF ApproveBegins

\* What is acknowledged is stored by the browser that the tick answers.
LEMMA ConfirmedIsStored ==
    ASSUME PairingInv, NEW t \in Tick, tick[t].stage = "approve", Confirmed(t)
    PROVE  IsStored(tick[t].secret)
  <1>1. tick[t] \in Going
    BY GoingTick DEF PairingInv, Stages
  <1>2. PICK b \in Page : tick[t].for = {b}
    BY <1>1 DEF Going
  <1> QED  BY <1>2 DEF PairingInv, Answers, Approves, Confirmed, IsStored

\* The other steps of the ticks.
LEMMA TicksKeep ==
    ASSUME PairingInv, NEW t \in Tick,
           \/ TickBegins(t) \/ CountFailure(t) \/ ApproveEnds(t) \/ ClosePairingWindow(t)
           \/ TickCompletes(t) \/ TickEnds(t) \/ AdoptMachineIndexCapability(t)
           \/ \E b \in Page : IndexIsOffered(t, b)
    PROVE  Sealed' /\ Answers' /\ Requested'
  <1> DEFINE Still == {"next", "wrong", "adopt", "joined", "none"}
  <1>a. ASSUME NEW g, tick' = [tick EXCEPT ![t] = g], g.stage \in Still,
               Forgets, UNCHANGED <<stored, link>>, IndexSealed
        PROVE  Sealed' /\ Answers' /\ Requested'
    BY <1>a, Moving
  <1>b. ASSUME UNCHANGED <<watcher, answered, taken>>  PROVE Forgets
    BY <1>b DEF Forgets
  <1>c. NoTick.stage = "none" /\ \A left, secret : Begun(left, secret).stage = "next"
    BY DEF NoTick, Begun
  <1>d. ASSUME GoesOn(t), Forgets, UNCHANGED <<stored, link>>, IndexSealed
        PROVE  Sealed' /\ Answers' /\ Requested'
    BY <1>a, <1>c, <1>d DEF GoesOn
  <1>e. ASSUME Ends(t), Forgets, UNCHANGED <<stored, link>>, IndexSealed
        PROVE  Sealed' /\ Answers' /\ Requested'
    BY <1>a, <1>c, <1>e DEF Ends
  <1>f. ASSUME UNCHANGED <<index, stored>>  PROVE IndexSealed
    BY <1>f, IndexKept
  <1>g. tick[t] = NoTick \/ tick[t] \in Going
    BY PairingFunctions DEF PairingInv
  <1>1. CASE TickBegins(t)
    <2>1. tick' = [tick EXCEPT ![t] = Begun(Waiting, index.secret)]
             /\ UNCHANGED <<index, stored, answered, watcher, taken, link>>
      BY <1>1 DEF TickBegins
    <2>2. Begun(Waiting, index.secret).stage = "next"
      BY <1>c
    <2> QED  BY <1>a, <1>b, <1>f, <2>1, <2>2
  <1>2. CASE CountFailure(t)
    BY <1>2, <1>b, <1>d, <1>f DEF CountFailure
  <1>3. CASE ApproveEnds(t)
    <2>1. UNCHANGED <<index, stored, answered, taken, link>> /\ tick[t].stage = "approve"
      BY <1>3 DEF ApproveEnds
    <2>2. Forgets
      <3> DEFINE q == [b \in Page |-> IF b \in tick[t].for THEN 0 ELSE watcher.requests[b]]
      <3>1. \A b \in Page : q[b] \in {0, watcher.requests[b]}
        OBVIOUS
      <3>2. watcher' = watcher \/ watcher' = [watcher EXCEPT !.requests = q]
        BY <1>3 DEF ApproveEnds
      <3> HIDE DEF q
      <3>3. watcher'.offered = watcher.offered
               /\ (watcher'.requests = watcher.requests \/ watcher'.requests = q)
        BY <3>2, PairingFunctions DEF PairingInv, Watcher
      <3> QED  BY <2>1, <3>1, <3>3 DEF Forgets
    <2>3. CASE Confirmed(t)
      <3> DEFINE g == [Begun(tick[t].left, tick[t].secret) EXCEPT !.stage = "close"]
      <3>1. tick' = [tick EXCEPT ![t] = g]
        BY <1>3, <2>3 DEF ApproveEnds
      <3>2. g.stage = "close" /\ g.secret = tick[t].secret
        BY DEF Begun
      <3>3. \E b \in Page : g.secret \in stored[b]
        BY <2>1, <2>3, <3>2, ConfirmedIsStored DEF IsStored
      <3> HIDE DEF g
      <3> QED  BY <1>f, <2>1, <2>2, <3>1, <3>2, <3>3, Moving
    <2>4. CASE ~Confirmed(t)
      BY <1>3, <1>d, <1>f, <2>1, <2>2, <2>4 DEF ApproveEnds
    <2> QED  BY <2>3, <2>4
  <1>4. CASE ClosePairingWindow(t)
    <2>1. UNCHANGED <<index, stored, answered, watcher, taken, link>>
      BY <1>4 DEF ClosePairingWindow
    <2>2. CASE tick[t].stage = "close"
      <3> DEFINE g == [tick[t] EXCEPT !.stage = "complete"]
      <3>1. tick' = [tick EXCEPT ![t] = g]
        BY <1>4, <2>2 DEF ClosePairingWindow
      <3>2. g.stage = "complete" /\ g.secret = tick[t].secret
        BY <1>c, <1>g, <2>2 DEF Going
      <3>3. \E b \in Page : g.secret \in stored[b]
        BY <2>2, <3>2 DEF PairingInv, Sealed, IsStored
      <3> HIDE DEF g
      <3> QED  BY <1>b, <1>f, <2>1, <3>1, <3>2, <3>3, Moving
    <2>3. CASE tick[t].stage # "close"
      BY <1>4, <1>b, <1>e, <1>f, <2>1, <2>3 DEF ClosePairingWindow
    <2> QED  BY <2>2, <2>3
  <1>5. CASE TickCompletes(t)
    <2>1. UNCHANGED <<stored, answered, watcher, taken, link>> /\ tick[t].stage = "complete"
             /\ CompleteDashboardPairing(tick[t].secret) /\ GoesOn(t)
      BY <1>5 DEF TickCompletes
    <2>2. IsStored(tick[t].secret)
      BY <2>1 DEF PairingInv, Sealed
    <2>3. IndexSealed
      BY <2>1, <2>2, IndexPut
    <2> QED  BY <1>b, <1>d, <2>1, <2>3
  <1>6. CASE TickEnds(t)
    BY <1>6, <1>b, <1>e, <1>f DEF TickEnds
  <1>7. CASE AdoptMachineIndexCapability(t)
    <2>1. UNCHANGED <<stored, answered, watcher, taken, link>> /\ tick[t].stage = "adopt"
      BY <1>7 DEF AdoptMachineIndexCapability
    <2>2. CASE /\ index' = [secret |-> tick[t].secret, complete |-> FALSE]
               /\ tick' = [tick EXCEPT ![t].stage = "joined"]
      <3> DEFINE g == [tick[t] EXCEPT !.stage = "joined"]
      <3>1. tick' = [tick EXCEPT ![t] = g]
        BY <2>2
      <3>2. g.stage = "joined"
        BY <1>c, <1>g, <2>1 DEF Going
      <3>3. IndexSealed
        BY <2>2 DEF IndexSealed
      <3> HIDE DEF g
      <3> QED  BY <1>a, <1>b, <2>1, <3>1, <3>2, <3>3
    <2>3. CASE Ends(t) /\ UNCHANGED index
      BY <1>b, <1>e, <1>f, <2>1, <2>3
    <2> QED  BY <1>7, <2>2, <2>3 DEF AdoptMachineIndexCapability
  <1>8. ASSUME NEW b \in Page, IndexIsOffered(t, b)  PROVE Sealed' /\ Answers' /\ Requested'
    <2> DEFINE stage == IF Verified(b) = "answer" THEN "adopt" ELSE "wrong"
               seen == IF Verified(b) = "wrong" THEN window ELSE Shut
    <2>1. PICK secret \in stored[b] : tick' = [tick EXCEPT ![t] =
                [Begun({}, secret) EXCEPT !.stage = stage, !.seen = seen]]
      BY <1>8 DEF IndexIsOffered
    <2>2. stage \in {"adopt", "wrong"}
      OBVIOUS
    <2> DEFINE g == [Begun({}, secret) EXCEPT !.stage = stage, !.seen = seen]
    <2> HIDE DEF stage, seen
    <2>3. g.stage \in Still
      BY <2>2 DEF Begun
    <2>4. UNCHANGED <<index, stored, answered, watcher, taken, link>>
      BY <1>8 DEF IndexIsOffered
    <2> HIDE DEF g
    <2> QED  BY <1>a, <1>b, <1>f, <2>1, <2>3, <2>4 DEF g
  <1> QED  BY <1>1, <1>2, <1>3, <1>4, <1>5, <1>6, <1>7, <1>8

LEMMA PairingInvKept == PairingInv /\ [PairingNext]_pairvars => PairingInv'
  <1> SUFFICES ASSUME PairingInv, [PairingNext]_pairvars  PROVE PairingInv'
    OBVIOUS
  <1>1. Sealed' /\ Answers' /\ Requested'
    BY CommandsKeep, RestartsKeep, AnnounceKeeps, BrowserStoresKeeps, AcceptedKeeps, VerifyKeeps,
       ApproveBeginsKeeps, TicksKeep DEF PairingNext
  <1> QED  BY <1>1, PairingTypesKept DEF PairingInv

\* The variables of Pairing keep their types.
THEOREM PairingTypesHold == PairingSpec => []PairingTypeOK
  <1>1. PairingInit => PairingTypeOK
    BY PairingInitially DEF PairingInv
  <1> QED  BY <1>1, PairingTypesKept, PTL DEF PairingSpec

\* A machine whose index is put down as paired (machine-index.js, pairingComplete) has had the
\* secret of that very index stored by a browser: for any browsers, ticks that overlap,
\* windows, links and rotations.
THEOREM PairedIsStored == PairingSpec => []PairedMeansStored
  <1>1. PairingInv => PairedMeansStored
    BY DEF PairingInv, Sealed, IsStored, PairedMeansStored
  <1> QED  BY <1>1, PairingInitially, PairingInvKept, PTL DEF PairingSpec

-----------------------------------------------------------------------------
(***************************************************************************)
(* MCService: the four of them.                                             *)
(***************************************************************************)
ServiceInv == WatcherInv /\ TerminalInv /\ PairingInv /\ LanInv

\* Each aspect moves the variables of one of the four.
LEMMA ServiceMoves ==
    [MCNext]_<<part, vars, tvars, pairvars, lvars>> =>
        [Next]_vars /\ [TerminalNext]_tvars /\ [PairingNext]_pairvars /\ [LanNext]_lvars
  BY DEF MCNext

LEMMA ServiceInvKept ==
    ServiceInv /\ [MCNext]_<<part, vars, tvars, pairvars, lvars>> => ServiceInv'
  <1> SUFFICES ASSUME ServiceInv, [MCNext]_<<part, vars, tvars, pairvars, lvars>>
               PROVE  ServiceInv'
    OBVIOUS
  <1>1. WatcherInv'  BY ServiceMoves, WatcherNextKeeps DEF ServiceInv
  <1>2. TerminalInv'  BY ServiceMoves, TerminalNextKeeps DEF ServiceInv
  <1>3. PairingInv'  BY ServiceMoves, PairingInvKept DEF ServiceInv
  <1>4. LanInv'  BY ServiceMoves, LanTypesKept, GatheredKept DEF ServiceInv, LanInv
  <1> QED  BY <1>1, <1>2, <1>3, <1>4 DEF ServiceInv

\* The service, its terminals, its pairing and its approvals keep their types side by side,
\* in every aspect that TLC follows.
THEOREM ServiceTypesHold == MCSpec => []TypesOK
  <1>1. MCInit => ServiceInv
    BY WatcherBegins, TerminalBegins, PairingInitially, LanInitially DEF MCInit, ServiceInv
  <1>2. ServiceInv => TypesOK
    BY DEF ServiceInv, WatcherInv, TerminalInv, PairingInv, LanInv, TypesOK
  <1> QED  BY <1>1, <1>2, ServiceInvKept, PTL DEF MCSpec
=============================================================================
