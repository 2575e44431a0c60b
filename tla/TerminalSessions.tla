-------------------------- MODULE TerminalSessions --------------------------
(***************************************************************************)
(* The terminal of a machine (terminal-server.js): browsers open a session,   *)
(* type into it and read what its shell prints.  One server listens on the    *)
(* room of the machine and on those of its repositories; a frame may come     *)
(* over several of them, late, twice and in any order.                        *)
(*                                                                            *)
(* A shell counts what it prints after its start-up files: 1, 2, ...  A       *)
(* browser that is reached over the pairing mesh is a peer of its own         *)
(* (receiveRelayed).  Codings, sizes of windows and the text of errors are    *)
(* left out.                                                                  *)
(***************************************************************************)
EXTENDS Integers, Sequences, SequencesExt, FiniteSets

CONSTANTS
    SessionIds,     \* pairs of a browser and the session it names
    Repository,     \* the repositories the machine may serve
    MaxSessions,    \* MAX_SESSIONS
    MaxHeld,        \* READY_MAX_BYTES, in prints
    MaxBuffered,    \* MAX_OUTPUT_BYTES, in prints
    MaxShells,      \* bound: shells started
    MaxSequence,    \* bound: frames of a session
    MaxPrinted      \* bound: prints of a shell

ASSUME TerminalAssumption ==
    /\ "device" \notin Repository
    /\ {MaxSessions, MaxHeld, MaxBuffered, MaxShells, MaxSequence, MaxPrinted} \subseteq Nat
    /\ MaxHeld < MaxBuffered

VARIABLES
    serving,        \* started
    leases,         \* repositories: how many clones of each are served
    listening,      \* subscriptions: rooms
    sessions,       \* sessions: records, by id
    opening,        \* opening: what the open of each id is doing
    shells          \* every shell there has been, the last one last

tvars == <<serving, leases, listening, sessions, opening, shells>>

Browser(id) == id[1]
Rooms == {"device"} \cup {r \in Repository : leases[r] > 0}
Frame == [kind : {"ping", "input", "cwd", "close"}, sequence : 1 .. MaxSequence]

\* An accepted open: the shell and its state, as sessions holds them.
Session == [shell : 1 .. MaxShells, received : 0 .. MaxSequence, pending : Seq(Frame),
            ready : BOOLEAN, preamble : Seq(1 .. MaxPrinted), output : Seq(1 .. MaxPrinted),
            stale : BOOLEAN]

\* A shell and what has come of it: the last frame written to it, what it has
\* printed and what of it the browser was sent, whether the browser was told that it
\* is gone, and no error before that.
Shell == [alive : BOOLEAN, typed : 0 .. MaxSequence, printed : 0 .. MaxPrinted,
          marker : 0 .. MaxPrinted, sent : Seq(1 .. MaxPrinted), told : BOOLEAN]

TerminalTypeOK ==
    /\ serving \in BOOLEAN
    /\ leases \in [Repository -> Nat]
    /\ listening \subseteq {"device"} \cup Repository
    /\ DOMAIN sessions \subseteq SessionIds
    /\ \A id \in DOMAIN sessions : sessions[id] \in Session
    /\ opening \in [SessionIds -> [starting : Nat, telling : Nat]]
    /\ shells \in Seq(Shell)

TerminalInit ==
    /\ serving = FALSE
    /\ leases = [r \in Repository |-> 0]
    /\ listening = {}
    /\ sessions = <<>>
    /\ opening = [id \in SessionIds |-> [starting |-> 0, telling |-> 0]]
    /\ shells = <<>>

NewShell == [alive |-> TRUE, typed |-> 0, printed |-> 0, marker |-> 0, sent |-> <<>>, told |-> FALSE]
NewSession(n) == [shell |-> n, received |-> 0, pending |-> <<>>, ready |-> FALSE,
                  preamble |-> <<>>, output |-> <<>>, stale |-> FALSE]

-----------------------------------------------------------------------------
(* Sessions leave the table. *)

KillShells(ids, all) ==
    [n \in DOMAIN all |->
        IF \E id \in ids : sessions[id].shell = n THEN [all[n] EXCEPT !.alive = FALSE] ELSE all[n]]

\* #close of the sessions ids; all are the shells as the caller left them.
CloseAll(ids, all) ==
    /\ sessions' = [id \in DOMAIN sessions \ ids |-> sessions[id]]
    /\ shells' = KillShells(ids, all)

-----------------------------------------------------------------------------
(* The machine: what it serves, and whether. *)

AddRepository(r) ==
    /\ leases' = [leases EXCEPT ![r] = @ + 1]
    /\ listening' = IF serving THEN listening \cup {r} ELSE listening
    /\ UNCHANGED <<serving, sessions, opening, shells>>

\* The sessions that came over the room stay.
ReleaseRepository(r) ==
    /\ leases[r] > 0
    /\ leases' = [leases EXCEPT ![r] = @ - 1]
    /\ listening' = IF leases[r] = 1 THEN listening \ {r} ELSE listening
    /\ UNCHANGED <<serving, sessions, opening, shells>>

StartTerminal ==
    /\ ~serving
    /\ serving' = TRUE
    /\ listening' = Rooms
    /\ UNCHANGED <<leases, sessions, opening, shells>>

StopTerminal ==
    /\ serving
    /\ serving' = FALSE
    /\ listening' = {}
    /\ CloseAll(DOMAIN sessions, shells)
    /\ UNCHANGED <<leases, opening>>

-----------------------------------------------------------------------------
(* Opening a session. *)

InFlight(id) == opening[id].starting + opening[id].telling

\* Mutant of Opens: an open is only compared with the sessions there are.
OpensUnlessListed(id) == id \notin DOMAIN sessions /\ InFlight(id) < 2

Opens(id) == id \notin DOMAIN sessions /\ InFlight(id) = 0

\* The old sessions of the browser go, whatever becomes of the new one: it is
\* refused at the limit or for its roster, or the shell is awaited.
OpenFrame(id) ==
    /\ listening # {} /\ serving
    /\ Opens(id)
    /\ LET old == {i \in DOMAIN sessions : Browser(i) = Browser(id)}
       IN /\ CloseAll(old, shells)
          /\ \/ opening' = [opening EXCEPT ![id].telling = @ + 1]
             \/ /\ Cardinality(DOMAIN sessions \ old) < MaxSessions
                /\ opening' = [opening EXCEPT ![id].starting = @ + 1]
    /\ UNCHANGED <<serving, leases, listening>>

\* shellCommand, #workingDirectory and spawnPty have returned.  Nothing is looked
\* at again: neither the limit, nor the other sessions of the browser, nor serving.
ShellStarts(id) ==
    /\ opening[id].starting > 0 /\ Len(shells) < MaxShells
    /\ shells' = Append(shells, NewShell)
    /\ sessions' = [i \in DOMAIN sessions \cup {id} |->
                       IF i = id THEN NewSession(Len(shells) + 1) ELSE sessions[i]]
    /\ opening' = [opening EXCEPT ![id].starting = @ - 1, ![id].telling = @ + 1]
    /\ UNCHANGED <<serving, leases, listening>>

ShellFails(id) ==
    /\ opening[id].starting > 0
    /\ opening' = [opening EXCEPT ![id].starting = @ - 1, ![id].telling = @ + 1]
    /\ UNCHANGED <<serving, leases, listening, sessions, shells>>

\* The answer, opened or an error, was sent or could not be.
OpenAnswered(id) ==
    /\ opening[id].telling > 0
    /\ opening' = [opening EXCEPT ![id].telling = @ - 1]
    /\ UNCHANGED <<serving, leases, listening, sessions, shells>>

-----------------------------------------------------------------------------
(* What the browser sends. *)

\* A frame that is not newer than the last is dropped.  A ping is answered; a resize
\* or an input that is too long goes the same way; keystrokes and changes of the
\* directory wait for each other.
Receive(id, frame) ==
    /\ serving /\ listening # {}
    /\ id \in DOMAIN sessions
    /\ frame.sequence > sessions[id].received
    /\ IF frame.kind = "close"
         THEN CloseAll({id}, shells)
         ELSE /\ sessions' = [sessions EXCEPT
                    ![id].received = frame.sequence, ![id].stale = FALSE,
                    ![id].pending = IF frame.kind = "ping" THEN @ ELSE Append(@, frame)]
              /\ UNCHANGED shells
    /\ UNCHANGED <<serving, leases, listening, opening>>

\* Mutant of Due: what arrives while a directory is looked at does not wait for it.
DueAtOnce(id) == DOMAIN sessions[id].pending

\* The head of the queue is due: keystrokes are written at once, a directory when it
\* has been looked at, if it is there.
Due(id) == {1} \cap DOMAIN sessions[id].pending

TakePending(id) ==
    /\ id \in DOMAIN sessions
    /\ \E i \in Due(id) :
          LET frame == sessions[id].pending[i] IN
          /\ sessions' = [sessions EXCEPT ![id].pending = RemoveAt(@, i)]
          /\ \/ shells' = [shells EXCEPT ![sessions[id].shell].typed = frame.sequence]
             \/ frame.kind = "cwd" /\ UNCHANGED shells
    /\ UNCHANGED <<serving, leases, listening, opening>>

-----------------------------------------------------------------------------
(* What the shell prints. *)

\* #queueOutput of the session id, whose record is otherwise s: what exceeds the
\* buffer ends the session.  all are the shells.
Queue(id, s, prints, all) ==
    IF Len(s.output) + Len(prints) > MaxBuffered
      THEN CloseAll({id}, all)
      ELSE /\ sessions' = [sessions EXCEPT ![id] = [s EXCEPT !.output = @ \o prints]]
           /\ shells' = all

\* #releaseOutput: from now on nothing is held back.
Release(id, prints, all) ==
    Queue(id, [sessions[id] EXCEPT !.ready = TRUE, !.preamble = <<>>], prints, all)

Printed(n) == [shells EXCEPT ![n].printed = @ + 1]

\* Commands that were run are taken out of what is printed (#captureHistory, see
\* TerminalHistory).  #gateOutput holds the rest back until the marker, or until it
\* is too much.
Prints(id) ==
    /\ id \in DOMAIN sessions
    /\ LET n == sessions[id].shell
           print == shells[n].printed + 1
           s == sessions[id]
       IN /\ shells[n].printed < MaxPrinted
          /\ IF s.ready THEN Queue(id, s, <<print>>, Printed(n))
             ELSE IF Len(s.preamble) = MaxHeld
               THEN Release(id, Append(s.preamble, print), Printed(n))
             ELSE /\ sessions' = [sessions EXCEPT ![id].preamble = Append(@, print)]
                  /\ shells' = Printed(n)
    /\ UNCHANGED <<serving, leases, listening, opening>>

\* The marker that ends the start-up files, which no shell prints twice.
PrintsMarker(id) ==
    /\ id \in DOMAIN sessions
    /\ LET n == sessions[id].shell
       IN /\ shells[n].printed < MaxPrinted
          /\ shells[n].marker = 0 /\ ~sessions[id].ready
          /\ Release(id, <<>>, [Printed(n) EXCEPT ![n].marker = shells[n].printed + 1])
    /\ UNCHANGED <<serving, leases, listening, opening>>

\* A shell that prints no marker is shown after a while.
ReadyTimer(id) ==
    /\ id \in DOMAIN sessions /\ ~sessions[id].ready
    /\ Release(id, sessions[id].preamble, shells)
    /\ UNCHANGED <<serving, leases, listening, opening>>

Sent(id, all) == [all EXCEPT ![sessions[id].shell].sent = @ \o sessions[id].output]

\* #flushOutput, by its timer.
FlushOutput(id) ==
    /\ id \in DOMAIN sessions
    /\ sessions[id].output # <<>>
    /\ sessions' = [sessions EXCEPT ![id].output = <<>>]
    /\ shells' = Sent(id, shells)
    /\ UNCHANGED <<serving, leases, listening, opening>>

\* Mutant of ShellExits: what was buffered is left for the timer.
ShellExitsAtOnce(id) ==
    /\ id \in DOMAIN sessions
    /\ CloseAll({id}, [shells EXCEPT ![sessions[id].shell].told = TRUE])
    /\ UNCHANGED <<serving, leases, listening, opening>>

\* The shell ends by itself: what was held back and what was buffered goes first,
\* unless it exceeds the buffer, which ends the session there.
ShellExits(id) ==
    /\ id \in DOMAIN sessions
    /\ LET s == sessions[id]
           n == s.shell
           told(rest) == [shells EXCEPT ![n].sent = @ \o rest, ![n].told = TRUE]
       IN IF ~s.ready /\ Len(s.output) + Len(s.preamble) > MaxBuffered
            THEN CloseAll({id}, shells)
            ELSE CloseAll({id}, told(s.output \o s.preamble))
    /\ UNCHANGED <<serving, leases, listening, opening>>

-----------------------------------------------------------------------------
(* The browser is gone. *)

\* A slice of the output could not be sent.
SendFails(id) ==
    /\ id \in DOMAIN sessions
    /\ shells[sessions[id].shell].sent # <<>>
    /\ CloseAll({id}, shells)
    /\ UNCHANGED <<serving, leases, listening, opening>>

GrowsStale(id) ==
    /\ id \in DOMAIN sessions /\ ~sessions[id].stale
    /\ sessions' = [sessions EXCEPT ![id].stale = TRUE]
    /\ UNCHANGED <<serving, leases, listening, opening, shells>>

SweepSessions ==
    /\ serving
    /\ \E id \in DOMAIN sessions : sessions[id].stale
    /\ CloseAll({id \in DOMAIN sessions : sessions[id].stale}, shells)
    /\ UNCHANGED <<serving, leases, listening, opening>>

TerminalNext ==
    \/ StartTerminal \/ StopTerminal \/ SweepSessions
    \/ \E r \in Repository : AddRepository(r) \/ ReleaseRepository(r)
    \/ \E id \in SessionIds :
          \/ OpenFrame(id) \/ ShellStarts(id) \/ ShellFails(id) \/ OpenAnswered(id)
          \/ \E frame \in Frame : Receive(id, frame)
          \/ TakePending(id)
          \/ Prints(id) \/ PrintsMarker(id) \/ ReadyTimer(id) \/ FlushOutput(id)
          \/ ShellExits(id) \/ SendFails(id) \/ GrowsStale(id)

TerminalSpec == TerminalInit /\ [][TerminalNext]_tvars

-----------------------------------------------------------------------------
(***************************************************************************)
(* Properties.                                                              *)
(***************************************************************************)

\* However often an open arrives, over however many rooms, and however its session
\* ends: every shell that runs is the shell of one session in the table, where a
\* later open of its browser, the sweep or the stop finds it ("must spawn ONE shell,
\* not one per road", terminal-server.js:444).
EveryShellHasItsSession ==
    \A n \in DOMAIN shells : shells[n].alive =>
        \E id \in DOMAIN sessions :
            /\ sessions[id].shell = n
            /\ \A other \in DOMAIN sessions : sessions[other].shell = n => other = id

\* Frames arrive late, twice and reordered, and a change of the directory takes
\* its time: a shell still takes what was typed in the order it was typed, each
\* frame once (#receive).
TypedInOrder ==
    [][\A n \in DOMAIN shells : shells'[n].typed # shells[n].typed =>
          shells'[n].typed > shells[n].typed]_tvars

\* What a browser reads of a shell is what the shell printed from one point on, the
\* marker or its start, without a gap, and all of it once the browser has been told
\* that the shell is gone (#gateOutput, #flushOutput, onExit).
Reads(n) == [i \in 1 .. shells[n].printed - shells[n].marker |-> shells[n].marker + i]
ReadsWhole ==
    \A n \in DOMAIN shells :
        /\ IsPrefix(shells[n].sent, Reads(n))
        /\ shells[n].told => shells[n].sent = Reads(n)
=============================================================================
