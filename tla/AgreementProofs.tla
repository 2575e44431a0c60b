--------------------------- MODULE AgreementProofs ---------------------------
(***************************************************************************)
(* Proofs about uncommitted work (LiveOverlay) and the public link            *)
(* (ShareLink), for any number of devices, texts, commits, crashes, watchers  *)
(* and shares.                                                              *)
(*                                                                         *)
(* A text is settled when it is committed, quarantined or given up.  Any     *)
(* other text that was typed is owed: some file shows it, or an import has    *)
(* put that file back and brings the text again (Shown).  It stays so,       *)
(* because a device replaces what a peer has sent only by what that peer      *)
(* offers now, and what is offered goes on being shown (Holding).            *)
(***************************************************************************)
EXTENDS MCAgreement, NumberFacts, FiniteSetTheorems, TLAPS

\* t is one of some texts, or one that one of them was typed over.
In(t, texts) == \E k \in texts : t \in lineage[k]

\* What d has committed; what e offers to be imported; what an import of d brings, and
\* what it has put back.
Committed(d) == {commits[d][i].text : i \in DOMAIN commits[d]}
Offered(e) == UNION {s.overlay : s \in published[e]}
Brought(d) == IF import[d] = Idle THEN {} ELSE import[d].snapshot.overlay
PutBack(d) == IF import[d] = Idle THEN {} ELSE {import[d].taken}

\* What is kept for good, or given up.
Settled(t) ==
    \/ t \in forgone \cup displaced
    \/ \E d \in Device : In(t, Committed(d) \cup trash[d])
\* Every other text that was typed: some file has to show it.
Owed == {t \in Text : lineage[t] # {} /\ ~Settled(t)}
Shows(d, t) == In(t, {tree[d]} \cup PutBack(d))

\* Only texts that were typed are named anywhere.
Typed == {Absent} \cup {t \in Text : lineage[t] # {}}
Names ==
    /\ lineage[Absent] = {}
    /\ \A t \in Text : lineage[t] \subseteq Typed
    /\ \A d \in Device :
          /\ {tree[d], index[d]} \cup Committed(d) \cup trash[d] \subseteq Typed
          /\ Offered(d) \cup Brought(d) \cup PutBack(d) \subseteq Typed
          /\ \A e \in Device : baselines[d][e] \subseteq Typed
          /\ import[d] # Idle => import[d].before \subseteq Typed

\* What is offered, or imported, is one snapshot, of commits that some device has.
IsCommitted(t) == \E d \in Device : t \in Committed(d)
Snapshots ==
    \A d \in Device :
        /\ \A s, r \in published[d] : s = r
        /\ \A s \in published[d] \cup (IF import[d] = Idle THEN {} ELSE {import[d].snapshot}) :
              \A i \in DOMAIN s.commits : IsCommitted(s.commits[i].text)

\* How far an import is: nothing is put back before the restore; the file it looked at
\* could be replaced.
Received(d) == import[d].seen \in baselines[d][import[d].from]
Stages ==
    \A d \in Device : import[d] # Idle =>
        /\ import[d].phase \in {"prepare", "restore"} => import[d].taken = Absent
        /\ import[d].phase = "restore" => Received(d)
        /\ import[d].phase = "write" => 
              Received(d) \/ IsCommitted(import[d].seen) \/ import[d].seen \in Brought(d)

\* Who shows a text that is owed goes on showing it: what a device has sent it still
\* offers, what it offers it shows, and what an import takes away it brings again.
Bringing(d, t) ==
    /\ In(t, baselines[d][import[d].from]) => In(t, Brought(d))
    /\ In(t, import[d].before) => In(t, Offered(import[d].from))
    /\ In(t, Brought(d)) => In(t, Offered(import[d].from))
    /\ t \in lineage[import[d].taken] => In(t, {tree[d]} \cup Brought(d))
Holding ==
    \A t \in Owed : \A d \in Device :
        /\ \A e \in Device : In(t, baselines[d][e]) => In(t, Offered(e))
        /\ In(t, Offered(d)) => Shows(d, t)
        /\ import[d] # Idle => Bringing(d, t)
Shown == \A t \in Owed : \E d \in Device : Shows(d, t)
LiveInv == TypeOK /\ Names /\ Snapshots /\ Stages /\ Holding /\ Shown

-----------------------------------------------------------------------------
(***************************************************************************)
(* Types.                                                                   *)
(***************************************************************************)
LEMMA OptionalIs ==
    ASSUME NEW S, NEW o \in Optional(S)
    PROVE  /\ o \in SUBSET S
           /\ \A x, y \in o : x = y
           /\ \A x \in o : o = {x}
  BY DEF Optional

LEMMA SingleIs == ASSUME NEW S, NEW x \in S  PROVE {x} \in Optional(S) /\ {} \in Optional(S)
  BY DEF Optional

LEMMA ImportTypes ==
    ASSUME NEW i \in Import
    PROVE  /\ i # Idle /\ i.phase \in Phase /\ i.from \in Device /\ i.snapshot \in Snapshot
           /\ i.seen \in Text /\ i.taken \in Text /\ i.before \in Optional(Text)
           /\ i.snapshot.commits \in Branch /\ i.snapshot.overlay \in Optional(Text)
           /\ i.merged \in BOOLEAN /\ i.retry \in BOOLEAN
  BY DEF Import, Snapshot, Idle, Phase

LEMMA Moves ==
    ASSUME NEW i \in Import, NEW p \in Phase
    PROVE  /\ [i EXCEPT !.phase = p] \in Import
           /\ [i EXCEPT !.phase = p].phase = p
           /\ [i EXCEPT !.phase = p].from = i.from
           /\ [i EXCEPT !.phase = p].snapshot = i.snapshot
           /\ [i EXCEPT !.phase = p].seen = i.seen
           /\ [i EXCEPT !.phase = p].taken = i.taken
           /\ [i EXCEPT !.phase = p].before = i.before
  BY DEF Import

\* An import under way is one of the kind.
LEMMA UnderWay ==
    ASSUME TypeOK, NEW d \in Device, import[d] # Idle
    PROVE  import[d] \in Import
  BY DEF TypeOK

LEMMA FromDevice ==
    ASSUME TypeOK, NEW d \in Device, import[d] # Idle
    PROVE  import[d].from \in Device
  BY UnderWay, ImportTypes

LEMMA PhaseIsOfImport ==
    ASSUME TypeOK, NEW d \in Device, NEW p \in Phase, import[d].phase = p
    PROVE  import[d] \in Import /\ import[d] # Idle
  BY DEF TypeOK, Idle, Phase, Import

LEMMA TextIs == Text \in SUBSET Nat /\ Absent \in Text /\ First \in Text
  BY BoundAssumption DEF Text, Absent, First

LEMMA HeadIs ==
    ASSUME TypeOK, NEW d \in Device
    PROVE  /\ Len(commits[d]) \in Nat \ {0} /\ commits[d] \in Seq(Commit)
           /\ \A i \in DOMAIN commits[d] : commits[d][i] \in Commit /\ commits[d][i].text \in Text
           /\ HeadText(d) \in Text /\ HeadText(d) \in Committed(d)
  <1>1. commits[d] \in Seq(Commit) /\ commits[d] # <<>>  BY DEF TypeOK, Branch
  <1>2. Len(commits[d]) \in Nat \ {0} /\ DOMAIN commits[d] = 1..Len(commits[d])  BY <1>1
  <1>3. \A i \in DOMAIN commits[d] : commits[d][i] \in Commit /\ commits[d][i].text \in Text
    <2>1. \A i \in DOMAIN commits[d] : commits[d][i] \in Commit  BY <1>1, <1>2
    <2> QED  BY <2>1 DEF Commit
  <1>4. Len(commits[d]) \in DOMAIN commits[d]  BY <1>2
  <1> QED  BY <1>1, <1>2, <1>3, <1>4 DEF HeadText, Last, Committed

LEMMA TakenAwayIs == ASSUME TypeOK, NEW d \in Device  PROVE TakenAway(d) \in SUBSET Text
  <1>1. import[d] # Idle => import[d].taken \in Text  BY UnderWay, ImportTypes
  <1> QED  BY <1>1 DEF TypeOK, TakenAway

LEMMA OneOf == \A x : Cardinality({x}) <= 1
  <1>1. \A x : Cardinality({x}) = 1  BY FS_Singleton
  <1> QED  BY <1>1

LEMMA TypesInitially == Init => TypeOK
  <1> SUFFICES ASSUME Init  PROVE TypeOK
    OBVIOUS
  <1>1. <<[text |-> First, by |-> {}]>> \in Branch  BY TextIs DEF Branch, Commit
  <1>2. commits \in [Device -> Branch]  BY <1>1 DEF Init
  <1>3. baselines \in [Device -> [Device -> Optional(Text)]]  BY DEF Init, Optional
  <1>4. \A d, e \in Device : Cardinality(published[d]) <= 1 /\ Cardinality(imported[d][e]) <= 1
                               /\ Cardinality(refs[d][e]) <= 1
    BY FS_EmptySet DEF Init
  <1>5. lineage \in [Text -> SUBSET Text]  BY TextIs DEF Init
  <1>6. tree \in [Device -> Text] /\ index \in [Device -> Text]
          /\ copies \in [Device -> [Device -> Text]]
    BY TextIs DEF Init
  <1>7. /\ imported \in [Device -> [Device -> SUBSET Snapshot]]
        /\ refs \in [Device -> [Device -> SUBSET Branch]]
        /\ trash \in [Device -> SUBSET Text] /\ published \in [Device -> SUBSET Snapshot]
        /\ import \in [Device -> Import \cup {Idle}]
    BY DEF Init
  <1>8. undos \in 0..MaxUndos /\ crashes \in 0..MaxCrashes  BY BoundAssumption DEF Init
  <1>9. forgone \subseteq Text /\ displaced \subseteq Text  BY DEF Init
  <1> QED  BY <1>2, <1>3, <1>4, <1>5, <1>6, <1>7, <1>8, <1>9 DEF TypeOK

LEMMA TypeKeepsTypes == ASSUME TypeOK, NEW d \in Device, Type(d)  PROVE TypeOK'
  <1> PICK t \in Text \ {Absent} :
        /\ lineage' = [lineage EXCEPT ![t] = {t} \cup lineage[tree[d]]]
        /\ Edit(d, t, {}) /\ UNCHANGED <<index, undos>>
    BY DEF Type
  <1>1. lineage' \in [Text -> SUBSET Text]  BY DEF TypeOK
  <1>2. tree' \in [Device -> Text] /\ forgone' \subseteq Text  BY DEF TypeOK, Edit
  <1> QED  BY <1>1, <1>2 DEF TypeOK, Edit, saved

LEMMA UndoKeepsTypes ==
    ASSUME TypeOK, NEW d \in Device, NEW t \in Text, Undo(d, t)
    PROVE  TypeOK'
  <1>1. tree' \in [Device -> Text]  BY DEF TypeOK, Undo, Edit
  <1>2. forgone' \subseteq Text  BY DEF TypeOK, Undo, Edit
  <1>3. undos' \in 0..MaxUndos  BY BoundAssumption DEF TypeOK, Undo
  <1> QED  BY <1>1, <1>2, <1>3 DEF TypeOK, Undo, Edit, saved

LEMMA StageKeepsTypes == ASSUME TypeOK, NEW d \in Device, Stage(d)  PROVE TypeOK'
  <1>1. index' \in [Device -> Text]  BY DEF TypeOK, Stage
  <1>2. undos' \in 0..MaxUndos  BY BoundAssumption DEF TypeOK, Stage
  <1> QED  BY <1>1, <1>2 DEF TypeOK, Stage, saved

LEMMA CommitKeepsTypes == ASSUME TypeOK, NEW d \in Device, CommitAll(d)  PROVE TypeOK'
  <1>1. index' \in [Device -> Text]  BY DEF TypeOK, CommitAll
  <1>2. [text |-> tree[d], by |-> {d}] \in Commit  BY DEF TypeOK, Commit
  <1>3. Append(commits[d], [text |-> tree[d], by |-> {d}]) \in Branch
    <2>1. commits[d] \in Seq(Commit)  BY DEF TypeOK, Branch
    <2>2. Len(Append(commits[d], [text |-> tree[d], by |-> {d}])) = Len(commits[d]) + 1
      BY <1>2, <2>1
    <2> QED  BY <1>2, <2>1, <2>2 DEF Branch
  <1>4. commits' \in [Device -> Branch]  BY <1>3 DEF TypeOK, CommitAll
  <1> QED  BY <1>1, <1>4 DEF TypeOK, CommitAll, saved, history

LEMMA PublishKeepsTypes == ASSUME TypeOK, NEW d \in Device, PublishLocal(d)  PROVE TypeOK'
  <1> DEFINE s == [commits |-> commits[d], overlay |-> {tree[d]} \ {HeadText(d)}]
  <1>1. s.overlay \in Optional(Text)
    <2>1. tree[d] \in Text  BY DEF TypeOK
    <2> QED  BY <2>1, SingleIs DEF Optional
  <1>2. s \in Snapshot  BY <1>1 DEF TypeOK, Snapshot
  <1>3. published' = [published EXCEPT ![d] = {s}]  BY DEF PublishLocal
  <1> HIDE DEF s
  <1>4. published' \in [Device -> SUBSET Snapshot]  BY <1>2, <1>3 DEF TypeOK
  <1>5. \A x \in Device : Cardinality(published'[x]) <= 1  BY <1>3, OneOf DEF TypeOK
  <1>6. forgone' \subseteq Text  BY TakenAwayIs DEF TypeOK, PublishLocal
  <1> QED  BY <1>4, <1>5, <1>6 DEF TypeOK, PublishLocal, files, saved

LEMMA AcceptIs ==
    ASSUME TypeOK, NEW d \in Device, NEW e \in Device, Accept(d, e)
    PROVE  \E s \in published[e], i \in Import :
               /\ import' = [import EXCEPT ![d] = i]
               /\ i.phase = "prepare" /\ i.from = e /\ i.snapshot = s /\ i.taken = Absent
               /\ i.before = baselines[d][e]
  <1> PICK s \in published[e] : import' = [import EXCEPT ![d] =
              [phase |-> "prepare", from |-> e, snapshot |-> s, seen |-> Absent,
               taken |-> Absent, merged |-> FALSE, retry |-> FALSE, before |-> baselines[d][e]]]
    BY DEF Accept
  <1> DEFINE i == [phase |-> "prepare", from |-> e, snapshot |-> s, seen |-> Absent,
                   taken |-> Absent, merged |-> FALSE, retry |-> FALSE,
                   before |-> baselines[d][e]]
  <1>1. s \in Snapshot /\ baselines[d][e] \in Optional(Text)  BY DEF TypeOK
  <1>2. i \in Import  BY <1>1, TextIs DEF Import, Phase
  <1>3. /\ i.phase = "prepare" /\ i.from = e /\ i.snapshot = s /\ i.taken = Absent
        /\ i.before = baselines[d][e]
    OBVIOUS
  <1> QED  BY <1>2, <1>3

LEMMA AcceptKeepsTypes ==
    ASSUME TypeOK, NEW d \in Device, NEW e \in Device, Accept(d, e)
    PROVE  TypeOK'
  <1> PICK i \in Import : import' = [import EXCEPT ![d] = i]
    BY AcceptIs
  <1>1. import' \in [Device -> Import \cup {Idle}]  BY DEF TypeOK
  <1> QED  BY <1>1 DEF TypeOK, Accept, files, saved, history

\* What is remembered of one peer by one device is changed.
LEMMA Remembers ==
    ASSUME NEW S, NEW f \in [Device -> [Device -> S]], NEW d \in Device, NEW e \in Device,
           NEW x \in S, NEW g, g = [f EXCEPT ![d][e] = x]
    PROVE  /\ g \in [Device -> [Device -> S]]
           /\ g[d][e] = x
           /\ \A p, q \in Device : p # d \/ q # e => g[p][q] = f[p][q]
  OBVIOUS

LEMMA BaselineTypes ==
    ASSUME TypeOK, NEW d \in Device, NEW e \in Device, NEW o \in Optional(Text),
           baselines' = [baselines EXCEPT ![d][e] = o]
    PROVE  /\ baselines' \in [Device -> [Device -> Optional(Text)]]
           /\ baselines'[d][e] = o
           /\ \A x, y \in Device : x # d \/ y # e => baselines'[x][y] = baselines[x][y]
  BY Remembers DEF TypeOK

LEMMA PrepareLooksIs ==
    ASSUME TypeOK, NEW d \in Device, PrepareLooks(d)
    PROVE  /\ import[d] \in Import
           /\ \E i \in Import :
                /\ import' = [import EXCEPT ![d] = i]
                /\ i.from = import[d].from /\ i.snapshot = import[d].snapshot
                /\ i.before = import[d].before /\ i.taken = import[d].taken
                /\ i.phase = "restore" \/ i.phase = "merge"
                /\ i.phase = "restore" => /\ i.seen \in baselines[d][i.from]
                                          /\ import[d].phase = "prepare"
                                          /\ UNCHANGED baselines
                /\ i.phase = "merge" =>
                      UNCHANGED baselines \/ baselines' = [baselines EXCEPT ![d][i.from] = {}]
  <1>1. import[d].phase = "prepare"  BY DEF PrepareLooks
  <1>2. import[d] \in Import  BY <1>1, PhaseIsOfImport DEF Phase
  <1>3. tree[d] \in Text  BY DEF TypeOK
  <1> DEFINE k == [import[d] EXCEPT !.phase = "restore"]
             r == [k EXCEPT !.seen = tree[d]]
             m == [import[d] EXCEPT !.phase = "merge"]
  <1>4. /\ r \in Import /\ r.from = import[d].from /\ r.snapshot = import[d].snapshot
        /\ r.before = import[d].before /\ r.taken = import[d].taken
        /\ r.phase = "restore" /\ r.seen = tree[d]
    <2>1. k \in Import /\ k.phase = "restore" /\ k.from = import[d].from
            /\ k.snapshot = import[d].snapshot /\ k.before = import[d].before
            /\ k.taken = import[d].taken
      BY <1>2, Moves DEF Phase
    <2> HIDE DEF k
    <2> QED  BY <1>3, <2>1 DEF Import
  <1>5. /\ m \in Import /\ m.from = import[d].from /\ m.snapshot = import[d].snapshot
        /\ m.before = import[d].before /\ m.taken = import[d].taken /\ m.phase = "merge"
    BY <1>2, Moves DEF Phase
  <1>6. CASE ~IsMine(d) /\ import' = [import EXCEPT ![d].phase = "restore", ![d].seen = tree[d]]
             /\ UNCHANGED baselines
    <2>1. import' = [import EXCEPT ![d] = r]  BY <1>6
    <2>2. r.seen \in baselines[d][r.from]  BY <1>4, <1>6 DEF IsMine
    <2> HIDE DEF r
    <2> QED  BY <1>1, <1>2, <1>4, <1>6, <2>1, <2>2
  <1>7. CASE /\ Proceed(d, "merge")
             /\ \/ UNCHANGED baselines
                \/ baselines' = [baselines EXCEPT ![d][import[d].from] = {}]
    <2>1. import' = [import EXCEPT ![d] = m]  BY <1>7 DEF Proceed
    <2> HIDE DEF m
    <2> QED  BY <1>2, <1>5, <1>7, <2>1
  <1> QED  BY <1>6, <1>7 DEF PrepareLooks

LEMMA PrepareLooksKeepsTypes == ASSUME TypeOK, NEW d \in Device, PrepareLooks(d)  PROVE TypeOK'
  <1> PICK i \in Import :
        /\ import' = [import EXCEPT ![d] = i]
        /\ UNCHANGED baselines \/ baselines' = [baselines EXCEPT ![d][i.from] = {}]
    BY PrepareLooksIs
  <1>1. import' \in [Device -> Import \cup {Idle}]  BY DEF TypeOK
  <1>2. {} \in Optional(Text) /\ i.from \in Device  BY TextIs, SingleIs, ImportTypes
  <1>3. baselines' \in [Device -> [Device -> Optional(Text)]]
    BY <1>2, BaselineTypes DEF TypeOK
  <1> QED  BY <1>1, <1>3 DEF TypeOK, PrepareLooks, files, history

\* What Replace does to the file.
LEMMA ReplaceTypes ==
    ASSUME TypeOK, NEW d \in Device, NEW t \in Text, Replace(d, t)
    PROVE  /\ tree' = [tree EXCEPT ![d] = t] /\ tree' \in [Device -> Text]
           /\ trash' \in [Device -> SUBSET Text] /\ forgone' \subseteq Text
  <1>1. tree' = [tree EXCEPT ![d] = t] /\ tree' \in [Device -> Text]  BY DEF TypeOK, Replace
  <1>2. CASE t = Absent
    <2>1. UNCHANGED forgone /\ trash' = [trash EXCEPT ![d] = @ \cup ({tree[d]} \ {Absent})]
      BY <1>2 DEF Replace
    <2>2. tree[d] \in Text  BY DEF TypeOK
    <2> QED  BY <1>1, <2>1, <2>2 DEF TypeOK
  <1>3. CASE t # Absent
    <2>1. tree[d] \in Text /\ lineage[tree[d]] \in SUBSET Text  BY DEF TypeOK
    <2> QED  BY <1>1, <1>3, <2>1 DEF TypeOK, Replace
  <1> QED  BY <1>2, <1>3

LEMMA PrepareRestoresIs ==
    ASSUME TypeOK, NEW d \in Device, PrepareRestores(d)
    PROVE  /\ import[d] \in Import /\ import[d].phase = "restore"
           /\ \E t \in {Absent, index[d]} : t \in Text /\ Replace(d, t)
           /\ baselines' = [baselines EXCEPT ![d][import[d].from] = {}]
           /\ \E i \in Import :
                /\ import' = [import EXCEPT ![d] = i]
                /\ i.from = import[d].from /\ i.snapshot = import[d].snapshot
                /\ i.before = import[d].before /\ i.taken = tree[d] /\ i.phase = "merge"
  <1>1. import[d].phase = "restore"  BY DEF PrepareRestores
  <1>2. import[d] \in Import  BY <1>1, PhaseIsOfImport DEF Phase
  <1>3. tree[d] \in Text /\ index[d] \in Text  BY DEF TypeOK
  <1> DEFINE k == [import[d] EXCEPT !.phase = "merge"]
             i == [k EXCEPT !.taken = tree[d]]
  <1>4. /\ i \in Import /\ i.from = import[d].from /\ i.snapshot = import[d].snapshot
        /\ i.before = import[d].before /\ i.taken = tree[d] /\ i.phase = "merge"
    <2>1. k \in Import /\ k.phase = "merge" /\ k.from = import[d].from
            /\ k.snapshot = import[d].snapshot /\ k.before = import[d].before
      BY <1>2, Moves DEF Phase
    <2> HIDE DEF k
    <2> QED  BY <1>3, <2>1 DEF Import
  <1>5. import' = [import EXCEPT ![d] = i]  BY DEF PrepareRestores
  <1> HIDE DEF i
  <1>6. \E t \in {Absent, index[d]} : t \in Text /\ Replace(d, t)
    BY <1>3, TextIs DEF PrepareRestores
  <1> QED  BY <1>1, <1>2, <1>4, <1>5, <1>6 DEF PrepareRestores

LEMMA PrepareRestoresKeepsTypes ==
    ASSUME TypeOK, NEW d \in Device, PrepareRestores(d)
    PROVE  TypeOK'
  <1> PICK i \in Import : import' = [import EXCEPT ![d] = i]
    BY PrepareRestoresIs
  <1> PICK t \in Text : Replace(d, t)
    BY PrepareRestoresIs
  <1>1. import' \in [Device -> Import \cup {Idle}]  BY DEF TypeOK
  <1>2. {} \in Optional(Text) /\ import[d].from \in Device
    BY TextIs, SingleIs, ImportTypes, PrepareRestoresIs
  <1>3. baselines' \in [Device -> [Device -> Optional(Text)]]
    BY <1>2, BaselineTypes, PrepareRestoresIs
  <1>4. UNCHANGED <<index, commits, copies, published, imported, refs, lineage, displaced,
                    undos, crashes>>
    BY DEF PrepareRestores
  <1> QED  BY <1>1, <1>3, <1>4, ReplaceTypes DEF TypeOK

LEMMA ImportBundleIs ==
    ASSUME TypeOK, NEW d \in Device, ImportBundle(d)
    PROVE  /\ import[d] \in Import /\ import[d].phase = "merge"
           /\ \E i \in Import :
                /\ import' = [import EXCEPT ![d] = i]
                /\ i.from = import[d].from /\ i.snapshot = import[d].snapshot
                /\ i.before = import[d].before /\ i.taken = import[d].taken /\ i.phase = "apply"
           /\ \/ UNCHANGED files
              \/ LET theirs == import[d].snapshot.commits
                 IN  /\ IsPrefix(commits[d], theirs) /\ IsClean(d)
                     /\ commits' = [commits EXCEPT ![d] = theirs]
                     /\ tree' = [tree EXCEPT ![d] = Last(theirs).text]
                     /\ index' = [index EXCEPT ![d] = Last(theirs).text]
  <1>1. import[d].phase = "merge"  BY DEF ImportBundle
  <1>2. import[d] \in Import  BY <1>1, PhaseIsOfImport DEF Phase
  <1>3. ASSUME NEW m \in BOOLEAN, NEW r \in BOOLEAN,
               import' = [import EXCEPT ![d].phase = "apply", ![d].merged = m, ![d].retry = r]
        PROVE  \E i \in Import :
                /\ import' = [import EXCEPT ![d] = i]
                /\ i.from = import[d].from /\ i.snapshot = import[d].snapshot
                /\ i.before = import[d].before /\ i.taken = import[d].taken /\ i.phase = "apply"
    <2> DEFINE k == [import[d] EXCEPT !.phase = "apply"]
               l == [k EXCEPT !.merged = m]
               i == [l EXCEPT !.retry = r]
    <2>1. import' = [import EXCEPT ![d] = i]  BY <1>3
    <2>2. /\ k \in Import /\ k.phase = "apply" /\ k.from = import[d].from
          /\ k.snapshot = import[d].snapshot /\ k.before = import[d].before
          /\ k.taken = import[d].taken
      BY <1>2, Moves DEF Phase
    <2> HIDE DEF k
    <2>3. /\ l \in Import /\ l.phase = "apply" /\ l.from = import[d].from
          /\ l.snapshot = import[d].snapshot /\ l.before = import[d].before
          /\ l.taken = import[d].taken
      BY <2>2 DEF Import
    <2> HIDE DEF l
    <2>4. /\ i \in Import /\ i.phase = "apply" /\ i.from = import[d].from
          /\ i.snapshot = import[d].snapshot /\ i.before = import[d].before
          /\ i.taken = import[d].taken
      BY <2>3 DEF Import
    <2> HIDE DEF i
    <2> QED  BY <2>1, <2>4
  <1>4. \E m, r \in BOOLEAN :
           import' = [import EXCEPT ![d].phase = "apply", ![d].merged = m, ![d].retry = r]
    BY DEF ImportBundle
  <1>5. \E i \in Import :
                /\ import' = [import EXCEPT ![d] = i]
                /\ i.from = import[d].from /\ i.snapshot = import[d].snapshot
                /\ i.before = import[d].before /\ i.taken = import[d].taken /\ i.phase = "apply"
    BY <1>3, <1>4
  <1>6. \/ UNCHANGED files
        \/ LET theirs == import[d].snapshot.commits
           IN  /\ IsPrefix(commits[d], theirs) /\ IsClean(d)
               /\ commits' = [commits EXCEPT ![d] = theirs]
               /\ tree' = [tree EXCEPT ![d] = Last(theirs).text]
               /\ index' = [index EXCEPT ![d] = Last(theirs).text]
    BY DEF ImportBundle
  <1> QED  BY <1>1, <1>2, <1>5, <1>6

LEMMA LastIs ==
    ASSUME NEW b \in Branch
    PROVE  /\ Len(b) \in DOMAIN b /\ DOMAIN b = 1..Len(b) /\ Len(b) \in Nat
           /\ Last(b) = b[Len(b)] /\ Last(b).text \in Text
           /\ \A i \in DOMAIN b : b[i].text \in Text
  <1>1. b \in Seq(Commit) /\ b # <<>>  BY DEF Branch
  <1>2. Len(b) \in Nat \ {0} /\ DOMAIN b = 1..Len(b)  BY <1>1
  <1>3. \A i \in DOMAIN b : b[i] \in Commit  BY <1>1, <1>2
  <1> QED  BY <1>2, <1>3 DEF Last, Commit

LEMMA ImportBundleKeepsTypes == ASSUME TypeOK, NEW d \in Device, ImportBundle(d)  PROVE TypeOK'
  <1> DEFINE theirs == import[d].snapshot.commits
  <1> PICK i \in Import : import' = [import EXCEPT ![d] = i]
    BY ImportBundleIs
  <1>1. import' \in [Device -> Import \cup {Idle}]  BY DEF TypeOK
  <1>2. UNCHANGED <<trash, copies, published, saved, history>>  BY DEF ImportBundle
  <1>3. theirs \in Branch /\ Last(theirs).text \in Text
    BY ImportBundleIs, ImportTypes, LastIs
  <1> HIDE DEF theirs
  <1>4. /\ tree' \in [Device -> Text] /\ index' \in [Device -> Text]
        /\ commits' \in [Device -> Branch]
    <2>1. \/ UNCHANGED files
          \/ /\ commits' = [commits EXCEPT ![d] = theirs]
             /\ tree' = [tree EXCEPT ![d] = Last(theirs).text]
             /\ index' = [index EXCEPT ![d] = Last(theirs).text]
      BY ImportBundleIs DEF theirs
    <2>2. CASE UNCHANGED files
      BY <2>2 DEF TypeOK, files
    <2>3. CASE /\ commits' = [commits EXCEPT ![d] = theirs]
               /\ tree' = [tree EXCEPT ![d] = Last(theirs).text]
               /\ index' = [index EXCEPT ![d] = Last(theirs).text]
      BY <1>3, <2>3 DEF TypeOK
    <2> QED  BY <2>1, <2>2, <2>3
  <1> QED  BY <1>1, <1>2, <1>4 DEF TypeOK, saved, history

LEMMA FinishTypes ==
    ASSUME TypeOK, NEW d \in Device, import[d] \in Import, Finish(d)
    PROVE  /\ import' = [import EXCEPT ![d] = Idle]
           /\ import' \in [Device -> Import \cup {Idle}]
           /\ imported' \in [Device -> [Device -> SUBSET Snapshot]]
           /\ refs' \in [Device -> [Device -> SUBSET Branch]]
           /\ \A x, y \in Device : Cardinality(imported'[x][y]) <= 1 /\ Cardinality(refs'[x][y]) <= 1
  <1> DEFINE e == import[d].from
             s == {import[d].snapshot}
             r == {import[d].snapshot.commits}
             S == SUBSET Snapshot
             R == SUBSET Branch
  <1>1. e \in Device /\ s \in S /\ r \in R  BY ImportTypes
  <1>2. imported' = imported \/ imported' = [imported EXCEPT ![d][e] = s]  BY DEF Finish
  <1>3. refs' = refs \/ refs' = [refs EXCEPT ![d][e] = r]  BY DEF Finish
  <1>4. import' = [import EXCEPT ![d] = Idle]  BY DEF Finish
  <1>a. imported \in [Device -> [Device -> S]] /\ refs \in [Device -> [Device -> R]]
    BY DEF TypeOK
  <1>b. Cardinality(s) <= 1 /\ Cardinality(r) <= 1  BY OneOf
  <1>c. \A x, y \in Device : Cardinality(imported[x][y]) <= 1 /\ Cardinality(refs[x][y]) <= 1
    BY DEF TypeOK
  <1> HIDE DEF e, s, r, S, R
  <1>5. /\ imported' \in [Device -> [Device -> S]]
        /\ \A x, y \in Device : Cardinality(imported'[x][y]) <= 1
    <2>1. CASE imported' = imported
      BY <1>a, <1>c, <2>1
    <2>2. CASE imported' = [imported EXCEPT ![d][e] = s]
      <3>1. /\ imported' \in [Device -> [Device -> S]]
            /\ imported'[d][e] = s
            /\ \A p, q \in Device : p # d \/ q # e => imported'[p][q] = imported[p][q]
        BY <1>1, <1>a, <2>2, Remembers
      <3> QED  BY <1>b, <1>c, <3>1
    <2> QED  BY <1>2, <2>1, <2>2
  <1>6. /\ refs' \in [Device -> [Device -> R]]
        /\ \A x, y \in Device : Cardinality(refs'[x][y]) <= 1
    <2>1. CASE refs' = refs
      BY <1>a, <1>c, <2>1
    <2>2. CASE refs' = [refs EXCEPT ![d][e] = r]
      <3>1. /\ refs' \in [Device -> [Device -> R]]
            /\ refs'[d][e] = r
            /\ \A p, q \in Device : p # d \/ q # e => refs'[p][q] = refs[p][q]
        BY <1>1, <1>a, <2>2, Remembers
      <3> QED  BY <1>b, <1>c, <3>1
    <2> QED  BY <1>3, <2>1, <2>2
  <1>7. import' \in [Device -> Import \cup {Idle}]  BY <1>4 DEF TypeOK
  <1> QED  BY <1>4, <1>5, <1>6, <1>7 DEF S, R

\* An import that looks at the file ends, or goes on to write.
LEMMA ApplyLooksIs ==
    ASSUME TypeOK, NEW d \in Device, ApplyLooks(d)
    PROVE  /\ import[d] \in Import /\ import[d].phase = "apply"
           /\ \/ /\ Finish(d) /\ Brought(d) = {}
                 /\ UNCHANGED <<copies, baselines, displaced>>
              \/ \E next \in Brought(d) :
                    /\ Finish(d)
                    /\ baselines' = [baselines EXCEPT ![d][import[d].from] = {next}]
                    /\ \/ tree[d] = next /\ UNCHANGED <<copies, displaced>>
                       \/ /\ displaced' = displaced \cup TakenAway(d)
                          /\ WriteConflict(d, import[d].from, next)
              \/ /\ \E i \in Import :
                      /\ import' = [import EXCEPT ![d] = i]
                      /\ i.from = import[d].from /\ i.snapshot = import[d].snapshot
                      /\ i.before = import[d].before /\ i.taken = import[d].taken
                      /\ i.phase = "write" /\ i.seen = tree[d]
                 /\ \E next \in Brought(d) : Safe(d, next) /\ tree[d] # next
                 /\ UNCHANGED <<copies, baselines, imported, refs, displaced>>
  <1>1. import[d].phase = "apply"  BY DEF ApplyLooks
  <1>2. import[d] \in Import /\ import[d] # Idle  BY <1>1, PhaseIsOfImport DEF Phase
  <1>3. Brought(d) = import[d].snapshot.overlay  BY <1>2 DEF Brought
  <1>4. CASE import[d].snapshot.overlay = {} /\ Finish(d) /\ UNCHANGED <<copies, baselines, displaced>>
    BY <1>1, <1>2, <1>3, <1>4
  <1>5. CASE \E next \in import[d].snapshot.overlay :
                /\ tree[d] = next
                /\ baselines' = [baselines EXCEPT ![d][import[d].from] = {next}]
                /\ Finish(d) /\ UNCHANGED <<copies, displaced>>
    BY <1>1, <1>2, <1>3, <1>5
  <1>6. CASE \E next \in import[d].snapshot.overlay :
                /\ WriteConflict(d, import[d].from, next)
                /\ displaced' = displaced \cup TakenAway(d)
                /\ baselines' = [baselines EXCEPT ![d][import[d].from] = {next}]
                /\ Finish(d)
    BY <1>1, <1>2, <1>3, <1>6
  <1>7. CASE \E next \in import[d].snapshot.overlay :
                /\ Safe(d, next) /\ tree[d] # next
                /\ import' = [import EXCEPT ![d].phase = "write", ![d].seen = tree[d]]
                /\ UNCHANGED <<copies, baselines, imported, refs, displaced>>
    <2> DEFINE k == [import[d] EXCEPT !.phase = "write"]
               i == [k EXCEPT !.seen = tree[d]]
    <2>1. import' = [import EXCEPT ![d] = i]  BY <1>7
    <2>2. /\ k \in Import /\ k.phase = "write" /\ k.from = import[d].from
          /\ k.snapshot = import[d].snapshot /\ k.before = import[d].before
          /\ k.taken = import[d].taken
      BY <1>2, Moves DEF Phase
    <2> HIDE DEF k
    <2>3. tree[d] \in Text  BY DEF TypeOK
    <2>4. /\ i \in Import /\ i.phase = "write" /\ i.from = import[d].from
          /\ i.snapshot = import[d].snapshot /\ i.before = import[d].before
          /\ i.taken = import[d].taken /\ i.seen = tree[d]
      BY <2>2, <2>3 DEF Import
    <2> HIDE DEF i
    <2> QED  BY <1>1, <1>2, <1>3, <1>7, <2>1, <2>4
  <1> QED  BY <1>4, <1>5, <1>6, <1>7 DEF ApplyLooks

LEMMA ApplyLooksKeepsTypes == ASSUME TypeOK, NEW d \in Device, ApplyLooks(d)  PROVE TypeOK'
  <1>1. UNCHANGED <<files, trash, published, lineage, forgone, undos, crashes>>
    BY DEF ApplyLooks
  <1>2. import[d] \in Import  BY ApplyLooksIs
  <1>3. import[d].from \in Device /\ Brought(d) \subseteq Text
    BY <1>2, ImportTypes, OptionalIs DEF Brought
  <1>4. CASE Finish(d) /\ UNCHANGED <<copies, baselines, displaced>>
    BY <1>1, <1>2, <1>4, FinishTypes DEF TypeOK, files
  <1>5. ASSUME NEW next \in Brought(d), Finish(d),
               baselines' = [baselines EXCEPT ![d][import[d].from] = {next}],
               \/ UNCHANGED <<copies, displaced>>
               \/ /\ displaced' = displaced \cup TakenAway(d)
                  /\ WriteConflict(d, import[d].from, next)
        PROVE  TypeOK'
    <2>1. {next} \in Optional(Text)  BY <1>3, SingleIs
    <2>2. baselines' \in [Device -> [Device -> Optional(Text)]]
      BY <1>3, <1>5, <2>1, BaselineTypes
    <2>3. displaced' \subseteq Text
      BY <1>5, TakenAwayIs DEF TypeOK
    <2>4. copies' = copies \/ copies' = [copies EXCEPT ![d][import[d].from] = next]
      BY <1>5 DEF WriteConflict
    <2>5. copies' \in [Device -> [Device -> Text]]
      <3>1. copies \in [Device -> [Device -> Text]] /\ next \in Text  BY <1>3 DEF TypeOK
      <3>2. CASE copies' = [copies EXCEPT ![d][import[d].from] = next]
        BY <1>3, <3>1, <3>2, Remembers
      <3> QED  BY <2>4, <3>1, <3>2
    <2>6. /\ import' \in [Device -> Import \cup {Idle}]
          /\ imported' \in [Device -> [Device -> SUBSET Snapshot]]
          /\ refs' \in [Device -> [Device -> SUBSET Branch]]
          /\ \A x, y \in Device :
                Cardinality(imported'[x][y]) <= 1 /\ Cardinality(refs'[x][y]) <= 1
      BY <1>2, <1>5, FinishTypes
    <2> QED  BY <1>1, <2>2, <2>3, <2>5, <2>6 DEF TypeOK, files
  <1>6. CASE /\ \E i \in Import : import' = [import EXCEPT ![d] = i]
             /\ UNCHANGED <<copies, baselines, imported, refs, displaced>>
    BY <1>1, <1>6 DEF TypeOK, files
  <1> QED  BY <1>4, <1>5, <1>6, ApplyLooksIs

LEMMA ApplyWritesIs ==
    ASSUME TypeOK, NEW d \in Device, ApplyWrites(d)
    PROVE  /\ import[d] \in Import /\ import[d].phase = "write" /\ Finish(d)
           /\ \E next \in Brought(d) :
                 /\ next \in Text /\ Replace(d, next)
                 /\ baselines' = [baselines EXCEPT ![d][import[d].from] = {next}]
           /\ UNCHANGED <<index, commits, copies, published, lineage, displaced, undos, crashes>>
  <1> PICK next \in Text :
        /\ import[d].phase = "write" /\ next \in import[d].snapshot.overlay
        /\ Replace(d, next)
        /\ baselines' = [baselines EXCEPT ![d][import[d].from] = {next}]
        /\ Finish(d)
        /\ UNCHANGED <<index, commits, copies, published, lineage, displaced, undos, crashes>>
    BY DEF ApplyWrites
  <1>1. import[d] \in Import /\ import[d] # Idle  BY PhaseIsOfImport DEF Phase
  <1>2. next \in Brought(d)  BY <1>1 DEF Brought
  <1> QED  BY <1>1, <1>2

LEMMA ApplyWritesKeepsTypes == ASSUME TypeOK, NEW d \in Device, ApplyWrites(d)  PROVE TypeOK'
  <1> PICK next \in Text :
        Replace(d, next) /\ baselines' = [baselines EXCEPT ![d][import[d].from] = {next}]
    BY ApplyWritesIs
  <1>1. import[d] \in Import /\ import[d].from \in Device  BY ApplyWritesIs, ImportTypes
  <1>2. {next} \in Optional(Text)  BY SingleIs
  <1>3. baselines' \in [Device -> [Device -> Optional(Text)]]  BY <1>1, <1>2, BaselineTypes
  <1>4. /\ import' \in [Device -> Import \cup {Idle}]
        /\ imported' \in [Device -> [Device -> SUBSET Snapshot]]
        /\ refs' \in [Device -> [Device -> SUBSET Branch]]
        /\ \A x, y \in Device : Cardinality(imported'[x][y]) <= 1 /\ Cardinality(refs'[x][y]) <= 1
    BY <1>1, FinishTypes, ApplyWritesIs
  <1> QED  BY <1>3, <1>4, ReplaceTypes, ApplyWritesIs DEF TypeOK

LEMMA CrashIs ==
    ASSUME TypeOK, NEW d \in Device, Crash(d)
    PROVE  /\ import[d] \in Import
           /\ baselines' = [baselines EXCEPT ![d][import[d].from] = import[d].before]
           /\ import' = [import EXCEPT ![d] = Idle]
           /\ forgone' = forgone \cup TakenAway(d)
  BY UnderWay DEF Crash

LEMMA CrashKeepsTypes == ASSUME TypeOK, NEW d \in Device, Crash(d)  PROVE TypeOK'
  <1>1. import[d].from \in Device /\ import[d].before \in Optional(Text)
    BY CrashIs, ImportTypes
  <1>2. baselines' \in [Device -> [Device -> Optional(Text)]]  BY <1>1, CrashIs, BaselineTypes
  <1>3. import' \in [Device -> Import \cup {Idle}]  BY CrashIs DEF TypeOK
  <1>4. forgone' \subseteq Text  BY CrashIs, TakenAwayIs DEF TypeOK
  <1>5. crashes' \in 0..MaxCrashes  BY BoundAssumption DEF TypeOK, Crash
  <1> QED  BY <1>2, <1>3, <1>4, <1>5 DEF TypeOK, Crash, files

LEMMA StutterKeepsTypes == TypeOK /\ UNCHANGED vars => TypeOK'
  BY DEF TypeOK, vars, files, saved, history

LEMMA TypesKept == TypeOK /\ [Next]_vars => TypeOK'
  <1> SUFFICES ASSUME TypeOK, Next  PROVE TypeOK'
    BY StutterKeepsTypes
  <1> PICK d \in Device :
        \/ Type(d) \/ (\E t \in Text : Undo(d, t)) \/ Stage(d) \/ CommitAll(d)
        \/ Session(d) \/ Crash(d)
    BY DEF Next
  <1>1. CASE Type(d)  BY <1>1, TypeKeepsTypes
  <1>2. CASE \E t \in Text : Undo(d, t)  BY <1>2, UndoKeepsTypes
  <1>3. CASE Stage(d)  BY <1>3, StageKeepsTypes
  <1>4. CASE CommitAll(d)  BY <1>4, CommitKeepsTypes
  <1>5. CASE PublishLocal(d)  BY <1>5, PublishKeepsTypes
  <1>6. CASE \E e \in Device : Accept(d, e)  BY <1>6, AcceptKeepsTypes
  <1>7. CASE PrepareLooks(d)  BY <1>7, PrepareLooksKeepsTypes
  <1>8. CASE PrepareRestores(d)  BY <1>8, PrepareRestoresKeepsTypes
  <1>9. CASE ImportBundle(d)  BY <1>9, ImportBundleKeepsTypes
  <1>10. CASE ApplyLooks(d)  BY <1>10, ApplyLooksKeepsTypes
  <1>11. CASE ApplyWrites(d)  BY <1>11, ApplyWritesKeepsTypes
  <1>12. CASE Crash(d)  BY <1>12, CrashKeepsTypes
  <1> QED
    BY <1>1, <1>2, <1>3, <1>4, <1>5, <1>6, <1>7, <1>8, <1>9, <1>10, <1>11, <1>12 DEF Session

\* TypeOK: files, commits, snapshots and baselines are of their kinds, and never more than
\* one baseline, snapshot or branch is remembered of a peer.
THEOREM TypeCorrect == Spec => []TypeOK
  BY TypesInitially, TypesKept, PTL DEF Spec

-----------------------------------------------------------------------------
(***************************************************************************)
(* What is settled stays settled.                                           *)
(***************************************************************************)
LEMMA SettledKept ==
    ASSUME UNCHANGED lineage, forgone \subseteq forgone', displaced \subseteq displaced',
           \A d \in Device : Committed(d) \subseteq Committed(d)',
           \A d \in Device : trash[d] \subseteq trash'[d]
    PROVE  /\ Owed' \subseteq Owed /\ Typed' = Typed
           /\ \A t : IsCommitted(t) => IsCommitted(t)'
  <1>1. \A t : Settled(t) => Settled(t)'  BY DEF Settled, In
  <1>2. Typed' = Typed  BY DEF Typed
  <1>3. \A t : IsCommitted(t) => IsCommitted(t)'  BY DEF IsCommitted
  <1> QED  BY <1>1, <1>2, <1>3 DEF Owed

\* What a step that leaves the commits, the trash, the offers and the imports alone
\* leaves alone.
LEMMA Untouched ==
    ASSUME UNCHANGED <<commits, trash, published, import, lineage, displaced>>,
           forgone \subseteq forgone'
    PROVE  /\ \A x \in Device : /\ Committed(x)' = Committed(x) /\ Offered(x)' = Offered(x)
                                 /\ Brought(x)' = Brought(x) /\ PutBack(x)' = PutBack(x)
                                 /\ trash'[x] = trash[x]
           /\ Owed' \subseteq Owed /\ Typed' = Typed
  <1>1. \A x \in Device : /\ Committed(x)' = Committed(x) /\ Offered(x)' = Offered(x)
                          /\ Brought(x)' = Brought(x) /\ PutBack(x)' = PutBack(x)
                          /\ trash'[x] = trash[x]
    BY DEF Committed, Offered, Brought, PutBack
  <1> QED  BY <1>1, SettledKept

LEMMA StageKeeps == ASSUME LiveInv, NEW d \in Device, Stage(d)  PROVE LiveInv'
  <1>1. TypeOK'  BY StageKeepsTypes DEF LiveInv
  <1>2. /\ index' = [index EXCEPT ![d] = tree[d]]
        /\ UNCHANGED <<tree, commits, trash, published, baselines, import, lineage, forgone,
                       displaced>>
    BY DEF Stage, saved
  <1>3. Names'
    <2>1. \A x \in Device : index'[x] \in {index[x], tree[x]}  BY <1>2 DEF TypeOK, LiveInv
    <2> QED  BY <1>2, <2>1, Untouched DEF LiveInv, Names
  <1>4. Snapshots' /\ Stages'
    BY <1>2 DEF LiveInv, Snapshots, Stages, IsCommitted, Committed, Received, Brought
  <1>5. Holding' /\ Shown'
    BY <1>2 DEF LiveInv, Holding, Shown, Bringing, Owed, Settled, In, Shows, Offered, Brought,
                PutBack, Committed
  <1> QED  BY <1>1, <1>3, <1>4, <1>5 DEF LiveInv

LEMMA UndoKeeps ==
    ASSUME LiveInv, NEW d \in Device, NEW n \in Text, Undo(d, n)
    PROVE  LiveInv'
  <1>1. TypeOK'  BY UndoKeepsTypes DEF LiveInv
  <1>2. /\ tree' = [tree EXCEPT ![d] = n] /\ n \in {Absent, HeadText(d)}
        /\ forgone' = forgone \cup (lineage[tree[d]] \ lineage[n])
        /\ UNCHANGED <<index, commits, trash, published, baselines, import, lineage, displaced>>
    BY DEF Undo, Edit, saved
  <1>3. tree'[d] = n /\ \A x \in Device : x # d => tree'[x] = tree[x]
    BY <1>2 DEF LiveInv, TypeOK
  <1>4. /\ \A x \in Device : /\ Committed(x)' = Committed(x) /\ Offered(x)' = Offered(x)
                              /\ Brought(x)' = Brought(x) /\ PutBack(x)' = PutBack(x)
                              /\ trash'[x] = trash[x]
        /\ Owed' \subseteq Owed /\ Typed' = Typed
    BY <1>2, Untouched
  <1>5. Names'
    <2>1. n \in Typed  BY <1>2, HeadIs DEF LiveInv, Names, Typed
    <2> QED  BY <1>2, <1>3, <1>4, <2>1 DEF LiveInv, Names
  <1>6. Snapshots' /\ Stages'
    BY <1>2 DEF LiveInv, Snapshots, Stages, IsCommitted, Committed, Received, Brought
  <1>7. ASSUME NEW t \in Owed'
        PROVE  t \in Owed /\ \A x \in Device : t \in lineage[tree[x]] => t \in lineage[tree'[x]]
    BY <1>2, <1>3, <1>4 DEF Owed, Settled
  <1>8. Holding' /\ Shown'
    <2>1. \A t \in Owed', x \in Device : Shows(x, t) => Shows(x, t)'
      BY <1>2, <1>4, <1>7 DEF Shows, In
    <2>2. ASSUME NEW t \in Owed', NEW x \in Device, import'[x] # Idle
          PROVE  Bringing(x, t)'
      <3>1. Bringing(x, t)  BY <1>2, <1>7, <2>2 DEF LiveInv, Holding
      <3>2. In(t, {tree[x]} \cup Brought(x)) => In(t, {tree[x]} \cup Brought(x))'
        BY <1>2, <1>4, <1>7, <2>2 DEF In
      <3>3. import[x].from \in Device  BY <1>2, <2>2, FromDevice DEF LiveInv
      <3> QED  BY <1>2, <1>4, <3>1, <3>2, <3>3 DEF Bringing, In
    <2>3. ASSUME NEW t \in Owed', NEW x \in Device
          PROVE  /\ \A e \in Device : In(t, baselines[x][e])' => In(t, Offered(e))'
                 /\ In(t, Offered(x))' => Shows(x, t)'
      <3>1. /\ \A e \in Device : In(t, baselines[x][e]) => In(t, Offered(e))
            /\ In(t, Offered(x)) => Shows(x, t)
        BY <1>7 DEF LiveInv, Holding
      <3>2. \A S : In(t, S) <=> \E k \in S : t \in lineage'[k]  BY <1>2 DEF In
      <3> QED  BY <1>2, <1>4, <2>1, <3>1 DEF In
    <2> QED  BY <1>7, <2>1, <2>2, <2>3 DEF LiveInv, Holding, Shown
  <1> QED  BY <1>1, <1>5, <1>6, <1>8 DEF LiveInv

LEMMA CommitKeeps == ASSUME LiveInv, NEW d \in Device, CommitAll(d)  PROVE LiveInv'
  <1>1. TypeOK'  BY CommitKeepsTypes DEF LiveInv
  <1> DEFINE c == [text |-> tree[d], by |-> {d}]
  <1>2. /\ commits' = [commits EXCEPT ![d] = Append(commits[d], c)]
        /\ index' = [index EXCEPT ![d] = tree[d]]
        /\ UNCHANGED <<tree, trash, published, baselines, import, lineage, forgone, displaced>>
    BY DEF CommitAll, saved, history
  <1>3. Committed(d)' = Committed(d) \cup {tree[d]}
    <2>1. commits[d] \in Seq(Commit) /\ Len(commits[d]) \in Nat  BY HeadIs DEF LiveInv
    <2>2. commits'[d] = Append(commits[d], c)  BY <1>2 DEF LiveInv, TypeOK
    <2>3. c.text = tree[d]  OBVIOUS
    <2> HIDE DEF c
    <2>4. /\ DOMAIN commits'[d] = 1..(Len(commits[d]) + 1)
          /\ commits'[d][Len(commits[d]) + 1] = c
          /\ \A i \in 1..Len(commits[d]) : commits'[d][i] = commits[d][i]
          /\ DOMAIN commits[d] = 1..Len(commits[d])
      BY <2>1, <2>2
    <2>5. \A k \in Committed(d)' : k \in Committed(d) \cup {tree[d]}
      BY <2>1, <2>3, <2>4 DEF Committed
    <2>6. \A k \in Committed(d) : k \in Committed(d)'
      BY <2>1, <2>4 DEF Committed
    <2>7. tree[d] \in Committed(d)'
      BY <2>1, <2>3, <2>4 DEF Committed
    <2> QED  BY <2>5, <2>6, <2>7
  <1>4. \A x \in Device : x # d => Committed(x)' = Committed(x)
    BY <1>2 DEF LiveInv, TypeOK, Committed
  <1>5. /\ Owed' \subseteq Owed /\ Typed' = Typed /\ \A t : IsCommitted(t) => IsCommitted(t)'
        /\ \A x \in Device : /\ Offered(x)' = Offered(x)
                              /\ Brought(x)' = Brought(x) /\ PutBack(x)' = PutBack(x)
    <2>1. \A x \in Device : Committed(x) \subseteq Committed(x)'  BY <1>3, <1>4
    <2>2. /\ Owed' \subseteq Owed /\ Typed' = Typed /\ \A t : IsCommitted(t) => IsCommitted(t)'
      BY <1>2, <2>1, SettledKept
    <2> QED  BY <1>2, <2>2 DEF Offered, Brought, PutBack
  <1>6. Names'
    <2>1. \A x \in Device : index'[x] \in {index[x], tree[x]}  BY <1>2 DEF TypeOK, LiveInv
    <2> QED  BY <1>2, <1>3, <1>4, <1>5, <2>1 DEF LiveInv, Names
  <1>7. Snapshots' /\ Stages'
    BY <1>2, <1>5 DEF LiveInv, Snapshots, Stages, Received, Brought
  <1>8. Holding' /\ Shown'
    BY <1>2, <1>5, FromDevice DEF LiveInv, Holding, Shown, Bringing, In, Shows
  <1> QED  BY <1>1, <1>6, <1>7, <1>8 DEF LiveInv

LEMMA PublishKeeps == ASSUME LiveInv, NEW d \in Device, PublishLocal(d)  PROVE LiveInv'
  <1>1. TypeOK'  BY PublishKeepsTypes DEF LiveInv
  <1> DEFINE s == [commits |-> commits[d], overlay |-> {tree[d]} \ {HeadText(d)}]
  <1>2. /\ published' = [published EXCEPT ![d] = {s}]
        /\ forgone' = forgone \cup TakenAway(d)
        /\ UNCHANGED <<tree, index, commits, trash, baselines, import, lineage, displaced>>
    BY DEF PublishLocal, files, saved
  <1>3. s.commits = commits[d] /\ s.overlay = {tree[d]} \ {HeadText(d)}  OBVIOUS
  <1> HIDE DEF s
  <1>4. published'[d] = {s} /\ \A x \in Device : x # d => published'[x] = published[x]
    BY <1>2 DEF LiveInv, TypeOK
  <1>5. /\ Offered(d)' = {tree[d]} \ {HeadText(d)}
        /\ \A x \in Device : x # d => Offered(x)' = Offered(x)
    BY <1>3, <1>4 DEF Offered
  <1>6. /\ \A x \in Device : /\ Committed(x)' = Committed(x)
                              /\ Brought(x)' = Brought(x) /\ PutBack(x)' = PutBack(x)
        /\ \A t : IsCommitted(t) => IsCommitted(t)'
        /\ Owed' \subseteq Owed /\ Typed' = Typed
    <2>1. \A x \in Device : /\ Committed(x)' = Committed(x)
                            /\ Brought(x)' = Brought(x) /\ PutBack(x)' = PutBack(x)
      BY <1>2 DEF Committed, Brought, PutBack
    <2> QED  BY <1>2, <2>1, SettledKept
  <1>7. Names'
    BY <1>2, <1>5, <1>6 DEF LiveInv, Names
  <1>8. Snapshots'
    <2>1. \A i \in DOMAIN s.commits : IsCommitted(s.commits[i].text)
      BY <1>3 DEF IsCommitted, Committed
    <2>2. \A x \in Device : published'[x] = {s} \/ published'[x] = published[x]
      BY <1>4
    <2> QED  BY <1>2, <1>6, <2>1, <2>2 DEF LiveInv, Snapshots
  <1>9. Stages'
    BY <1>2, <1>6 DEF LiveInv, Stages, Received
  <1>10. ASSUME NEW t \in Owed'
         PROVE  /\ t \in Owed
                /\ \A x \in Device : In(t, Offered(x)) => In(t, Offered(x))'
                /\ \A x \in Device : In(t, Offered(x))' => Shows(x, t)'
    <2>1. t \in Owed  BY <1>6
    <2>2. t \notin TakenAway(d) /\ t \notin lineage[HeadText(d)]
      BY <1>2, <1>6, HeadIs DEF LiveInv, Owed, Settled, In
    <2>3. In(t, Offered(d)) => t \in lineage[tree[d]]
      BY <2>1, <2>2 DEF LiveInv, Holding, Shows, In, PutBack, TakenAway
    <2>4. In(t, Offered(d)) => In(t, Offered(d))'
      BY <1>2, <1>5, <2>2, <2>3 DEF In
    <2>5. In(t, Offered(d))' => Shows(d, t)'
      BY <1>2, <1>5 DEF In, Shows
    <2>6. \A x \in Device : x # d =>
             /\ In(t, Offered(x))' <=> In(t, Offered(x))
             /\ Shows(x, t)' <=> Shows(x, t)
      BY <1>2, <1>5, <1>6 DEF In, Shows
    <2>7. \A x \in Device : In(t, Offered(x)) => Shows(x, t)
      BY <2>1 DEF LiveInv, Holding
    <2> QED  BY <2>1, <2>4, <2>5, <2>6, <2>7
  <1>11. Holding'
    <2> SUFFICES ASSUME NEW t \in Owed', NEW x \in Device
                 PROVE  /\ \A e \in Device : In(t, baselines[x][e])' => In(t, Offered(e))'
                        /\ import'[x] # Idle => Bringing(x, t)'
      BY <1>10 DEF Holding
    <2>1. \A e \in Device : In(t, baselines[x][e])' => In(t, Offered(e))'
      BY <1>2, <1>10 DEF LiveInv, Holding, In
    <2>2. ASSUME import[x] # Idle  PROVE Bringing(x, t)'
      <3> PICK e \in Device : e = import[x].from
        BY <2>2, FromDevice DEF LiveInv
      <3>1. Bringing(x, t)  BY <1>10, <2>2 DEF LiveInv, Holding
      <3>2. In(t, Offered(e)) => In(t, Offered(e))'  BY <1>10
      <3>3. /\ Brought(x)' = Brought(x) /\ lineage' = lineage /\ tree' = tree
            /\ import' = import /\ baselines' = baselines
        BY <1>2, <1>6
      <3>4. In(t, Brought(x))' <=> In(t, Brought(x))  BY <3>3 DEF In
      <3>5. In(t, {tree[x]} \cup Brought(x))' <=> In(t, {tree[x]} \cup Brought(x))
        BY <3>3 DEF In
      <3>6. In(t, baselines[x][import[x].from])' <=> In(t, baselines[x][e])
        BY <3>3 DEF In
      <3>7. In(t, import[x].before)' <=> In(t, import[x].before)
        BY <3>3 DEF In
      <3> QED  BY <3>1, <3>2, <3>3, <3>4, <3>5, <3>6, <3>7 DEF Bringing
    <2> QED  BY <1>2, <2>1, <2>2
  <1>12. Shown'
    <2>1. \A x \in Device, t \in Owed : Shows(x, t) => Shows(x, t)'
      BY <1>2, <1>6 DEF Shows, In
    <2> QED  BY <1>10, <2>1 DEF LiveInv, Shown
  <1> QED  BY <1>1, <1>7, <1>8, <1>9, <1>11, <1>12 DEF LiveInv

LEMMA AcceptKeeps ==
    ASSUME LiveInv, NEW d \in Device, NEW e \in Device, Accept(d, e)
    PROVE  LiveInv'
  <1>1. TypeOK'  BY AcceptKeepsTypes DEF LiveInv
  <1> PICK s \in published[e], i \in Import :
               /\ import' = [import EXCEPT ![d] = i]
               /\ i.phase = "prepare" /\ i.from = e /\ i.snapshot = s /\ i.taken = Absent
               /\ i.before = baselines[d][e]
    BY AcceptIs DEF LiveInv
  <1>2. UNCHANGED <<tree, index, commits, trash, published, baselines, lineage, forgone, displaced>>
    BY DEF Accept, files, saved, history
  <1>3. import[d] = Idle /\ import'[d] = i /\ i # Idle
        /\ \A x \in Device : x # d => import'[x] = import[x]
    BY ImportTypes DEF LiveInv, TypeOK, Accept
  <1>4. Offered(e) = s.overlay  BY DEF LiveInv, Snapshots, Offered
  <1>5. /\ Brought(d)' = Offered(e) /\ PutBack(d)' = {Absent} /\ PutBack(d) = {}
        /\ \A x \in Device : x # d => Brought(x)' = Brought(x) /\ PutBack(x)' = PutBack(x)
    BY <1>3, <1>4 DEF Brought, PutBack
  <1>6. \A x \in Device : Committed(x)' = Committed(x) /\ Offered(x)' = Offered(x)
    BY <1>2 DEF Committed, Offered
  <1>7. /\ \A t : IsCommitted(t) => IsCommitted(t)'
        /\ Owed' \subseteq Owed /\ Typed' = Typed
    BY <1>2, <1>6, SettledKept
  <1>8. Names'
    <2>1. \A x \in Device : import'[x] # Idle => import'[x].before \subseteq Typed
      BY <1>3 DEF LiveInv, Names
    <2>2. Absent \in Typed  BY DEF Typed
    <2>3. \A x \in Device : Offered(x)' \cup Brought(x)' \cup PutBack(x)' \subseteq Typed
      BY <1>5, <1>6, <2>2 DEF LiveInv, Names
    <2> QED  BY <1>2, <1>6, <1>7, <2>1, <2>3 DEF LiveInv, Names
  <1>9. Snapshots'
    BY <1>2, <1>3, <1>7 DEF LiveInv, Snapshots
  <1>10. Stages'
    <2>1. \A x \in Device : x # d => Brought(x)' = Brought(x) /\ (Received(x)' <=> Received(x))
      BY <1>2, <1>3, <1>5 DEF Received
    <2> QED  BY <1>3, <1>7, <2>1 DEF LiveInv, Stages
  <1>11. \A x \in Device : \A t : Shows(x, t) => Shows(x, t)'
    BY <1>2, <1>5 DEF Shows, In
  <1>12. Shown'
    BY <1>7, <1>11 DEF LiveInv, Shown
  <1>13. Holding'
    <2> SUFFICES ASSUME NEW t \in Owed', NEW x \in Device
                 PROVE  /\ \A y \in Device : In(t, baselines[x][y])' => In(t, Offered(y))'
                        /\ In(t, Offered(x))' => Shows(x, t)'
                        /\ import'[x] # Idle => Bringing(x, t)'
      BY DEF Holding
    <2>0. t \in Owed  BY <1>7
    <2>1. \A y \in Device : In(t, baselines[x][y])' => In(t, Offered(y))'
      BY <1>2, <1>6, <2>0 DEF LiveInv, Holding, In
    <2>2. In(t, Offered(x))' => Shows(x, t)'
      BY <1>2, <1>6, <1>11, <2>0 DEF LiveInv, Holding, In
    <2>3. CASE x = d
      <3>1. In(t, baselines[d][e]) => In(t, Offered(e))  BY <2>0 DEF LiveInv, Holding
      <3>2. t \notin lineage[Absent]  BY DEF LiveInv, Names
      <3> QED  BY <1>2, <1>3, <1>5, <1>6, <2>1, <2>2, <2>3, <3>1, <3>2 DEF Bringing, In
    <2>4. CASE x # d
      <3>1. import[x] # Idle => Bringing(x, t)  BY <2>0 DEF LiveInv, Holding
      <3>2. import[x] # Idle => import[x].from \in Device  BY FromDevice DEF LiveInv
      <3> QED  BY <1>2, <1>3, <1>5, <1>6, <2>1, <2>2, <2>4, <3>1, <3>2 DEF Bringing, In
    <2> QED  BY <2>3, <2>4
  <1> QED  BY <1>1, <1>8, <1>9, <1>10, <1>12, <1>13 DEF LiveInv

\* An import goes on, with what it brings and what it has put back.
LEMMA ImportGoesOn ==
    ASSUME TypeOK, NEW d \in Device, import[d] \in Import, NEW i \in Import,
           import' = [import EXCEPT ![d] = i],
           i.from = import[d].from, i.snapshot = import[d].snapshot,
           i.before = import[d].before, i.taken = import[d].taken
    PROVE  /\ import'[d] = i /\ \A x \in Device : x # d => import'[x] = import[x]
           /\ \A x \in Device :
                 /\ import'[x] # Idle <=> import[x] # Idle
                 /\ Brought(x)' = Brought(x) /\ PutBack(x)' = PutBack(x)
                 /\ import'[x].from = import[x].from /\ import'[x].snapshot = import[x].snapshot
                 /\ import'[x].before = import[x].before /\ import'[x].taken = import[x].taken
  <1>1. import'[d] = i /\ \A x \in Device : x # d => import'[x] = import[x]  BY DEF TypeOK
  <1>2. i # Idle /\ import[d] # Idle  BY ImportTypes
  <1> QED  BY <1>1, <1>2 DEF Brought, PutBack

\* It keeps what holds of texts that are owed, if the files and offers are left alone and
\* no baseline is added.
LEMMA GoingOnKeeps ==
    ASSUME LiveInv, NEW d \in Device, import[d] \in Import, NEW i \in Import,
           import' = [import EXCEPT ![d] = i],
           i.from = import[d].from, i.snapshot = import[d].snapshot,
           i.before = import[d].before, i.taken = import[d].taken,
           UNCHANGED <<tree, index, commits, trash, published, lineage, forgone, displaced>>,
           \A x, y \in Device : baselines'[x][y] \subseteq baselines[x][y]
    PROVE  Names' /\ Snapshots' /\ Holding' /\ Shown'
  <1>1. /\ \A x \in Device : Committed(x)' = Committed(x) /\ Offered(x)' = Offered(x)
        /\ \A t : IsCommitted(t) => IsCommitted(t)'
        /\ Owed' \subseteq Owed /\ Typed' = Typed
    <2>1. \A x \in Device : Committed(x)' = Committed(x) /\ Offered(x)' = Offered(x)
      BY DEF Committed, Offered
    <2> QED  BY <2>1, SettledKept
  <1>2. \A x \in Device :
                 /\ import'[x] # Idle <=> import[x] # Idle
                 /\ Brought(x)' = Brought(x) /\ PutBack(x)' = PutBack(x)
                 /\ import'[x].from = import[x].from /\ import'[x].snapshot = import[x].snapshot
                 /\ import'[x].before = import[x].before /\ import'[x].taken = import[x].taken
    BY ImportGoesOn DEF LiveInv
  <1>3. Names'  BY <1>1, <1>2 DEF LiveInv, Names
  <1>4. Snapshots'  BY <1>1, <1>2 DEF LiveInv, Snapshots
  <1>5. \A x \in Device : \A t : Shows(x, t)' <=> Shows(x, t)  BY <1>2 DEF Shows, In
  <1>6. Shown'  BY <1>1, <1>5 DEF LiveInv, Shown
  <1>7. Holding'
    <2> SUFFICES ASSUME NEW t \in Owed', NEW x \in Device
                 PROVE  /\ \A y \in Device : In(t, baselines[x][y])' => In(t, Offered(y))'
                        /\ In(t, Offered(x))' => Shows(x, t)'
                        /\ import'[x] # Idle => Bringing(x, t)'
      BY DEF Holding
    <2>0. t \in Owed  BY <1>1
    <2>1. \A y \in Device : In(t, baselines[x][y])' => In(t, Offered(y))'
      BY <1>1, <2>0 DEF LiveInv, Holding, In
    <2>2. In(t, Offered(x))' => Shows(x, t)'
      BY <1>1, <1>5, <2>0 DEF LiveInv, Holding, In
    <2>3. ASSUME import[x] # Idle  PROVE Bringing(x, t)'
      <3>1. Bringing(x, t) /\ import[x].from \in Device
        BY <2>0, <2>3, FromDevice DEF LiveInv, Holding
      <3> QED  BY <1>1, <1>2, <3>1 DEF Bringing, In
    <2> QED  BY <1>2, <2>1, <2>2, <2>3
  <1> QED  BY <1>3, <1>4, <1>6, <1>7

LEMMA PrepareLooksKeeps == ASSUME LiveInv, NEW d \in Device, PrepareLooks(d)  PROVE LiveInv'
  <1>1. TypeOK'  BY PrepareLooksKeepsTypes DEF LiveInv
  <1>2. import[d] \in Import /\ import[d] # Idle  BY PrepareLooksIs, ImportTypes DEF LiveInv
  <1> PICK i \in Import :
                /\ import' = [import EXCEPT ![d] = i]
                /\ i.from = import[d].from /\ i.snapshot = import[d].snapshot
                /\ i.before = import[d].before /\ i.taken = import[d].taken
                /\ i.phase = "restore" \/ i.phase = "merge"
                /\ i.phase = "restore" => /\ i.seen \in baselines[d][i.from]
                                          /\ import[d].phase = "prepare"
                                          /\ UNCHANGED baselines
                /\ i.phase = "merge" =>
                      UNCHANGED baselines \/ baselines' = [baselines EXCEPT ![d][i.from] = {}]
    BY PrepareLooksIs DEF LiveInv
  <1>3. i.from \in Device  BY ImportTypes
  <1>4. \A x, y \in Device :
           /\ baselines'[x][y] \subseteq baselines[x][y]
           /\ x # d => baselines'[x][y] = baselines[x][y]
    <2>1. CASE UNCHANGED baselines
      BY <2>1
    <2>2. CASE baselines' = [baselines EXCEPT ![d][i.from] = {}]
      <3>1. {} \in Optional(Text)  BY TextIs, SingleIs
      <3> QED  BY <1>3, <2>2, <3>1, BaselineTypes DEF LiveInv
    <2> QED  BY <2>1, <2>2
  <1>5. UNCHANGED <<tree, index, commits, trash, published, lineage, forgone, displaced>>
    BY DEF PrepareLooks, files, history
  <1>6. Names' /\ Snapshots' /\ Holding' /\ Shown'
    BY <1>2, <1>4, <1>5, GoingOnKeeps
  <1>7. Stages'
    <2> SUFFICES ASSUME NEW x \in Device, import'[x] # Idle
                 PROVE  /\ import'[x].phase \in {"prepare", "restore"} => import'[x].taken = Absent
                        /\ import'[x].phase = "restore" => Received(x)'
                        /\ import'[x].phase = "write" =>
                              \/ Received(x)' \/ IsCommitted(import[x].seen)'
                              \/ import'[x].seen \in Brought(x)'
      BY DEF Stages
    <2>1. CASE x = d
      <3>1. import'[d] = i  BY DEF LiveInv, TypeOK
      <3> QED  BY <1>2, <2>1, <3>1 DEF LiveInv, Stages, Received
    <2>2. CASE x # d
      <3>1. import'[x] = import[x] /\ import[x].from \in Device
        BY <2>2, FromDevice DEF LiveInv, TypeOK
      <3> QED  BY <1>4, <1>5, <2>2, <3>1 DEF LiveInv, Stages, Received, IsCommitted, Committed,
                                             Brought
    <2> QED  BY <2>1, <2>2
  <1> QED  BY <1>1, <1>6, <1>7 DEF LiveInv

\* An import that ends keeps the invariant, if its device goes on showing what is owed and
\* the baseline it leaves is of what the peer offers.
LEMMA EndKeeps ==
    ASSUME LiveInv, NEW d \in Device, import[d] \in Import, NEW e \in Device, e = import[d].from,
           import' = [import EXCEPT ![d] = Idle],
           UNCHANGED <<index, commits, published, lineage>>,
           forgone \subseteq forgone', displaced \subseteq displaced',
           \A x \in Device : trash[x] \subseteq trash'[x] /\ trash'[x] \subseteq Typed,
           \A x \in Device : x # d => tree'[x] = tree[x],
           tree'[d] \in Typed,
           \A x, y \in Device : x # d \/ y # e => baselines'[x][y] = baselines[x][y],
           baselines'[d][e] \subseteq Typed,
           \A t \in Owed' : \A k \in baselines'[d][e] : t \in lineage[k] => In(t, Offered(e)),
           \A t \in Owed' : t \in lineage[tree[d]] \cup lineage[import[d].taken]
                               => t \in lineage[tree'[d]]
    PROVE  Names' /\ Snapshots' /\ Stages' /\ Holding' /\ Shown'
  <1>1. import'[d] = Idle /\ import[d] # Idle /\ \A x \in Device : x # d => import'[x] = import[x]
    BY ImportTypes DEF LiveInv, TypeOK
  <1>2. /\ \A x \in Device : Committed(x)' = Committed(x) /\ Offered(x)' = Offered(x)
        /\ \A t : IsCommitted(t) => IsCommitted(t)'
        /\ Owed' \subseteq Owed /\ Typed' = Typed
    <2>1. \A x \in Device : Committed(x)' = Committed(x) /\ Offered(x)' = Offered(x)
      BY DEF Committed, Offered
    <2> QED  BY <2>1, SettledKept
  <1>3. /\ Brought(d)' = {} /\ PutBack(d)' = {} /\ PutBack(d) = {import[d].taken}
        /\ \A x \in Device : x # d => Brought(x)' = Brought(x) /\ PutBack(x)' = PutBack(x)
    BY <1>1 DEF Brought, PutBack
  <1>4. Names'
    <2>1. \A x \in Device : /\ {tree'[x], index'[x]} \cup Committed(x)' \cup trash'[x] \subseteq Typed
                            /\ Offered(x)' \cup Brought(x)' \cup PutBack(x)' \subseteq Typed
      BY <1>2, <1>3 DEF LiveInv, Names
    <2>2. \A x, y \in Device : baselines'[x][y] \subseteq Typed  BY DEF LiveInv, Names
    <2>3. \A x \in Device : import'[x] # Idle => import'[x].before \subseteq Typed
      BY <1>1 DEF LiveInv, Names
    <2> QED  BY <1>2, <2>1, <2>2, <2>3 DEF LiveInv, Names
  <1>5. Snapshots'  BY <1>1, <1>2 DEF LiveInv, Snapshots
  <1>6. Stages'
    <2> SUFFICES ASSUME NEW x \in Device, import'[x] # Idle
                 PROVE  /\ import'[x].phase \in {"prepare", "restore"} => import'[x].taken = Absent
                        /\ import'[x].phase = "restore" => Received(x)'
                        /\ import'[x].phase = "write" =>
                              \/ Received(x)' \/ IsCommitted(import[x].seen)'
                              \/ import'[x].seen \in Brought(x)'
      BY DEF Stages
    <2>1. x # d /\ import'[x] = import[x] /\ import[x].from \in Device
      BY <1>1, FromDevice DEF LiveInv
    <2>2. Received(x)' <=> Received(x)  BY <2>1 DEF Received
    <2> QED  BY <1>2, <1>3, <2>1, <2>2 DEF LiveInv, Stages
  <1>7. \A t \in Owed', x \in Device : Shows(x, t) => Shows(x, t)'
    <2> SUFFICES ASSUME NEW t \in Owed', NEW x \in Device, Shows(x, t)
                 PROVE  Shows(x, t)'
      OBVIOUS
    <2>1. CASE x = d
      BY <1>3, <2>1 DEF Shows, In
    <2>2. CASE x # d
      BY <1>3, <2>2 DEF Shows, In
    <2> QED  BY <2>1, <2>2
  <1>8. Shown'  BY <1>2, <1>7 DEF LiveInv, Shown
  <1>9. Holding'
    <2> SUFFICES ASSUME NEW t \in Owed', NEW x \in Device
                 PROVE  /\ \A y \in Device : In(t, baselines[x][y])' => In(t, Offered(y))'
                        /\ In(t, Offered(x))' => Shows(x, t)'
                        /\ import'[x] # Idle => Bringing(x, t)'
      BY DEF Holding
    <2>0. t \in Owed  BY <1>2
    <2>1. \A y \in Device : In(t, baselines[x][y])' => In(t, Offered(y))'
      <3> SUFFICES ASSUME NEW y \in Device, In(t, baselines[x][y])'
                   PROVE  In(t, Offered(y))'
        OBVIOUS
      <3>1. CASE x = d /\ y = e
        BY <1>2, <3>1 DEF In
      <3>2. CASE x # d \/ y # e
        BY <1>2, <2>0, <3>2 DEF LiveInv, Holding, In
      <3> QED  BY <3>1, <3>2
    <2>2. In(t, Offered(x))' => Shows(x, t)'
      BY <1>2, <1>7, <2>0 DEF LiveInv, Holding, In
    <2>3. ASSUME import'[x] # Idle  PROVE Bringing(x, t)'
      <3>1. x # d /\ import'[x] = import[x]  BY <1>1, <2>3
      <3>2. Bringing(x, t) /\ import[x].from \in Device
        BY <2>0, <2>3, <3>1, FromDevice DEF LiveInv, Holding
      <3> QED  BY <1>2, <1>3, <3>1, <3>2 DEF Bringing, In
    <2> QED  BY <2>1, <2>2, <2>3
  <1> QED  BY <1>4, <1>5, <1>6, <1>8, <1>9

LEMMA CrashKeeps == ASSUME LiveInv, NEW d \in Device, Crash(d)  PROVE LiveInv'
  <1>1. TypeOK'  BY CrashKeepsTypes DEF LiveInv
  <1>2. /\ import[d] \in Import /\ import[d] # Idle
        /\ baselines' = [baselines EXCEPT ![d][import[d].from] = import[d].before]
        /\ import' = [import EXCEPT ![d] = Idle]
        /\ forgone' = forgone \cup TakenAway(d)
    BY CrashIs, ImportTypes DEF LiveInv
  <1>3. UNCHANGED <<tree, index, commits, trash, published, lineage, displaced>>
    BY DEF Crash, files
  <1> PICK e \in Device : e = import[d].from
    BY <1>2, ImportTypes
  <1>4. /\ baselines'[d][e] = import[d].before
        /\ \A x, y \in Device : x # d \/ y # e => baselines'[x][y] = baselines[x][y]
    <2>1. import[d].before \in Optional(Text)  BY <1>2, ImportTypes
    <2>2. baselines' = [baselines EXCEPT ![d][e] = import[d].before]  BY <1>2
    <2>3. TypeOK  BY DEF LiveInv
    <2>4. baselines'[d][e] = import[d].before  BY <2>1, <2>2, <2>3, BaselineTypes
    <2>5. \A x, y \in Device : x # d \/ y # e => baselines'[x][y] = baselines[x][y]
      BY <2>1, <2>2, <2>3, BaselineTypes
    <2> QED  BY <2>4, <2>5
  <1>5. baselines'[d][e] \subseteq Typed /\ tree'[d] \in Typed
          /\ \A x \in Device : trash'[x] \subseteq Typed
    BY <1>2, <1>3, <1>4 DEF LiveInv, Names
  <1>6. ASSUME NEW t \in Owed'
        PROVE  /\ \A k \in baselines'[d][e] : t \in lineage[k] => In(t, Offered(e))
               /\ t \in lineage[tree[d]] \cup lineage[import[d].taken] => t \in lineage[tree'[d]]
    <2>1. t \in Owed /\ t \notin forgone'
      <3>1. \A x \in Device : Committed(x)' = Committed(x)  BY <1>3 DEF Committed
      <3> QED  BY <1>2, <1>3, <3>1, SettledKept DEF Owed, Settled
    <2>2. t \in lineage[import[d].taken] => t \in lineage[tree[d]]
      BY <1>2, <2>1 DEF TakenAway
    <2> QED  BY <1>2, <1>3, <1>4, <2>1, <2>2 DEF LiveInv, Holding, Bringing, In
  <1> QED  BY <1>1, <1>2, <1>3, <1>4, <1>5, <1>6, EndKeeps DEF LiveInv

\* The stages of the imports of other devices.
LEMMA StagesElsewhere ==
    ASSUME LiveInv, NEW d \in Device,
           \A t : IsCommitted(t) => IsCommitted(t)',
           \A x \in Device : x # d =>
              /\ import'[x] = import[x] /\ Brought(x)' = Brought(x)
              /\ \A y \in Device : baselines'[x][y] = baselines[x][y],
           import'[d] # Idle =>
              /\ import'[d].phase \in {"prepare", "restore"} => import'[d].taken = Absent
              /\ import'[d].phase = "restore" => Received(d)'
              /\ import'[d].phase = "write" =>
                    Received(d)' \/ IsCommitted(import[d].seen)' \/ import'[d].seen \in Brought(d)'
    PROVE  Stages'
  <1> SUFFICES ASSUME NEW x \in Device, import'[x] # Idle, x # d
               PROVE  /\ import'[x].phase \in {"prepare", "restore"} => import'[x].taken = Absent
                      /\ import'[x].phase = "restore" => Received(x)'
                      /\ import'[x].phase = "write" =>
                            \/ Received(x)' \/ IsCommitted(import[x].seen)'
                            \/ import'[x].seen \in Brought(x)'
    BY DEF Stages
  <1>1. import'[x] = import[x] /\ import[x].from \in Device
    BY FromDevice DEF LiveInv
  <1>2. Received(x)' <=> Received(x)  BY <1>1 DEF Received
  <1>3. IsCommitted(import[x].seen) => IsCommitted(import[x].seen)'
    BY <1>1 DEF IsCommitted
  <1> QED  BY <1>1, <1>2, <1>3 DEF LiveInv, Stages

LEMMA SafeIs ==
    ASSUME LiveInv, NEW d \in Device, import[d] \in Import, NEW n, Safe(d, n)
    PROVE  tree[d] = n \/ IsCommitted(tree[d]) \/ tree[d] \in baselines[d][import[d].from]
  <1> DEFINE b == import[d].snapshot.commits
  <1>1. b \in Branch /\ import[d] # Idle  BY ImportTypes
  <1>2. Len(b) \in DOMAIN b /\ Last(b) = b[Len(b)]  BY <1>1, LastIs
  <1>3. IsCommitted(Last(b).text)  BY <1>1, <1>2 DEF LiveInv, Snapshots
  <1> QED  BY <1>3 DEF Safe

LEMMA ApplyLooksKeeps == ASSUME LiveInv, NEW d \in Device, ApplyLooks(d)  PROVE LiveInv'
  <1>1. TypeOK'  BY ApplyLooksKeepsTypes DEF LiveInv
  <1>2. import[d] \in Import /\ import[d] # Idle  BY ApplyLooksIs, ImportTypes DEF LiveInv
  <1>3. UNCHANGED <<tree, index, commits, trash, published, lineage, forgone>>
    BY DEF ApplyLooks, files
  <1> PICK e \in Device : e = import[d].from
    BY <1>2, ImportTypes
  <1>4. Brought(d) \in Optional(Text)  BY <1>2, ImportTypes DEF Brought
  <1>5. /\ tree'[d] \in Typed
        /\ \A x \in Device : trash[x] \subseteq trash'[x] /\ trash'[x] \subseteq Typed
    BY <1>3 DEF LiveInv, Names
  <1>6. displaced \subseteq displaced' => Owed' \subseteq Owed
    <2>1. \A x \in Device : Committed(x)' = Committed(x)  BY <1>3 DEF Committed
    <2> QED  BY <1>3, <2>1, SettledKept
  <1>7. CASE /\ Finish(d) /\ Brought(d) = {}
             /\ UNCHANGED <<copies, baselines, displaced>>
    <2>1. import' = [import EXCEPT ![d] = Idle]  BY <1>7 DEF Finish
    <2>2. baselines'[d][e] \subseteq Typed  BY <1>7 DEF LiveInv, Names
    <2>3. ASSUME NEW t \in Owed'
          PROVE  /\ \A k \in baselines'[d][e] : t \in lineage[k] => In(t, Offered(e))
                 /\ t \in lineage[tree[d]] \cup lineage[import[d].taken] => t \in lineage[tree'[d]]
      <3>1. t \in Owed  BY <1>6, <1>7
      <3> QED  BY <1>2, <1>3, <1>7, <3>1 DEF LiveInv, Holding, Bringing, In
    <2> QED  BY <1>1, <1>2, <1>3, <1>5, <1>7, <2>1, <2>2, <2>3, EndKeeps DEF LiveInv
  <1>8. ASSUME NEW next \in Brought(d), Finish(d),
               baselines' = [baselines EXCEPT ![d][import[d].from] = {next}],
               \/ tree[d] = next /\ UNCHANGED displaced
               \/ displaced' = displaced \cup TakenAway(d)
        PROVE  LiveInv'
    <2>1. import' = [import EXCEPT ![d] = Idle]  BY <1>8 DEF Finish
    <2>2. /\ baselines'[d][e] = {next}
          /\ \A x, y \in Device : x # d \/ y # e => baselines'[x][y] = baselines[x][y]
      <3>1. {next} \in Optional(Text)  BY <1>4, <1>8, OptionalIs, SingleIs
      <3>2. baselines' = [baselines EXCEPT ![d][e] = {next}] /\ TypeOK  BY <1>8 DEF LiveInv
      <3>3. baselines'[d][e] = {next}  BY <3>1, <3>2, BaselineTypes
      <3>4. \A x, y \in Device : x # d \/ y # e => baselines'[x][y] = baselines[x][y]
        BY <3>1, <3>2, BaselineTypes
      <3> QED  BY <3>3, <3>4
    <2>3. baselines'[d][e] \subseteq Typed  BY <1>8, <2>2 DEF LiveInv, Names
    <2>4. \A k \in Brought(d) : k = next  BY <1>4, <1>8, OptionalIs
    <2>5. ASSUME NEW t \in Owed'
          PROVE  /\ \A k \in baselines'[d][e] : t \in lineage[k] => In(t, Offered(e))
                 /\ t \in lineage[tree[d]] \cup lineage[import[d].taken] => t \in lineage[tree'[d]]
      <3>1. t \in Owed  BY <1>6, <1>8
      <3>2. Bringing(d, t)  BY <1>2, <3>1 DEF LiveInv, Holding
      <3>3. In(t, Brought(d)) => In(t, Offered(e))  BY <3>2 DEF Bringing
      <3>4. \A k \in baselines'[d][e] : t \in lineage[k] => In(t, Offered(e))
        BY <1>8, <2>2, <3>3 DEF In
      <3>5. t \in lineage[import[d].taken] => t \in lineage[tree[d]]
        <4>1. CASE tree[d] = next
          BY <2>4, <3>2, <4>1 DEF Bringing, In
        <4>2. CASE displaced' = displaced \cup TakenAway(d)
          BY <1>2, <4>2 DEF Owed, Settled, TakenAway
        <4> QED  BY <1>8, <4>1, <4>2
      <3> QED  BY <1>3, <3>4, <3>5
    <2>6. displaced \subseteq displaced' /\ forgone \subseteq forgone'  BY <1>3, <1>8
    <2>7. Names' /\ Snapshots' /\ Stages' /\ Holding' /\ Shown'
      BY <1>2, <1>3, <1>5, <2>1, <2>2, <2>3, <2>5, <2>6, EndKeeps
    <2> QED  BY <1>1, <2>7 DEF LiveInv
  <1>9. ASSUME NEW i \in Import,
               import' = [import EXCEPT ![d] = i],
               i.from = import[d].from, i.snapshot = import[d].snapshot,
               i.before = import[d].before, i.taken = import[d].taken,
               i.phase = "write", i.seen = tree[d],
               \E next \in Brought(d) : Safe(d, next) /\ tree[d] # next,
               UNCHANGED <<copies, baselines, imported, refs, displaced>>
        PROVE  LiveInv'
    <2>1. Names' /\ Snapshots' /\ Holding' /\ Shown'
      BY <1>2, <1>3, <1>9, GoingOnKeeps
    <2>2. import'[d] = i /\ \A x \in Device : x # d => import'[x] = import[x]
      BY <1>9 DEF LiveInv, TypeOK
    <2>3. i.seen \in baselines[d][e] \/ IsCommitted(i.seen)  BY <1>2, <1>9, SafeIs
    <2>4. \A t : IsCommitted(t) => IsCommitted(t)'  BY <1>3 DEF IsCommitted, Committed
    <2>5. Received(d)' \/ IsCommitted(import[d].seen)'
      BY <1>9, <2>2, <2>3, <2>4 DEF Received, IsCommitted
    <2>6. Stages'
      BY <1>9, <2>2, <2>4, <2>5, StagesElsewhere DEF Brought
    <2> QED  BY <1>1, <2>1, <2>6 DEF LiveInv
  <1> QED  BY <1>7, <1>8, <1>9, ApplyLooksIs DEF LiveInv

\* What Replace takes away is quarantined or given up, unless the import had looked at it.
LEMMA ReplaceIs ==
    ASSUME LiveInv, NEW d \in Device, NEW n \in Text, Replace(d, n),
           UNCHANGED <<commits, lineage, displaced>>
    PROVE  /\ tree'[d] = n /\ \A x \in Device : x # d => tree'[x] = tree[x]
           /\ forgone \subseteq forgone'
           /\ \A x \in Device : trash[x] \subseteq trash'[x] /\ trash'[x] \subseteq Typed
           /\ Owed' \subseteq Owed /\ Typed' = Typed
           /\ \A t : IsCommitted(t) => IsCommitted(t)'
           /\ \A t \in Owed' : t \in lineage[tree[d]] =>
                 t \in lineage[n] \/ (tree[d] = import[d].seen /\ n # Absent)
  <1>1. tree'[d] = n /\ \A x \in Device : x # d => tree'[x] = tree[x]
    BY DEF LiveInv, TypeOK, Replace
  <1>2. forgone \subseteq forgone'  BY DEF Replace
  <1>3. \A x \in Device : trash'[x] = trash[x] \/ trash'[x] = trash[x] \cup ({tree[x]} \ {Absent})
    BY DEF LiveInv, TypeOK, Replace
  <1>4. \A x \in Device : trash[x] \subseteq trash'[x] /\ trash'[x] \subseteq Typed
    BY <1>3 DEF LiveInv, Names
  <1>5. /\ Owed' \subseteq Owed /\ Typed' = Typed
        /\ \A t : IsCommitted(t) => IsCommitted(t)'
    <2>1. \A x \in Device : Committed(x) \subseteq Committed(x)'  BY DEF Committed
    <2> QED  BY <1>2, <1>4, <2>1, SettledKept
  <1>6. ASSUME NEW t \in Owed', t \in lineage[tree[d]], t \notin lineage[n]
        PROVE  tree[d] = import[d].seen /\ n # Absent
    <2>1. tree[d] # Absent  BY <1>6 DEF LiveInv, Names
    <2>2. t \notin forgone' /\ \A k \in trash'[d] : t \notin lineage[k]
      BY <1>6 DEF Owed, Settled, In
    <2>3. n # Absent
      <3> SUFFICES ASSUME n = Absent  PROVE FALSE
        OBVIOUS
      <3>1. trash' = [trash EXCEPT ![d] = trash[d] \cup ({tree[d]} \ {Absent})]  BY DEF Replace
      <3>2. tree[d] \in trash'[d]  BY <2>1, <3>1 DEF LiveInv, TypeOK
      <3> QED  BY <1>6, <2>2, <3>2
    <2>4. tree[d] = import[d].seen  BY <1>6, <2>2, <2>3 DEF Replace
    <2> QED  BY <2>3, <2>4
  <1>7. \A t \in Owed' : t \in lineage[tree[d]] =>
            t \in lineage[n] \/ (tree[d] = import[d].seen /\ n # Absent)
    BY <1>6
  <1> QED  BY <1>1, <1>2, <1>4, <1>5, <1>7

LEMMA ApplyWritesKeeps == ASSUME LiveInv, NEW d \in Device, ApplyWrites(d)  PROVE LiveInv'
  <1>1. TypeOK'  BY ApplyWritesKeepsTypes DEF LiveInv
  <1> PICK next \in Brought(d) :
        /\ next \in Text /\ Replace(d, next)
        /\ baselines' = [baselines EXCEPT ![d][import[d].from] = {next}]
    BY ApplyWritesIs DEF LiveInv
  <1>2. /\ import[d] \in Import /\ import[d] # Idle /\ import[d].phase = "write" /\ Finish(d)
        /\ UNCHANGED <<index, commits, published, lineage, displaced>>
    BY ApplyWritesIs, ImportTypes DEF LiveInv
  <1> PICK e \in Device : e = import[d].from
    BY <1>2, ImportTypes
  <1>3. import' = [import EXCEPT ![d] = Idle]  BY <1>2 DEF Finish
  <1>4. /\ tree'[d] = next /\ \A x \in Device : x # d => tree'[x] = tree[x]
        /\ forgone \subseteq forgone'
        /\ \A x \in Device : trash[x] \subseteq trash'[x] /\ trash'[x] \subseteq Typed
        /\ Owed' \subseteq Owed
        /\ \A t \in Owed' : t \in lineage[tree[d]] =>
                 t \in lineage[next] \/ tree[d] = import[d].seen
    BY <1>2, ReplaceIs
  <1>5. Brought(d) \in Optional(Text)  BY <1>2, ImportTypes DEF Brought
  <1>6. \A k \in Brought(d) : k = next  BY <1>5, OptionalIs
  <1>7. /\ baselines'[d][e] = {next}
        /\ \A x, y \in Device : x # d \/ y # e => baselines'[x][y] = baselines[x][y]
    <2> DEFINE o == {next}
    <2>1. o \in Optional(Text)  BY SingleIs
    <2>2. baselines' = [baselines EXCEPT ![d][e] = o] /\ TypeOK  BY DEF LiveInv
    <2> HIDE DEF o
    <2>3. baselines'[d][e] = o  BY <2>1, <2>2 DEF TypeOK
    <2>4. \A x, y \in Device : x # d \/ y # e => baselines'[x][y] = baselines[x][y]
      BY <2>1, <2>2, BaselineTypes
    <2> QED  BY <2>3, <2>4 DEF o
  <1>8. next \in Typed  BY DEF LiveInv, Names
  <1>9. ASSUME NEW t \in Owed'
        PROVE  /\ \A k \in baselines'[d][e] : t \in lineage[k] => In(t, Offered(e))
               /\ t \in lineage[tree[d]] \cup lineage[import[d].taken] => t \in lineage[tree'[d]]
    <2>1. t \in Owed  BY <1>4
    <2>2. Bringing(d, t)  BY <1>2, <2>1 DEF LiveInv, Holding
    <2>3. In(t, Brought(d)) <=> t \in lineage[next]  BY <1>6 DEF In
    <2>4. t \in lineage[next] => In(t, Offered(e))  BY <2>2, <2>3 DEF Bringing
    <2>5. ASSUME t \in lineage[tree[d]]  PROVE t \in lineage[next]
      <3> SUFFICES ASSUME tree[d] = import[d].seen  PROVE t \in lineage[next]
        BY <1>4, <2>5
      <3>1. CASE Received(d)
        BY <2>2, <2>3, <2>5, <3>1 DEF Received, Bringing, In
      <3>2. CASE IsCommitted(tree[d])
        BY <2>1, <2>5, <3>2 DEF IsCommitted, Owed, Settled, In
      <3>3. CASE tree[d] \in Brought(d)
        BY <1>6, <2>5, <3>3
      <3> QED  BY <1>2, <3>1, <3>2, <3>3 DEF LiveInv, Stages
    <2>6. t \in lineage[import[d].taken] => t \in lineage[next]
      BY <2>2, <2>3, <2>5 DEF Bringing, In
    <2> QED  BY <1>4, <1>7, <2>4, <2>5, <2>6
  <1>10. Names' /\ Snapshots' /\ Stages' /\ Holding' /\ Shown'
    <2>1. tree'[d] \in Typed /\ baselines'[d][e] \subseteq Typed /\ displaced \subseteq displaced'
      BY <1>2, <1>4, <1>7, <1>8
    <2> QED  BY <1>2, <1>3, <1>4, <1>7, <1>9, <2>1, EndKeeps
  <1> QED  BY <1>1, <1>10 DEF LiveInv

LEMMA PrepareRestoresKeeps ==
    ASSUME LiveInv, NEW d \in Device, PrepareRestores(d)
    PROVE  LiveInv'
  <1>1. TypeOK'  BY PrepareRestoresKeepsTypes DEF LiveInv
  <1> PICK n \in {Absent, index[d]} : n \in Text /\ Replace(d, n)
    BY PrepareRestoresIs DEF LiveInv
  <1> PICK i \in Import :
                /\ import' = [import EXCEPT ![d] = i]
                /\ i.from = import[d].from /\ i.snapshot = import[d].snapshot
                /\ i.before = import[d].before /\ i.taken = tree[d] /\ i.phase = "merge"
    BY PrepareRestoresIs DEF LiveInv
  <1>2. /\ import[d] \in Import /\ import[d] # Idle /\ i # Idle /\ import[d].phase = "restore"
        /\ baselines' = [baselines EXCEPT ![d][import[d].from] = {}]
        /\ UNCHANGED <<index, commits, published, lineage, displaced>>
    BY PrepareRestoresIs, ImportTypes DEF LiveInv, PrepareRestores
  <1> PICK e \in Device : e = import[d].from
    BY <1>2, ImportTypes
  <1>3. import[d].taken = Absent /\ import[d].seen \in baselines[d][e]
    BY <1>2 DEF LiveInv, Stages, Received
  <1>4. /\ tree'[d] = n /\ \A x \in Device : x # d => tree'[x] = tree[x]
        /\ \A x \in Device : trash'[x] \subseteq Typed
        /\ Owed' \subseteq Owed /\ Typed' = Typed
        /\ \A t : IsCommitted(t) => IsCommitted(t)'
        /\ \A t \in Owed' : t \in lineage[tree[d]] =>
                 t \in lineage[n] \/ tree[d] = import[d].seen
    BY <1>2, ReplaceIs
  <1>5. import'[d] = i /\ \A x \in Device : x # d => import'[x] = import[x]
    BY DEF LiveInv, TypeOK
  <1>6. /\ Brought(d)' = Brought(d) /\ PutBack(d)' = {tree[d]} /\ PutBack(d) = {Absent}
        /\ \A x \in Device : x # d => Brought(x)' = Brought(x) /\ PutBack(x)' = PutBack(x)
        /\ \A x \in Device : Committed(x)' = Committed(x) /\ Offered(x)' = Offered(x)
    BY <1>2, <1>3, <1>5 DEF Brought, PutBack, Committed, Offered
  <1>7. /\ baselines'[d][e] = {}
        /\ \A x, y \in Device : x # d \/ y # e => baselines'[x][y] = baselines[x][y]
    <2>1. {} \in Optional(Text)  BY SingleIs
    <2>2. baselines' = [baselines EXCEPT ![d][e] = {}] /\ TypeOK  BY <1>2 DEF LiveInv
    <2>3. baselines'[d][e] = {}  BY <2>1, <2>2, BaselineTypes
    <2>4. \A x, y \in Device : x # d \/ y # e => baselines'[x][y] = baselines[x][y]
      BY <2>1, <2>2, BaselineTypes
    <2> QED  BY <2>3, <2>4
  <1>8. \A x, y \in Device : baselines'[x][y] \subseteq baselines[x][y]
    BY <1>7
  <1>9. Names'
    <2>1. n \in Typed  BY DEF LiveInv, Names, Typed
    <2>2. \A x \in Device : /\ {tree'[x], index'[x]} \cup Committed(x)' \cup trash'[x] \subseteq Typed
                            /\ Offered(x)' \cup Brought(x)' \cup PutBack(x)' \subseteq Typed
      BY <1>2, <1>4, <1>6, <2>1 DEF LiveInv, Names
    <2>3. \A x \in Device : import'[x] # Idle => import'[x].before \subseteq Typed
      BY <1>2, <1>5 DEF LiveInv, Names
    <2> QED  BY <1>2, <1>4, <1>8, <2>2, <2>3 DEF LiveInv, Names
  <1>10. Snapshots'  BY <1>2, <1>4, <1>5 DEF LiveInv, Snapshots
  <1>11. Stages'
    BY <1>4, <1>5, <1>6, <1>7, StagesElsewhere
  <1>12. ASSUME NEW t \in Owed', NEW x \in Device, Shows(x, t)  PROVE Shows(x, t)'
    <2>1. t \notin lineage[Absent]  BY DEF LiveInv, Names
    <2>2. CASE x = d
      BY <1>2, <1>6, <1>12, <2>1, <2>2 DEF Shows, In
    <2>3. CASE x # d
      BY <1>2, <1>4, <1>6, <1>12, <2>3 DEF Shows, In
    <2> QED  BY <2>2, <2>3
  <1>13. Shown'  BY <1>4, <1>12 DEF LiveInv, Shown
  <1>14. Holding'
    <2> SUFFICES ASSUME NEW t \in Owed', NEW x \in Device
                 PROVE  /\ \A y \in Device : In(t, baselines[x][y])' => In(t, Offered(y))'
                        /\ In(t, Offered(x))' => Shows(x, t)'
                        /\ import'[x] # Idle => Bringing(x, t)'
      BY DEF Holding
    <2>0. t \in Owed  BY <1>4
    <2>1. \A y \in Device : In(t, baselines[x][y])' => In(t, Offered(y))'
      BY <1>2, <1>6, <1>8, <2>0 DEF LiveInv, Holding, In
    <2>2. In(t, Offered(x))' => Shows(x, t)'
      BY <1>2, <1>6, <1>12, <2>0 DEF LiveInv, Holding, In
    <2>3. CASE x = d
      <3>1. Bringing(d, t)  BY <1>2, <2>0 DEF LiveInv, Holding
      <3>2. t \in lineage[tree[d]] => t \in lineage[n] \/ In(t, Brought(d))
        BY <1>3, <1>4, <3>1 DEF Bringing, In
      <3> QED  BY <1>2, <1>4, <1>5, <1>6, <1>7, <2>1, <2>2, <2>3, <3>1, <3>2 DEF Bringing, In
    <2>4. CASE x # d
      <3>1. import[x] # Idle => Bringing(x, t) /\ import[x].from \in Device
        BY <2>0, FromDevice DEF LiveInv, Holding
      <3> QED  BY <1>2, <1>4, <1>5, <1>6, <1>7, <2>1, <2>2, <2>4, <3>1 DEF Bringing, In
    <2> QED  BY <2>3, <2>4
  <1> QED  BY <1>1, <1>9, <1>10, <1>11, <1>13, <1>14 DEF LiveInv

LEMMA ImportBundleKeeps == ASSUME LiveInv, NEW d \in Device, ImportBundle(d)  PROVE LiveInv'
  <1>1. TypeOK'  BY ImportBundleKeepsTypes DEF LiveInv
  <1>2. import[d] \in Import /\ import[d] # Idle  BY ImportBundleIs, ImportTypes DEF LiveInv
  <1> PICK i \in Import :
                /\ import' = [import EXCEPT ![d] = i]
                /\ i.from = import[d].from /\ i.snapshot = import[d].snapshot
                /\ i.before = import[d].before /\ i.taken = import[d].taken /\ i.phase = "apply"
    BY ImportBundleIs DEF LiveInv
  <1>3. UNCHANGED <<trash, published, baselines, lineage, forgone, displaced>>
    BY DEF ImportBundle, saved, history
  <1>4. import'[d] = i /\ \A x \in Device : x # d => import'[x] = import[x]
    BY DEF LiveInv, TypeOK
  <1>5. \A x \in Device :
                 /\ import'[x] # Idle <=> import[x] # Idle
                 /\ Brought(x)' = Brought(x) /\ PutBack(x)' = PutBack(x)
                 /\ import'[x].from = import[x].from /\ import'[x].snapshot = import[x].snapshot
                 /\ import'[x].before = import[x].before /\ import'[x].taken = import[x].taken
    BY <1>2, ImportGoesOn DEF LiveInv
  <1>6. ASSUME \A t : IsCommitted(t) => IsCommitted(t)'  PROVE Stages'
    BY <1>3, <1>4, <1>5, <1>6, StagesElsewhere
  <1>7. CASE UNCHANGED files
    <2>1. UNCHANGED <<tree, index, commits, trash, published, lineage, forgone, displaced>>
      BY <1>3, <1>7 DEF files
    <2>2. \A x, y \in Device : baselines'[x][y] \subseteq baselines[x][y]  BY <1>3
    <2>3. Names' /\ Snapshots' /\ Holding' /\ Shown'
      BY <1>2, <2>1, <2>2, GoingOnKeeps
    <2>4. \A t : IsCommitted(t) => IsCommitted(t)'  BY <2>1 DEF IsCommitted, Committed
    <2> QED  BY <1>1, <1>6, <2>3, <2>4 DEF LiveInv
  <1> DEFINE b == import[d].snapshot.commits
  <1>8. CASE /\ IsPrefix(commits[d], b) /\ IsClean(d)
             /\ commits' = [commits EXCEPT ![d] = b]
             /\ tree' = [tree EXCEPT ![d] = Last(b).text]
             /\ index' = [index EXCEPT ![d] = Last(b).text]
    <2>1. b \in Branch /\ \A j \in DOMAIN b : IsCommitted(b[j].text)
      BY <1>2, ImportTypes DEF LiveInv, Snapshots
    <2> HIDE DEF b
    <2>2. /\ commits'[d] = b /\ tree'[d] = Last(b).text /\ index'[d] = Last(b).text
          /\ \A x \in Device : x # d => /\ commits'[x] = commits[x] /\ tree'[x] = tree[x]
                                        /\ index'[x] = index[x]
      BY <1>8 DEF LiveInv, TypeOK
    <2>3. \A k \in Committed(d)' : IsCommitted(k)
      BY <2>1, <2>2 DEF Committed
    <2>4. Committed(d) \subseteq Committed(d)'
      <3>1. \A j \in DOMAIN commits[d] : j \in DOMAIN b /\ b[j] = commits[d][j]
        <4>1. Len(commits[d]) \in Nat /\ commits[d] \in Seq(Commit)  BY HeadIs DEF LiveInv
        <4>2. b \in Seq(Commit)  BY <2>1 DEF Branch
        <4>3. Len(commits[d]) <= Len(b) /\ SubSeq(commits[d], 1, Len(commits[d]))
                                              = SubSeq(b, 1, Len(commits[d]))
          BY <1>8 DEF IsPrefix
        <4> QED  BY <4>1, <4>2, <4>3
      <3> QED  BY <2>2, <3>1 DEF Committed
    <2>5. /\ \A x \in Device : /\ Committed(x) \subseteq Committed(x)'
                               /\ x # d => Committed(x)' = Committed(x)
                               /\ Offered(x)' = Offered(x)
          /\ Owed' \subseteq Owed /\ Typed' = Typed
          /\ \A t : IsCommitted(t) => IsCommitted(t)'
      <3>1. \A x \in Device : x # d => Committed(x)' = Committed(x)  BY <2>2 DEF Committed
      <3>2. \A x \in Device : Offered(x)' = Offered(x)  BY <1>3 DEF Offered
      <3>3. \A x \in Device : Committed(x) \subseteq Committed(x)'  BY <2>4, <3>1
      <3> QED  BY <1>3, <3>1, <3>2, <3>3, SettledKept
    <2>6. Committed(d)' \subseteq Typed /\ {tree'[d], index'[d]} \subseteq Typed
      <3>1. \A t : IsCommitted(t) => t \in Typed  BY DEF LiveInv, Names, IsCommitted
      <3>2. IsCommitted(Last(b).text)  BY <2>1, LastIs
      <3> QED  BY <2>2, <2>3, <3>1, <3>2
    <2>7. Names'
      <3>1. \A x \in Device : /\ {tree'[x], index'[x]} \cup Committed(x)' \cup trash'[x] \subseteq Typed
                              /\ Offered(x)' \cup Brought(x)' \cup PutBack(x)' \subseteq Typed
        <4>1. ASSUME NEW x \in Device
              PROVE  {tree'[x], index'[x]} \cup Committed(x)' \subseteq Typed
          <5>1. CASE x = d  BY <2>6, <5>1
          <5>2. CASE x # d  BY <2>2, <2>5, <5>2 DEF LiveInv, Names
          <5> QED  BY <5>1, <5>2
        <4> QED  BY <1>3, <1>5, <2>5, <4>1 DEF LiveInv, Names
      <3> QED  BY <1>3, <1>5, <2>5, <3>1 DEF LiveInv, Names
    <2>8. Snapshots'  BY <1>3, <1>5, <2>5 DEF LiveInv, Snapshots
    <2>9. \A t \in Owed' : t \in Owed /\ t \notin lineage[tree[d]]
      BY <1>8, <2>5, HeadIs DEF IsClean, LiveInv, Owed, Settled, In
    <2>10. ASSUME NEW t \in Owed', NEW x \in Device, Shows(x, t)  PROVE Shows(x, t)'
      <3>1. CASE x = d
        BY <1>3, <1>5, <2>9, <2>10, <3>1 DEF Shows, In
      <3>2. CASE x # d
        BY <1>3, <1>5, <2>2, <2>10, <3>2 DEF Shows, In
      <3> QED  BY <3>1, <3>2
    <2>11. Shown'  BY <2>9, <2>10 DEF LiveInv, Shown
    <2>12. Holding'
      <3> SUFFICES ASSUME NEW t \in Owed', NEW x \in Device
                   PROVE  /\ \A y \in Device : In(t, baselines[x][y])' => In(t, Offered(y))'
                          /\ In(t, Offered(x))' => Shows(x, t)'
                          /\ import'[x] # Idle => Bringing(x, t)'
        BY DEF Holding
      <3>0. t \in Owed  BY <2>9
      <3>1. \A y \in Device : In(t, baselines[x][y])' => In(t, Offered(y))'
        <4>1. \A y \in Device : Offered(y)' = Offered(y)  BY <2>5
        <4> QED  BY <1>3, <3>0, <4>1 DEF LiveInv, Holding, In
      <3>2. In(t, Offered(x))' => Shows(x, t)'
        <4>1. Offered(x)' = Offered(x)  BY <2>5
        <4>2. In(t, Offered(x))' => In(t, Offered(x))  BY <1>3, <4>1 DEF In
        <4> QED  BY <2>10, <3>0, <4>2 DEF LiveInv, Holding
      <3>3. ASSUME import[x] # Idle  PROVE Bringing(x, t)'
        <4>1. Bringing(x, t) /\ import[x].from \in Device
          BY <3>0, <3>3, FromDevice DEF LiveInv, Holding
        <4>2. t \in lineage[import[x].taken] => In(t, {tree'[x]} \cup Brought(x))
          BY <2>2, <2>9, <4>1 DEF Bringing, In
        <4> PICK e \in Device : e = import[x].from
          BY <4>1
        <4>3. Offered(e)' = Offered(e) /\ Brought(x)' = Brought(x)  BY <1>5, <2>5
        <4>4. In(t, Offered(e)) => In(t, Offered(e))'  BY <1>3, <4>3 DEF In
        <4>5. In(t, Brought(x))' <=> In(t, Brought(x))  BY <1>3, <4>3 DEF In
        <4>6. In(t, baselines[x][import[x].from])' <=> In(t, baselines[x][e])
          BY <1>3, <1>5 DEF In
        <4>7. In(t, import[x].before)' <=> In(t, import[x].before)
          BY <1>3, <1>5 DEF In
        <4>8. import'[x].from = e  BY <1>5
        <4>9. t \in lineage'[import'[x].taken] => In(t, {tree[x]} \cup Brought(x))'
          BY <1>3, <1>5, <4>2 DEF In
        <4> QED  BY <4>1, <4>4, <4>5, <4>6, <4>7, <4>8, <4>9 DEF Bringing
      <3> QED  BY <1>5, <3>1, <3>2, <3>3
    <2> QED  BY <1>1, <1>6, <2>5, <2>7, <2>8, <2>11, <2>12 DEF LiveInv
  <1> QED  BY <1>7, <1>8, ImportBundleIs DEF LiveInv

\* A new text is named nowhere yet, and adds to the lineage of no other.
LEMMA TypeIs ==
    ASSUME LiveInv, NEW d \in Device, Type(d)
    PROVE  \E n \in Text \ {Absent} :
              /\ n \notin Typed /\ Typed' = Typed \cup {n}
              /\ \A k \in Typed : lineage'[k] = lineage[k] /\ n \notin lineage[k]
              /\ lineage'[n] = {n} \cup lineage[tree[d]]
              /\ tree' = [tree EXCEPT ![d] = n]
              /\ UNCHANGED <<index, commits, trash, published, baselines, import, forgone,
                             displaced>>
  <1> PICK n \in Text \ {Absent} :
        /\ lineage[n] = {} /\ lineage' = [lineage EXCEPT ![n] = {n} \cup lineage[tree[d]]]
        /\ Edit(d, n, {})
        /\ UNCHANGED <<index, undos>>
    BY DEF Type
  <1>1. n \notin Typed  BY DEF Typed
  <1>2. /\ lineage'[n] = {n} \cup lineage[tree[d]]
        /\ \A k \in Text : k # n => lineage'[k] = lineage[k]
    BY DEF LiveInv, TypeOK
  <1>3. Typed' = Typed \cup {n}  BY <1>2 DEF Typed
  <1>4. ASSUME NEW k \in Typed
        PROVE  lineage'[k] = lineage[k] /\ n \notin lineage[k]
    <2>1. k \in Text  BY TextIs DEF Typed
    <2> QED  BY <1>1, <1>2, <2>1 DEF LiveInv, Names
  <1>5. /\ tree' = [tree EXCEPT ![d] = n]
        /\ UNCHANGED <<index, commits, trash, published, baselines, import, forgone, displaced>>
    BY DEF Edit, saved
  <1> QED  BY <1>1, <1>2, <1>3, <1>4, <1>5

LEMMA TypeKeeps == ASSUME LiveInv, NEW d \in Device, Type(d)  PROVE LiveInv'
  <1>1. TypeOK'  BY TypeKeepsTypes DEF LiveInv
  <1> PICK n \in Text \ {Absent} :
              /\ n \notin Typed /\ Typed' = Typed \cup {n}
              /\ \A k \in Typed : lineage'[k] = lineage[k] /\ n \notin lineage[k]
              /\ lineage'[n] = {n} \cup lineage[tree[d]]
              /\ tree' = [tree EXCEPT ![d] = n]
              /\ UNCHANGED <<index, commits, trash, published, baselines, import, forgone,
                             displaced>>
    BY TypeIs
  <1>2. /\ tree'[d] = n /\ \A x \in Device : x # d => tree'[x] = tree[x]
        /\ \A x \in Device : tree[x] \in Typed
    BY DEF LiveInv, TypeOK, Names
  <1>3. \A x \in Device : /\ Committed(x)' = Committed(x) /\ Offered(x)' = Offered(x)
                          /\ Brought(x)' = Brought(x) /\ PutBack(x)' = PutBack(x)
    BY DEF Committed, Offered, Brought, PutBack
  <1>4. /\ \A x, y \in Device : baselines[x][y] \subseteq Typed
        /\ \A x \in Device : /\ Committed(x) \cup trash[x] \subseteq Typed
                             /\ Offered(x) \subseteq Typed /\ Brought(x) \subseteq Typed
                             /\ PutBack(x) \subseteq Typed
        /\ \A x \in Device : import[x] # Idle => import[x].before \subseteq Typed
    BY DEF LiveInv, Names
  <1>5. ASSUME NEW t, NEW S \in SUBSET Typed
        PROVE  /\ (\E k \in S : t \in lineage'[k]) <=> In(t, S)
               /\ t = n => ~In(t, S)
    BY DEF In
  <1>6. Names'
    <2>1. lineage'[Absent] = {}
      BY DEF LiveInv, Names, Typed
    <2>2. \A t \in Text : lineage'[t] \subseteq Typed'
      <3> SUFFICES ASSUME NEW t \in Text  PROVE lineage'[t] \subseteq Typed'
        OBVIOUS
      <3>1. CASE t = n
        <4>1. lineage[tree[d]] \subseteq Typed  BY DEF LiveInv, TypeOK, Names
        <4> QED  BY <3>1, <4>1
      <3>2. CASE t \in Typed
        BY <3>2 DEF LiveInv, Names
      <3>3. CASE t \notin Typed'
        BY <3>3 DEF Typed
      <3> QED  BY <3>1, <3>2, <3>3
    <2>3. \A x \in Device : {tree'[x], index'[x]} \cup Committed(x)' \cup trash'[x] \subseteq Typed'
      <3>1. \A x \in Device : tree'[x] \in Typed'  BY <1>2
      <3>2. \A x \in Device : {index[x]} \cup Committed(x) \cup trash[x] \subseteq Typed
        BY DEF LiveInv, Names
      <3> QED  BY <1>3, <3>1, <3>2
    <2>4. \A x \in Device : Offered(x)' \cup Brought(x)' \cup PutBack(x)' \subseteq Typed'
      BY <1>3, <1>4
    <2> QED  BY <1>4, <2>1, <2>2, <2>3, <2>4 DEF Names
  <1>7. Snapshots' /\ Stages'
    BY <1>3 DEF LiveInv, Snapshots, Stages, IsCommitted, Received
  <1>8. Owed' \subseteq Owed \cup {n}
    <2> SUFFICES ASSUME NEW t \in Owed', t # n  PROVE t \in Owed
      OBVIOUS
    <2>1. t \in Text /\ t \in Typed'  BY DEF Owed, Typed
    <2>2. lineage[t] # {}  BY <2>1 DEF Owed
    <2>3. ~Settled(t)'  BY DEF Owed
    <2>4. ASSUME Settled(t)  PROVE Settled(t)'
      <3>1. CASE t \in forgone \cup displaced
        BY <3>1 DEF Settled
      <3>2. CASE \E x \in Device : In(t, Committed(x) \cup trash[x])
        <4> PICK x \in Device : In(t, Committed(x) \cup trash[x])
          BY <3>2
        <4>1. \E k \in Committed(x) \cup trash[x] : t \in lineage'[k]  BY <1>4, <1>5
        <4> QED  BY <1>3, <4>1 DEF Settled, In
      <3> QED  BY <2>4, <3>1, <3>2 DEF Settled
    <2> QED  BY <2>1, <2>2, <2>3, <2>4 DEF Owed
  <1>9. ASSUME NEW t \in Owed, NEW x \in Device, Shows(x, t)  PROVE Shows(x, t)'
    <2>1. CASE t \in lineage[tree[x]]
      BY <1>2, <2>1 DEF Shows, In
    <2>2. CASE In(t, PutBack(x))
      BY <1>3, <1>4, <2>2 DEF Shows, In
    <2> QED  BY <1>9, <2>1, <2>2 DEF Shows, In
  <1>10. Shown'
    <2>1. Shows(d, n)'  BY <1>2 DEF Shows, In
    <2> QED  BY <1>8, <1>9, <2>1 DEF LiveInv, Shown
  <1>11. Holding'
    <2> SUFFICES ASSUME NEW t \in Owed', NEW x \in Device
                 PROVE  /\ \A y \in Device : In(t, baselines[x][y])' => In(t, Offered(y))'
                        /\ In(t, Offered(x))' => Shows(x, t)'
                        /\ import'[x] # Idle => Bringing(x, t)'
      BY DEF Holding
    <2>1. \A y \in Device : /\ In(t, baselines[x][y])' <=> In(t, baselines[x][y])
                            /\ In(t, Offered(y))' <=> In(t, Offered(y))
      BY <1>3, <1>4, <1>5 DEF In
    <2>2. In(t, Brought(x))' <=> In(t, Brought(x))
      BY <1>3, <1>4, <1>5 DEF In
    <2>3. ASSUME import[x] # Idle
          PROVE  /\ import[x].from \in Device
                 /\ In(t, import[x].before)' <=> In(t, import[x].before)
                 /\ t \in lineage'[import[x].taken] <=> t \in lineage[import[x].taken]
                 /\ t = n => t \notin lineage[import[x].taken]
      <3>1. In(t, import[x].before)' <=> In(t, import[x].before)
        BY <1>4, <1>5, <2>3 DEF In
      <3>2. import[x].taken \in Typed  BY <1>4, <2>3 DEF PutBack
      <3> QED  BY <2>3, <3>1, <3>2, FromDevice DEF LiveInv
    <2>4. CASE t = n
      <3>1. /\ \A y \in Device : ~In(t, baselines[x][y])
            /\ ~In(t, Offered(x)) /\ ~In(t, Brought(x))
        BY <1>4, <1>5, <2>4
      <3>2. import[x] # Idle => ~In(t, import[x].before)  BY <1>4, <1>5, <2>4
      <3>3. import[x] # Idle => (In(t, baselines[x][import[x].from])' <=> FALSE)
        BY <2>1, <2>3, <3>1 DEF In
      <3> QED  BY <2>1, <2>2, <2>3, <2>4, <3>1, <3>2, <3>3 DEF Bringing
    <2>5. CASE t \in Owed
      <3>1. /\ \A y \in Device : In(t, baselines[x][y]) => In(t, Offered(y))
            /\ In(t, Offered(x)) => Shows(x, t)
            /\ import[x] # Idle => Bringing(x, t)
        BY <2>5 DEF LiveInv, Holding
      <3>2. In(t, Offered(x))' => Shows(x, t)'  BY <1>9, <2>1, <2>5, <3>1
      <3>3. ASSUME import[x] # Idle  PROVE Bringing(x, t)'
        <4> PICK e \in Device : e = import[x].from
          BY <2>3, <3>3
        <4>1. In(t, baselines[x][import[x].from])' <=> In(t, baselines[x][e])
          BY <2>1 DEF In
        <4>2. t \in lineage[tree[x]] => t \in lineage'[tree'[x]]
          BY <1>2
        <4>3. t \in lineage'[import[x].taken] => In(t, {tree[x]} \cup Brought(x))'
          BY <2>2, <2>3, <3>1, <3>3, <4>2 DEF Bringing, In
        <4> QED  BY <2>1, <2>2, <2>3, <3>1, <3>3, <4>1, <4>3 DEF Bringing
      <3> QED  BY <2>1, <3>1, <3>2, <3>3
    <2> QED  BY <1>8, <2>4, <2>5
  <1> QED  BY <1>1, <1>6, <1>7, <1>10, <1>11 DEF LiveInv

LEMMA StutterKeeps == LiveInv /\ UNCHANGED vars => LiveInv'
  <1> SUFFICES ASSUME LiveInv, UNCHANGED vars  PROVE LiveInv'
    OBVIOUS
  <1>1. UNCHANGED <<tree, index, commits, trash, published, baselines, import, lineage, forgone,
                    displaced>>
    BY DEF vars, files, saved, history
  <1>2. Names'
    BY <1>1 DEF LiveInv, Names, Typed, Committed, Offered, Brought, PutBack
  <1>3. Snapshots' /\ Stages'
    BY <1>1 DEF LiveInv, Snapshots, Stages, IsCommitted, Committed, Received, Brought
  <1>4. Holding' /\ Shown'
    BY <1>1 DEF LiveInv, Holding, Shown, Bringing, Owed, Settled, In, Shows, Offered, Brought,
                PutBack, Committed
  <1> QED  BY <1>2, <1>3, <1>4, StutterKeepsTypes DEF LiveInv

\* At first there is only the first commit, which settles its text.
LEMMA LiveInitially == Init => LiveInv
  <1> SUFFICES ASSUME Init  PROVE LiveInv
    OBVIOUS
  <1> DEFINE c == [text |-> First, by |-> {}]
  <1>1. \A d \in Device : /\ commits[d] = <<c>> /\ tree[d] = First /\ index[d] = First
                          /\ trash[d] = {} /\ published[d] = {} /\ import[d] = Idle
                          /\ \A e \in Device : baselines[d][e] = {}
    BY DEF Init
  <1>2. \A d \in Device : Committed(d) = {First}
    <2>1. c.text = First  OBVIOUS
    <2> HIDE DEF c
    <2>2. DOMAIN <<c>> = {1} /\ <<c>>[1] = c  OBVIOUS
    <2> QED  BY <1>1, <2>1, <2>2 DEF Committed
  <1>3. \A d \in Device : Offered(d) = {} /\ Brought(d) = {} /\ PutBack(d) = {}
    BY <1>1 DEF Offered, Brought, PutBack
  <1>4. /\ lineage[First] = {First} /\ Typed = {Absent, First}
        /\ \A t \in Text : t # First => lineage[t] = {}
    BY TextIs DEF Init, Typed
  <1>5. Names  BY <1>1, <1>2, <1>3, <1>4, TextIs DEF Names, Absent, First
  <1>6. Snapshots /\ Stages  BY <1>1 DEF Snapshots, Stages
  <1>7. Holding /\ Shown
    <2>1. Settled(First)  BY <1>2, <1>4, DeviceAssumption DEF Settled, In
    <2>2. Owed = {}  BY <1>4, <2>1 DEF Owed
    <2> QED  BY <2>2 DEF Holding, Shown
  <1> QED  BY <1>5, <1>6, <1>7, TypesInitially DEF LiveInv

LEMMA LiveInvKept == LiveInv /\ [Next]_vars => LiveInv'
  <1> SUFFICES ASSUME LiveInv, Next  PROVE LiveInv'
    BY StutterKeeps
  <1> PICK d \in Device :
        \/ Type(d) \/ (\E t \in Text : Undo(d, t)) \/ Stage(d) \/ CommitAll(d)
        \/ Session(d) \/ Crash(d)
    BY DEF Next
  <1>1. CASE Type(d)  BY <1>1, TypeKeeps
  <1>2. CASE \E t \in Text : Undo(d, t)  BY <1>2, UndoKeeps
  <1>3. CASE Stage(d)  BY <1>3, StageKeeps
  <1>4. CASE CommitAll(d)  BY <1>4, CommitKeeps
  <1>5. CASE PublishLocal(d)  BY <1>5, PublishKeeps
  <1>6. CASE \E e \in Device : Accept(d, e)  BY <1>6, AcceptKeeps
  <1>7. CASE PrepareLooks(d)  BY <1>7, PrepareLooksKeeps
  <1>8. CASE PrepareRestores(d)  BY <1>8, PrepareRestoresKeeps
  <1>9. CASE ImportBundle(d)  BY <1>9, ImportBundleKeeps
  <1>10. CASE ApplyLooks(d)  BY <1>10, ApplyLooksKeeps
  <1>11. CASE ApplyWrites(d)  BY <1>11, ApplyWritesKeeps
  <1>12. CASE Crash(d)  BY <1>12, CrashKeeps
  <1> QED
    BY <1>1, <1>2, <1>3, <1>4, <1>5, <1>6, <1>7, <1>8, <1>9, <1>10, <1>11, <1>12 DEF Session

\* A text that is not given up is settled, shown, or brought again by the import that has
\* put it back.
LEMMA OwedIsKept == LiveInv => NothingIsLost
  <1> SUFFICES ASSUME LiveInv, NEW t \in Text, lineage[t] # {}, t \notin forgone \cup displaced
               PROVE  \E d \in Device : \E k \in Kept(d) : t \in lineage[k]
    BY DEF NothingIsLost
  <1>1. \A d \in Device : Committed(d) \cup trash[d] \cup {tree[d]} \cup Brought(d) = Kept(d)
    BY DEF Kept, Committed, Brought
  <1>2. CASE Settled(t)
    BY <1>1, <1>2 DEF Settled, In
  <1>3. CASE t \in Owed
    <2> PICK d \in Device : Shows(d, t)
      BY <1>3 DEF LiveInv, Shown
    <2>1. CASE t \in lineage[tree[d]]
      BY <1>1, <2>1
    <2>2. CASE t \notin lineage[tree[d]]
      <3>1. import[d] # Idle /\ t \in lineage[import[d].taken]
        BY <2>2 DEF Shows, In, PutBack
      <3>2. In(t, {tree[d]} \cup Brought(d))
        BY <1>3, <3>1 DEF LiveInv, Holding, Bringing
      <3> QED  BY <1>1, <3>2 DEF In
    <2> QED  BY <2>1, <2>2
  <1> QED  BY <1>2, <1>3 DEF Owed

THEOREM LiveInvariant == Spec => []LiveInv
  BY LiveInitially, LiveInvKept, PTL DEF Spec

\* Everything typed is kept on some device, itself or a text typed over it, unless its user
\* gave it up or an import and an edit crossed (live-workspace.js, prepare and apply).
THEOREM NothingIsLostAlways == Spec => []NothingIsLost
  BY LiveInvariant, OwedIsKept, PTL

-----------------------------------------------------------------------------
(***************************************************************************)
(* The public link.  The winner of a pass over the records is one of the      *)
(* shares that they declare, since a pass takes them one after the other      *)
(* (NumberFacts).  Whatever is done to a machine leaves it a config, a        *)
(* declaration, a session and deeds of the kind (Becomes, Fits), of shares     *)
(* that have been minted, and only who minted a share owns it (Owners).       *)
(***************************************************************************)
\* Publisher ids are numbers from 1 to the greatest of them.
LEMMA Highest ==
    /\ Max(Watcher) \in Nat \ {0}
    /\ \A m \in Watcher : m \in 1..Max(Watcher)
  <1>1. Watcher \subseteq Int /\ IsFiniteSet(Watcher) /\ Watcher # {}
    BY WatcherAssumption
  <1>2. \E x \in Watcher : \A y \in Watcher : x >= y
    <2>1. PICK x \in Watcher : \A y \in Watcher : y <= x
      BY <1>1, GreatestExists
    <2>2. \A y \in Watcher : x >= y
      BY <1>1, <2>1
    <2> QED  BY <2>2
  <1>3. Max(Watcher) \in Watcher /\ \A y \in Watcher : Max(Watcher) >= y
    BY <1>2 DEF Max
  <1>4. \A m \in Watcher : m \in Nat \ {0}
    BY WatcherAssumption
  <1> HIDE DEF Max
  <1>5. Max(Watcher) \in Nat \ {0}
    BY <1>3, <1>4
  <1> QED  BY <1>3, <1>4, <1>5

LEMMA PreferredIs == \A a, b : PreferredShare(a, b) \in {a, b}
  BY DEF PreferredShare

LEMMA CollectTypes ==
    ASSUME NEW s \in Declarations, NEW t \in Declarations
    PROVE  Collect(s, t) \in Declarations
  <1>1. CASE t = None
    <2>1. Collect(s, t) = s
      BY <1>1 DEF Collect, Declarations, None, Key
    <2> QED  BY <2>1
  <1>2. CASE t # None /\ s # None /\ s.key = t.key
    <2>1. Collect(s, t) = [s EXCEPT !.mirror = s.mirror \/ t.mirror]
      BY <1>2 DEF Collect, MergeShareDeclarations
    <2>2. s \in [key : Key, at : 1..Minting, mirror : BOOLEAN]
      BY <1>2 DEF Declarations
    <2> QED  BY <2>1, <2>2 DEF Declarations
  <1>3. CASE t # None /\ ~(s # None /\ s.key = t.key)
    <2>1. Collect(s, t) = PreferredShare(t, s)
      BY <1>3 DEF Collect
    <2> QED  BY <2>1, PreferredIs
  <1> QED  BY <1>1, <1>2, <1>3

LEMMA RecordIs ==
    ASSUME ShareTypeOK, NEW m \in Watcher, NEW n \in Readable(m)
    PROVE  n \in Watcher /\ record[n].share \in Declarations /\ record[n].ended \in SUBSET Key
  BY DEF ShareTypeOK, Readable

LEMMA PassIs ==
    ASSUME ShareTypeOK, NEW m \in Watcher
    PROVE  \A n \in 0..Max(Watcher) : Pass(m)[n] \in Declarations
  <1> DEFINE top == Max(Watcher)
             step == [n \in 1..top |-> [s \in Declarations |->
                        IF n \in Readable(m) THEN Collect(s, record[n].share) ELSE s]]
             Is(f) == f = [n \in 0..top |->
                        IF n = 0 THEN None
                        ELSE IF n \in Readable(m) THEN Collect(f[n - 1], record[n].share)
                        ELSE f[n - 1]]
  <1>1. top \in Nat /\ None \in Declarations
    BY Highest DEF Declarations
  <1>2. step \in [1..top -> [Declarations -> Declarations]]
    BY RecordIs, CollectTypes
  <1>3. \E f : Is(f)
    <2> HIDE DEF step, top
    <2> DEFINE D == Declarations
    <2>a. None \in D /\ step \in [1..top -> [D -> D]]
      BY <1>1, <1>2
    <2> HIDE DEF D
    <2>b. \E f \in [0..top -> D] : Stepwise(f, top, None, step)
      BY <1>1, <2>a, RecursionExists
    <2>1. PICK f \in [0..top -> Declarations] :
             f[0] = None /\ \A n \in 1..top : f[n] = step[n][f[n - 1]]
      BY <2>b DEF D, Stepwise
    <2>2. ASSUME NEW n \in 1..top
          PROVE  f[n] = IF n \in Readable(m) THEN Collect(f[n - 1], record[n].share)
                        ELSE f[n - 1]
      <3>1. f[n - 1] \in Declarations
        BY <1>1
      <3> QED  BY <2>1, <3>1 DEF step
    <2>3. \A n \in 0..top : n = 0 \/ n \in 1..top
      BY <1>1
    <2>4. Is(f)
      BY <2>1, <2>2, <2>3
    <2> QED  BY <2>4
  <1>4. Pass(m) = CHOOSE f : Is(f)
    BY DEF Pass
  <1> DEFINE p == Pass(m)
  <1>5. Is(p)
    <2> HIDE DEF Is
    <2> QED  BY <1>3, <1>4
  <1>6. p[0] = None /\ \A n \in 1..top : p[n] = IF n \in Readable(m)
                                                THEN Collect(p[n - 1], record[n].share)
                                                ELSE p[n - 1]
    <2> HIDE DEF p, top
    <2>1. 0 \in 0..top /\ \A n \in 1..top : n \in 0..top /\ n # 0
      BY <1>1
    <2> QED  BY <1>5, <2>1
  <1>7. \A n \in 1..top : p[n - 1] \in Declarations => p[n] \in Declarations
    <2> HIDE DEF p, top
    <2> QED  BY <1>6, RecordIs, CollectTypes
  <1> HIDE DEF p, top
  <1>8. \A n \in 0..top : p[n] \in Declarations
    BY <1>1, <1>6, <1>7, RecursionStays
  <1> QED  BY <1>8 DEF p, top

\* What a pass ends with is a share that is declared, or none.
LEMMA RemoteShareIs ==
    ASSUME ShareTypeOK, NEW m \in Watcher
    PROVE  /\ RemoteShare(m) \in Declarations
           /\ RemoteShare(m) # None =>
                 /\ RemoteShare(m) \in [key : Key, at : 1..Minting, mirror : BOOLEAN]
                 /\ RemoteShare(m).key \in Key
  <1>1. Max(Watcher) \in 0..Max(Watcher)
    BY Highest
  <1>2. Winner(m) \in Declarations /\ None \in Declarations
    BY <1>1, PassIs DEF Winner, Declarations
  <1>3. RemoteShare(m) \in Declarations
    BY <1>2 DEF RemoteShare
  <1> QED  BY <1>3 DEF Declarations

\* Only who minted a share owns it, or has stowed it.
Owners ==
    \A m \in Watcher :
        /\ config[m].share # None /\ config[m].share.role = "owner"
               => minters[config[m].share.key] = m
        /\ config[m].dormant # None => minters[config[m].dormant.key] = m
\* What a handler has still to do; whoever states that a share ended names one.
Handlers == {<<>>, <<"reload">>, <<"register", "reload">>, <<"mark", "reload">>,
             <<"mark", "register", "reload">>}
Deeds == {d \in [steps : Handlers, key : Key \cup {0}] :
            d.steps # <<>> /\ Head(d.steps) = "mark" => d.key # 0}
ShareInv == ShareTypeOK /\ Owners /\ todo \in [Watcher -> Deeds]

Stowed == Shares({"owner"}) \cup {None}
Configs == [share : Served, dormant : Stowed]
Records == [share : Declarations, ended : SUBSET Key] \cup {None}
Sessions == [is : {"closed", "opening", "open"}, share : Served]
Spends == [toggles : 0..MaxToggles, ends : 0..MaxEnds, reclones : 0..MaxReclones,
           kills : 0..MaxKills]

\* Deeds are what TypeOK says they are.
LEMMA HandlersAreSteps == \A h \in Handlers : h \in BoundedSeq(Step, 3)
  <1> DEFINE S == Step
  <1>1. <<>> \in [1..0 -> S]
    OBVIOUS
  <1>2. <<"reload">> \in [1..1 -> S]
    BY DEF Step
  <1>3. <<"register", "reload">> \in [1..2 -> S] /\ <<"mark", "reload">> \in [1..2 -> S]
    BY DEF Step
  <1>4. <<"mark", "register", "reload">> \in [1..3 -> S]
    BY DEF Step
  <1>5. BoundedSeq(S, 3) = UNION {[1..n -> S] : n \in 0..3}
    BY DEF BoundedSeq, SeqOf
  <1>6. \A n \in 0..3 : [1..n -> S] \subseteq BoundedSeq(S, 3)
    BY <1>5
  <1>7. 0 \in 0..3 /\ 1 \in 0..3 /\ 2 \in 0..3 /\ 3 \in 0..3
    OBVIOUS
  <1> HIDE DEF S
  <1>8. [1..0 -> S] \subseteq BoundedSeq(S, 3) /\ [1..1 -> S] \subseteq BoundedSeq(S, 3)
        /\ [1..2 -> S] \subseteq BoundedSeq(S, 3) /\ [1..3 -> S] \subseteq BoundedSeq(S, 3)
    BY <1>6, <1>7
  <1>9. \A h \in Handlers : h \in BoundedSeq(S, 3)
    BY <1>1, <1>2, <1>3, <1>4, <1>8 DEF Handlers
  <1> QED  BY <1>9 DEF S

\* A step of m leaves it these, and mints at most one share, of its own.
Becomes(m, c, e, x, r, s, t) ==
    /\ config' = [config EXCEPT ![m] = c] /\ entry' = [entry EXCEPT ![m] = e]
    /\ ended' = [ended EXCEPT ![m] = x] /\ record' = [record EXCEPT ![m] = r]
    /\ session' = [session EXCEPT ![m] = s] /\ todo' = [todo EXCEPT ![m] = t]
Fits(m, c, e, x, r, s, t) ==
    /\ c \in Configs /\ e \in Declarations /\ x \in SUBSET Key /\ r \in Records
    /\ s \in Sessions /\ t \in Deeds
    /\ c.share # None /\ c.share.role = "owner" => minters[c.share.key] = m
    /\ c.dormant # None => minters[c.dormant.key] = m
\* The same, of the shares that have been minted after the step.
Suits(m, c, e, x, r, s, t) ==
    /\ c \in Configs' /\ e \in Declarations' /\ x \in SUBSET Key' /\ r \in Records'
    /\ s \in Sessions' /\ t \in Deeds'
    /\ c.share # None /\ c.share.role = "owner" => minters'[c.share.key] = m
    /\ c.dormant # None => minters'[c.dormant.key] = m
Mints(m) == minters' = minters \/ (Len(minters) < MaxMinted /\ minters' = Append(minters, m))

LEMMA Growing ==
    ASSUME ShareTypeOK, NEW m \in Watcher, Mints(m)
    PROVE  /\ minters' \in Seq(Watcher) /\ Len(minters') <= MaxMinted
           /\ \A k \in Key : k \in Key' /\ minters'[k] = minters[k]
           /\ Served \subseteq Served' /\ Stowed \subseteq Stowed'
           /\ Declarations \subseteq Declarations' /\ Configs \subseteq Configs'
           /\ Records \subseteq Records' /\ Sessions \subseteq Sessions' /\ Deeds \subseteq Deeds'
  <1>1. minters \in Seq(Watcher) /\ Len(minters) \in Nat /\ MaxMinted \in Nat
    BY ShareBoundAssumption DEF ShareTypeOK
  <1>2. /\ minters' \in Seq(Watcher) /\ Len(minters') <= MaxMinted
        /\ Len(minters') \in Nat /\ Len(minters) <= Len(minters')
        /\ \A k \in 1..Len(minters) : minters'[k] = minters[k]
    <2>1. CASE minters' = minters
      BY <1>1, <2>1 DEF ShareTypeOK
    <2>2. CASE Len(minters) < MaxMinted /\ minters' = Append(minters, m)
      <3> DEFINE old == minters
      <3>1. old \in Seq(Watcher) /\ Len(old) \in Nat
        BY <1>1
      <3> HIDE DEF old
      <3>2. /\ Append(old, m) \in Seq(Watcher) /\ Len(Append(old, m)) = Len(old) + 1
            /\ \A k \in 1..Len(old) : Append(old, m)[k] = old[k]
        BY <3>1
      <3> QED  BY <1>1, <2>2, <3>2 DEF old
    <2> QED  BY <2>1, <2>2 DEF Mints
  <1>3. Key \subseteq Key'
    BY <1>1, <1>2 DEF Key
  <1>4. 1..Minting \subseteq (1..Minting)'
    BY <1>1, <1>2 DEF Minting
  <1>5. Declarations \subseteq Declarations'
    BY <1>3, <1>4 DEF Declarations, None
  <1>6. \A role : Shares(role) \subseteq Shares(role)'
    BY <1>3, <1>4 DEF Shares
  <1>7. Served \subseteq Served' /\ Stowed \subseteq Stowed'
    BY <1>6 DEF Served, Stowed, None
  <1>8. Configs \subseteq Configs' /\ Sessions \subseteq Sessions'
    BY <1>7 DEF Configs, Sessions
  <1>9. Records \subseteq Records'
    BY <1>3, <1>5 DEF Records, None
  <1>10. Deeds \subseteq Deeds'
    BY <1>3 DEF Deeds
  <1> QED  BY <1>2, <1>3, <1>5, <1>7, <1>8, <1>9, <1>10 DEF Key

LEMMA ShareStepKeeps ==
    ASSUME ShareInv, NEW m \in Watcher, NEW c, NEW e, NEW x, NEW r, NEW s, NEW t,
           Becomes(m, c, e, x, r, s, t), Suits(m, c, e, x, r, s, t), Mints(m), spent' \in Spends
    PROVE  ShareInv'
  <1>1. /\ config' \in [Watcher -> Configs'] /\ entry' \in [Watcher -> Declarations']
        /\ ended' \in [Watcher -> SUBSET Key'] /\ record' \in [Watcher -> Records']
        /\ session' \in [Watcher -> Sessions'] /\ todo' \in [Watcher -> Deeds']
    <2>1. /\ config \in [Watcher -> Configs] /\ entry \in [Watcher -> Declarations]
          /\ ended \in [Watcher -> SUBSET Key] /\ record \in [Watcher -> Records]
          /\ session \in [Watcher -> Sessions] /\ todo \in [Watcher -> Deeds]
      BY DEF ShareInv, ShareTypeOK, Configs, Stowed, Records, Sessions
    <2>2. /\ Declarations \subseteq Declarations' /\ Configs \subseteq Configs'
          /\ Records \subseteq Records' /\ Sessions \subseteq Sessions' /\ Deeds \subseteq Deeds'
          /\ Key \subseteq Key'
      BY Growing DEF ShareInv
    <2>3. /\ c \in Configs' /\ e \in Declarations' /\ x \in SUBSET Key' /\ r \in Records'
          /\ s \in Sessions' /\ t \in Deeds'
      BY DEF Suits
    <2> QED  BY <2>1, <2>2, <2>3 DEF Becomes
  <1>2. Owners'
    <2>1. /\ config \in [Watcher -> Configs] /\ Configs \subseteq Configs'
          /\ \A k \in Key : k \in Key' /\ minters'[k] = minters[k]
      BY Growing DEF ShareInv, ShareTypeOK, Configs, Stowed
    <2> SUFFICES ASSUME NEW n \in Watcher
                 PROVE  /\ config'[n].share # None /\ config'[n].share.role = "owner"
                               => minters'[config'[n].share.key] = n
                        /\ config'[n].dormant # None => minters'[config'[n].dormant.key] = n
      BY DEF Owners
    <2>2. CASE n = m
      <3>1. config'[n] = c
        BY <2>1, <2>2 DEF Becomes
      <3> QED  BY <2>2, <3>1 DEF Suits
    <2>3. CASE n # m
      <3>1. config'[n] = config[n] /\ config[n] \in Configs
        BY <2>1, <2>3 DEF Becomes
      <3>2. /\ config[n].share # None => config[n].share.key \in Key
            /\ config[n].dormant # None => config[n].dormant.key \in Key
        BY <3>1 DEF Configs, Served, Stowed, Shares
      <3> QED  BY <2>1, <3>1, <3>2 DEF ShareInv, Owners
    <2> QED  BY <2>2, <2>3
  <1>3. \A d \in Deeds' : d \in [steps : BoundedSeq(Step, 3), key : Key' \cup {0}]
    BY HandlersAreSteps DEF Deeds
  <1>4. ShareTypeOK'
    BY <1>1, <1>3, Growing DEF ShareInv, ShareTypeOK, Configs, Stowed, Records, Sessions, Spends
  <1> QED  BY <1>1, <1>2, <1>4 DEF ShareInv

\* What m has is of the kind.
LEMMA HasTypes ==
    ASSUME ShareInv, NEW m \in Watcher
    PROVE  /\ config[m] \in Configs /\ config[m].share \in Served /\ config[m].dormant \in Stowed
           /\ entry[m] \in Declarations /\ ended[m] \in SUBSET Key /\ record[m] \in Records
           /\ session[m] \in Sessions /\ session[m].share \in Served /\ todo[m] \in Deeds
           /\ spent \in Spends /\ Fits(m, config[m], entry[m], ended[m], record[m], session[m], todo[m])
           /\ None \in Served /\ None \in Stowed /\ None \in Declarations
  <1>1. /\ config[m] \in Configs /\ entry[m] \in Declarations /\ ended[m] \in SUBSET Key
        /\ record[m] \in Records /\ session[m] \in Sessions /\ todo[m] \in Deeds /\ spent \in Spends
    BY DEF ShareInv, ShareTypeOK, Configs, Stowed, Records, Sessions, Spends
  <1>2. /\ config[m].share \in Served /\ config[m].dormant \in Stowed
        /\ session[m].share \in Served
    BY <1>1 DEF Configs, Sessions
  <1>3. None \in Served /\ None \in Stowed /\ None \in Declarations
    BY DEF Served, Stowed, Declarations
  <1>4. Fits(m, config[m], entry[m], ended[m], record[m], session[m], todo[m])
    BY <1>1 DEF Fits, ShareInv, Owners
  <1> QED  BY <1>1, <1>2, <1>3, <1>4

\* A share and its declaration.
LEMMA ServedIs ==
    ASSUME NEW s \in Served
    PROVE  /\ Declared(s) \in Declarations
           /\ s = None \/ s \in Shares({"owner", "mirror"})
           /\ s # None => s.key \in Key /\ s.role \in {"owner", "mirror"}
           /\ s # None => \A b \in BOOLEAN : [s EXCEPT !.role = "owner", !.mirror = b] \in Served
           /\ s # None => [s EXCEPT !.role = "owner"] \in Stowed
           /\ s # None /\ s.role = "owner" => s \in Stowed
  BY DEF Served, Stowed, Shares, Declared, Declarations

LEMMA StowedIs ==
    ASSUME NEW s \in Stowed, s # None
    PROVE  s \in Served /\ s.role = "owner" /\ s.key \in Key
  BY DEF Served, Stowed, Shares

LEMMA ConfigIs ==
    ASSUME NEW c \in Configs, NEW s \in Served, NEW d \in Stowed
    PROVE  /\ [share |-> s, dormant |-> d] \in Configs /\ [c EXCEPT !.share = s] \in Configs
           /\ [c EXCEPT !.share = s].share = s /\ [c EXCEPT !.share = s].dormant = c.dormant
  BY DEF Configs

\* What handlers have to do, and how they go on.
LEMMA DeedIs ==
    /\ Quiescent \in Deeds
    /\ [steps |-> <<"register", "reload">>, key |-> 0] \in Deeds
    /\ [steps |-> <<"reload">>, key |-> 0] \in Deeds
    /\ \A k \in Key : /\ [steps |-> <<"mark", "register", "reload">>, key |-> k] \in Deeds
                      /\ [steps |-> <<"mark", "reload">>, key |-> k] \in Deeds
  BY DEF Deeds, Handlers, Quiescent, Key

LEMMA NextStepIs ==
    ASSUME ShareInv, NEW m \in Watcher, NextStep(m), todo[m].steps # <<>>
    PROVE  /\ \E t \in Deeds : todo' = [todo EXCEPT ![m] = t]
           /\ Due(m, "mark") => todo[m].key \in Key
  <1> DEFINE d == todo[m]
  <1>1. d \in Deeds /\ d.steps \in Handlers /\ d.key \in Key \cup {0} /\ d.steps # <<>>
    BY HasTypes DEF Deeds
  <1>2. Due(m, "mark") => d.key \in Key
    BY <1>1 DEF Due, Deeds
  <1> DEFINE next == IF Len(d.steps) = 1 THEN Quiescent
                     ELSE [steps |-> Tail(d.steps), key |-> d.key]
  <1>3. todo' = [todo EXCEPT ![m] = next]
    BY DEF NextStep
  <1>4. next \in Deeds
    <2>1. CASE d.steps = <<"reload">>
      <3>1. Len(d.steps) = 1
        BY <2>1
      <3> QED  BY <3>1, DeedIs
    <2>2. CASE d.steps # <<"reload">>
      <3>1. d.steps \in {<<"register", "reload">>, <<"mark", "reload">>,
                         <<"mark", "register", "reload">>}
        BY <1>1, <2>2 DEF Handlers
      <3>2. /\ Tail(<<"register", "reload">>) = <<"reload">>
            /\ Tail(<<"mark", "reload">>) = <<"reload">>
            /\ Tail(<<"mark", "register", "reload">>) = <<"register", "reload">>
        OBVIOUS
      <3>3. /\ Len(<<"register", "reload">>) = 2 /\ Len(<<"mark", "reload">>) = 2
            /\ Len(<<"mark", "register", "reload">>) = 3
        OBVIOUS
      <3>4. Tail(d.steps) \in {<<"reload">>, <<"register", "reload">>} /\ Len(d.steps) # 1
        <4> DEFINE h == d.steps
        <4>1. h \in {<<"register", "reload">>, <<"mark", "reload">>,
                    <<"mark", "register", "reload">>}
          BY <3>1
        <4> HIDE DEF h, d
        <4>2. Tail(h) \in {<<"reload">>, <<"register", "reload">>} /\ Len(h) # 1
          <5>1. CASE h = <<"register", "reload">>
            BY <5>1, <3>2, <3>3
          <5>2. CASE h = <<"mark", "reload">>
            BY <5>2, <3>2, <3>3
          <5>3. CASE h = <<"mark", "register", "reload">>
            BY <5>3, <3>2, <3>3
          <5> QED  BY <4>1, <5>1, <5>2, <5>3
        <4> QED  BY <4>2 DEF h
      <3>5. next = [steps |-> Tail(d.steps), key |-> d.key]
        BY <1>1, <3>4 DEF Deeds
      <3>6. [steps |-> <<"reload">>, key |-> d.key] \in Deeds
            /\ [steps |-> <<"register", "reload">>, key |-> d.key] \in Deeds
        BY <1>1 DEF Deeds, Handlers
      <3> HIDE DEF next
      <3> QED  BY <3>4, <3>5, <3>6
    <2> QED  BY <2>1, <2>2
  <1> HIDE DEF next
  <1> QED  BY <1>2, <1>3, <1>4

\* A step that mints nothing.
LEMMA QuietStepKeeps ==
    ASSUME ShareInv, NEW m \in Watcher, NEW c, NEW e, NEW x, NEW r, NEW s, NEW t,
           Becomes(m, c, e, x, r, s, t), Fits(m, c, e, x, r, s, t), minters' = minters,
           spent' \in Spends
    PROVE  ShareInv'
  <1>1. Mints(m)
    BY DEF Mints
  <1>2. minters'[c.share.key] = minters[c.share.key]
        /\ minters'[c.dormant.key] = minters[c.dormant.key]
    OBVIOUS
  <1>3. Suits(m, c, e, x, r, s, t)
    <2>1. /\ c \in Configs /\ e \in Declarations /\ x \in SUBSET Key /\ r \in Records
          /\ s \in Sessions /\ t \in Deeds
      BY DEF Fits
    <2>2. /\ Declarations \subseteq Declarations' /\ Configs \subseteq Configs'
          /\ Records \subseteq Records' /\ Sessions \subseteq Sessions' /\ Deeds \subseteq Deeds'
          /\ Key \subseteq Key'
      BY <1>1, Growing DEF ShareInv
    <2> QED  BY <1>2, <2>1, <2>2 DEF Fits, Suits
  <1> QED  BY <1>1, <1>3, ShareStepKeeps

LEMMA Unchanged ==
    ASSUME ShareInv, NEW m \in Watcher
    PROVE  /\ config = [config EXCEPT ![m] = config[m]] /\ entry = [entry EXCEPT ![m] = entry[m]]
           /\ ended = [ended EXCEPT ![m] = ended[m]] /\ record = [record EXCEPT ![m] = record[m]]
           /\ session = [session EXCEPT ![m] = session[m]] /\ todo = [todo EXCEPT ![m] = todo[m]]
  BY DEF ShareInv, ShareTypeOK

\* Handlers that begin: people's, and what a pass over the records decides.
LEMMA UnlockKeeps == ASSUME ShareInv, NEW m \in Watcher, Unlock(m)  PROVE ShareInv'
  <1> DEFINE t == [steps |-> <<"register", "reload">>, key |-> 0]
  <1>1. /\ todo' = [todo EXCEPT ![m] = t] /\ t \in Deeds /\ spent' \in Spends
        /\ entry' = entry /\ ended' = ended /\ record' = record /\ session' = session
    <2>1. spent \in Spends /\ MaxToggles \in Nat /\ spent.toggles < MaxToggles
          /\ spent' = [spent EXCEPT !.toggles = @ + 1]
      BY HasTypes, ShareBoundAssumption DEF Unlock, Toggles
    <2>2. spent' \in Spends
      BY <2>1 DEF Spends
    <2> QED  BY <2>2, DeedIs DEF Unlock, Continue
  <1> HIDE DEF t
  <1>2. CASE config[m].dormant # None
    <2> DEFINE c == [share |-> config[m].dormant, dormant |-> None]
    <2>1. config' = [config EXCEPT ![m] = c] /\ minters' = minters
      BY <1>2 DEF Unlock
    <2>2. c \in Configs
      BY <1>2, HasTypes, StowedIs, ConfigIs
    <2>3. minters[c.share.key] = m /\ c.dormant = None
      BY <1>2 DEF ShareInv, Owners
    <2> HIDE DEF c
    <2>4. Becomes(m, c, entry[m], ended[m], record[m], session[m], t)
      BY <1>1, <2>1, Unchanged DEF Becomes
    <2>5. Fits(m, c, entry[m], ended[m], record[m], session[m], t)
      BY <1>1, <2>2, <2>3, HasTypes DEF Fits
    <2> QED  BY <1>1, <2>1, <2>4, <2>5, QuietStepKeeps
  <1>3. CASE config[m].dormant = None
    <2> DEFINE s == [key |-> Len(minters) + 1, role |-> "owner", at |-> Minting, mirror |-> TRUE]
               c == [config[m] EXCEPT !.share = s]
    <2>1. /\ config' = [config EXCEPT ![m] = c] /\ Len(minters) < MaxMinted
          /\ minters' = Append(minters, m)
      BY <1>3 DEF Unlock
    <2>2. Mints(m)
      BY <2>1 DEF Mints
    <2>3. minters \in Seq(Watcher) /\ Len(minters) \in Nat
      BY DEF ShareInv, ShareTypeOK
    <2>4. Len(minters') = Len(minters) + 1 /\ minters'[Len(minters) + 1] = m
      BY <2>1, <2>3
    <2>5. s \in Served'
      <3>1. Len(minters) + 1 \in Key' /\ Minting \in (1..Minting)'
        BY <2>3, <2>4 DEF Key, Minting
      <3> QED  BY <3>1 DEF Served, Shares
    <2> HIDE DEF s
    <2>6. /\ config[m] \in Configs' /\ config[m].dormant = None
          /\ Served \subseteq Served' /\ Stowed \subseteq Stowed'
      BY <1>3, <2>2, HasTypes, Growing DEF ShareInv
    <2>7. c \in Configs' /\ c.share = s /\ c.dormant = None
      BY <2>5, <2>6 DEF Configs
    <2>8. s.key = Len(minters) + 1
      BY DEF s
    <2> HIDE DEF c
    <2>9. Becomes(m, c, entry[m], ended[m], record[m], session[m], t)
      BY <1>1, <2>1, Unchanged DEF Becomes
    <2>10. /\ entry[m] \in Declarations' /\ ended[m] \in SUBSET Key' /\ record[m] \in Records'
           /\ session[m] \in Sessions' /\ t \in Deeds'
      BY <1>1, <2>2, HasTypes, Growing DEF ShareInv
    <2>11. Suits(m, c, entry[m], ended[m], record[m], session[m], t)
      <3>1. minters'[c.share.key] = m
        BY <2>4, <2>7, <2>8
      <3> QED  BY <2>7, <2>10, <3>1 DEF Suits
    <2> QED  BY <1>1, <2>2, <2>9, <2>11, ShareStepKeeps
  <1> QED  BY <1>2, <1>3

LEMMA ToggleIs ==
    ASSUME ShareInv, NEW m \in Watcher, Toggles(m)
    PROVE  spent' \in Spends
  <1>1. spent \in Spends /\ MaxToggles \in Nat /\ spent.toggles < MaxToggles
        /\ spent' = [spent EXCEPT !.toggles = @ + 1]
    BY HasTypes, ShareBoundAssumption DEF Toggles
  <1> QED  BY <1>1 DEF Spends

LEMMA LockKeeps == ASSUME ShareInv, NEW m \in Watcher, Lock(m)  PROVE ShareInv'
  <1> DEFINE mine == config[m].share
             stowed == [mine EXCEPT !.role = "owner"]
             c == [share |-> None, dormant |-> stowed]
             t == [steps |-> <<"mark", "register", "reload">>, key |-> mine.key]
  <1>1. mine \in Served /\ mine # None /\ (mine.role = "owner" \/ minters[mine.key] = m)
    BY HasTypes DEF Lock
  <1>2. mine.key \in Key /\ stowed \in Stowed /\ minters[mine.key] = m
    BY <1>1, ServedIs DEF ShareInv, Owners
  <1>3. stowed.key = mine.key
    BY <1>1 DEF Served, Shares
  <1>4. t \in Deeds
    BY <1>2, DeedIs
  <1>5. /\ config' = [config EXCEPT ![m] = c] /\ todo' = [todo EXCEPT ![m] = t]
        /\ entry' = entry /\ ended' = ended /\ record' = record /\ session' = session
        /\ minters' = minters /\ Toggles(m)
    BY DEF Lock, Continue
  <1> HIDE DEF stowed, t, mine
  <1>6. c \in Configs /\ c.share = None /\ c.dormant = stowed
    BY <1>2, HasTypes, ConfigIs
  <1> HIDE DEF c
  <1>7. Becomes(m, c, entry[m], ended[m], record[m], session[m], t)
    BY <1>5, Unchanged DEF Becomes
  <1>8. Fits(m, c, entry[m], ended[m], record[m], session[m], t)
    BY <1>2, <1>3, <1>4, <1>6, HasTypes DEF Fits
  <1>9. spent' \in Spends
    BY <1>5, ToggleIs
  <1> QED  BY <1>5, <1>7, <1>8, <1>9, QuietStepKeeps

\* A step that leaves m a config with another share, and something to do.
LEMMA ConfigChanges ==
    ASSUME ShareInv, NEW m \in Watcher, NEW s \in Served, NEW d \in Stowed, NEW t \in Deeds,
           s # None /\ s.role = "owner" => minters[s.key] = m,
           d # None => minters[d.key] = m,
           config' = [config EXCEPT ![m] = [share |-> s, dormant |-> d]],
           todo' = [todo EXCEPT ![m] = t],
           UNCHANGED <<entry, ended, record, session, minters>>, spent' \in Spends
    PROVE  ShareInv'
  <1> DEFINE c == [share |-> s, dormant |-> d]
  <1>1. c \in Configs /\ c.share = s /\ c.dormant = d
    BY DEF Configs
  <1>2. config' = [config EXCEPT ![m] = c]
    OBVIOUS
  <1> HIDE DEF c
  <1>3. Becomes(m, c, entry[m], ended[m], record[m], session[m], t)
    BY <1>2, Unchanged DEF Becomes
  <1>4. Fits(m, c, entry[m], ended[m], record[m], session[m], t)
    BY <1>1, HasTypes DEF Fits
  <1> QED  BY <1>3, <1>4, QuietStepKeeps

LEMMA ShareOfConfig ==
    ASSUME ShareInv, NEW m \in Watcher, NEW s,
           config' = [config EXCEPT ![m].share = s]
    PROVE  config' = [config EXCEPT ![m] = [share |-> s, dormant |-> config[m].dormant]]
  <1>1. config[m] \in [share : Served, dormant : Stowed]
    BY HasTypes DEF Configs
  <1>2. [config[m] EXCEPT !.share = s] = [share |-> s, dormant |-> config[m].dormant]
    BY <1>1
  <1> QED  BY <1>2

LEMMA EndOrphanKeeps == ASSUME ShareInv, NEW m \in Watcher, EndOrphan(m)  PROVE ShareInv'
  <1> DEFINE t == [steps |-> <<"mark", "register", "reload">>, key |-> config[m].share.key]
  <1>1. config[m].share \in Served /\ config[m].share # None
    BY HasTypes DEF EndOrphan
  <1>2. t \in Deeds
    BY <1>1, ServedIs, DeedIs
  <1>3. /\ todo' = [todo EXCEPT ![m] = t] /\ config' = [config EXCEPT ![m].share = None]
        /\ UNCHANGED <<entry, ended, record, session, minters>>
    BY DEF EndOrphan, Continue
  <1>4. spent' \in Spends
    <2>1. spent \in Spends /\ MaxEnds \in Nat /\ spent.ends < MaxEnds
          /\ spent' = [spent EXCEPT !.ends = @ + 1]
      BY HasTypes, ShareBoundAssumption DEF EndOrphan
    <2> QED  BY <2>1 DEF Spends
  <1>5. config[m].dormant # None => minters[config[m].dormant.key] = m
    BY DEF ShareInv, Owners
  <1> HIDE DEF t
  <1>6. config' = [config EXCEPT ![m] = [share |-> None, dormant |-> config[m].dormant]]
    BY <1>3, ShareOfConfig
  <1>7. None \in Served /\ config[m].dormant \in Stowed
    BY HasTypes
  <1> QED  BY <1>2, <1>3, <1>4, <1>5, <1>6, <1>7, ConfigChanges

\* What a handler has still to do.
LEMMA MarkKeeps == ASSUME ShareInv, NEW m \in Watcher, MarkShareEnded(m)  PROVE ShareInv'
  <1>1. PICK t \in Deeds : todo' = [todo EXCEPT ![m] = t]
    BY NextStepIs DEF MarkShareEnded, Due
  <1>2. todo[m].key \in Key
    BY NextStepIs DEF MarkShareEnded, Due
  <1> DEFINE x == ended[m] \cup {todo[m].key}
  <1>3. x \in SUBSET Key /\ ended' = [ended EXCEPT ![m] = x]
    BY <1>2, HasTypes DEF MarkShareEnded
  <1> HIDE DEF x
  <1>4. Becomes(m, config[m], entry[m], x, record[m], session[m], t)
    BY <1>1, <1>3, Unchanged DEF MarkShareEnded, Becomes
  <1>5. Fits(m, config[m], entry[m], x, record[m], session[m], t)
    BY <1>3, HasTypes DEF Fits
  <1> QED  BY <1>4, <1>5, HasTypes, QuietStepKeeps DEF MarkShareEnded

LEMMA RegistersIs ==
    ASSUME ShareInv, NEW m \in Watcher, NEW s \in Served, RegisterMachinePigeon(m, s)
    PROVE  \E e \in Declarations : \E x \in SUBSET Key :
               entry' = [entry EXCEPT ![m] = e] /\ ended' = [ended EXCEPT ![m] = x]
  <1>1. Declared(s) \in Declarations /\ ended[m] \ {s.key} \in SUBSET Key
    BY ServedIs, HasTypes
  <1> QED  BY <1>1 DEF RegisterMachinePigeon

LEMMA RegisterAgainKeeps == ASSUME ShareInv, NEW m \in Watcher, RegisterAgain(m)  PROVE ShareInv'
  <1>1. PICK t \in Deeds : todo' = [todo EXCEPT ![m] = t]
    BY NextStepIs DEF RegisterAgain, Due
  <1>2. PICK e \in Declarations, x \in SUBSET Key :
            entry' = [entry EXCEPT ![m] = e] /\ ended' = [ended EXCEPT ![m] = x]
    BY HasTypes, RegistersIs DEF RegisterAgain
  <1>3. Becomes(m, config[m], e, x, record[m], session[m], t)
    BY <1>1, <1>2, Unchanged DEF RegisterAgain, Becomes
  <1>4. Fits(m, config[m], e, x, record[m], session[m], t)
    BY HasTypes DEF Fits
  <1> QED  BY <1>3, <1>4, HasTypes, QuietStepKeeps DEF RegisterAgain

LEMMA ClosedIs == Closed \in Sessions
  BY DEF Closed, Sessions, Served

LEMMA ReloadKeeps == ASSUME ShareInv, NEW m \in Watcher, Reload(m)  PROVE ShareInv'
  <1>1. PICK t \in Deeds : todo' = [todo EXCEPT ![m] = t]
    BY NextStepIs DEF Reload, Due
  <1>2. Becomes(m, config[m], entry[m], ended[m], record[m], Closed, t)
    BY <1>1, Unchanged DEF Reload, Becomes
  <1>3. Fits(m, config[m], entry[m], ended[m], record[m], Closed, t)
    BY ClosedIs, HasTypes DEF Fits
  <1> QED  BY <1>2, <1>3, HasTypes, QuietStepKeeps DEF Reload

\* Sessions.
LEMMA PrepareSessionKeeps ==
    ASSUME ShareInv, NEW m \in Watcher, PrepareRepositorySession(m)
    PROVE  ShareInv'
  <1> DEFINE mine == config[m].share
             s == EnsureShareMirror(m, mine)
             c == [share |-> s, dormant |-> config[m].dormant]
             z == [is |-> "opening", share |-> s]
  <1>1. mine \in Served /\ config[m].dormant \in Stowed
    BY HasTypes
  <1>2. s \in Served /\ (s # None /\ s.role = "owner" => minters[s.key] = m)
    <2>1. CASE mine # None /\ minters[mine.key] = m
      <3>1. s = [mine EXCEPT !.role = "owner", !.mirror = TRUE] /\ s \in Served
        BY <1>1, <2>1, ServedIs DEF EnsureShareMirror
      <3>2. s.key = mine.key
        BY <1>1, <2>1, <3>1 DEF Served, Shares
      <3> QED  BY <2>1, <3>1, <3>2
    <2>2. CASE ~(mine # None /\ minters[mine.key] = m)
      <3>1. s = mine
        BY <2>2 DEF EnsureShareMirror
      <3> QED  BY <1>1, <3>1 DEF ShareInv, Owners
    <2> QED  BY <2>1, <2>2
  <1>3. config' = [config EXCEPT ![m] = c] /\ session' = [session EXCEPT ![m] = z]
    <2>1. config' = [config EXCEPT ![m].share = s] /\ session' = [session EXCEPT ![m] = z]
      BY DEF PrepareRepositorySession
    <2> HIDE DEF s
    <2> QED  BY <2>1, ShareOfConfig
  <1> HIDE DEF s
  <1>4. c \in Configs /\ c.share = s /\ c.dormant = config[m].dormant /\ z \in Sessions
    BY <1>1, <1>2 DEF Configs, Sessions
  <1> HIDE DEF c, z
  <1>5. Becomes(m, c, entry[m], ended[m], record[m], z, todo[m])
    BY <1>3, Unchanged DEF PrepareRepositorySession, Becomes
  <1>6. Fits(m, c, entry[m], ended[m], record[m], z, todo[m])
    BY <1>2, <1>4, HasTypes DEF Fits
  <1> QED  BY <1>5, <1>6, HasTypes, QuietStepKeeps DEF PrepareRepositorySession

LEMMA OpenedKeeps == ASSUME ShareInv, NEW m \in Watcher, Opened(m)  PROVE ShareInv'
  <1> DEFINE z == [session[m] EXCEPT !.is = "open"]
  <1>1. session' = [session EXCEPT ![m] = z]
    BY DEF Opened
  <1>2. z \in Sessions
    BY HasTypes DEF Sessions
  <1>3. PICK e \in Declarations, x \in SUBSET Key :
            entry' = [entry EXCEPT ![m] = e] /\ ended' = [ended EXCEPT ![m] = x]
    BY HasTypes, RegistersIs DEF Opened
  <1> HIDE DEF z
  <1>4. Becomes(m, config[m], e, x, record[m], z, todo[m])
    BY <1>1, <1>3, Unchanged DEF Opened, Becomes
  <1>5. Fits(m, config[m], e, x, record[m], z, todo[m])
    BY <1>2, HasTypes DEF Fits
  <1> QED  BY <1>4, <1>5, HasTypes, QuietStepKeeps DEF Opened

LEMMA KillKeeps == ASSUME ShareInv, NEW m \in Watcher, Kill(m)  PROVE ShareInv'
  <1>1. Becomes(m, config[m], entry[m], ended[m], record[m], Closed, Quiescent)
    BY Unchanged DEF Kill, Becomes
  <1>2. Fits(m, config[m], entry[m], ended[m], record[m], Closed, Quiescent)
    BY ClosedIs, DeedIs, HasTypes DEF Fits
  <1>3. spent' \in Spends
    <2>1. spent \in Spends /\ MaxKills \in Nat /\ spent.kills < MaxKills
          /\ spent' = [spent EXCEPT !.kills = @ + 1]
      BY HasTypes, ShareBoundAssumption DEF Kill
    <2> QED  BY <2>1 DEF Spends
  <1> QED  BY <1>1, <1>2, <1>3, QuietStepKeeps DEF Kill

LEMMA RecloneKeeps == ASSUME ShareInv, NEW m \in Watcher, Reclone(m)  PROVE ShareInv'
  <1> DEFINE c == [share |-> None, dormant |-> None]
  <1>1. c \in Configs /\ c.share = None /\ c.dormant = None
    BY HasTypes, ConfigIs
  <1>2. config' = [config EXCEPT ![m] = c]
    BY DEF Reclone
  <1> HIDE DEF c
  <1>3. Becomes(m, c, None, ended[m], record[m], Closed, todo[m])
    BY <1>2, Unchanged DEF Reclone, Becomes
  <1>4. Fits(m, c, None, ended[m], record[m], Closed, todo[m])
    BY <1>1, ClosedIs, HasTypes DEF Fits
  <1>5. spent' \in Spends
    <2>1. spent \in Spends /\ MaxReclones \in Nat /\ spent.reclones < MaxReclones
          /\ spent' = [spent EXCEPT !.reclones = @ + 1]
      BY HasTypes, ShareBoundAssumption DEF Reclone
    <2> QED  BY <2>1 DEF Spends
  <1> QED  BY <1>3, <1>4, <1>5, QuietStepKeeps DEF Reclone

\* Records.
LEMMA PublishRecordKeeps == ASSUME ShareInv, NEW m \in Watcher, Publish(m)  PROVE ShareInv'
  <1> DEFINE r == [share |-> entry[m], ended |-> ended[m]]
  <1>1. r \in Records /\ record' = [record EXCEPT ![m] = r]
    BY HasTypes DEF Publish, Records
  <1> HIDE DEF r
  <1>2. Becomes(m, config[m], entry[m], ended[m], r, session[m], todo[m])
    BY <1>1, Unchanged DEF Publish, Becomes
  <1>3. Fits(m, config[m], entry[m], ended[m], r, session[m], todo[m])
    BY <1>1, HasTypes DEF Fits
  <1> QED  BY <1>2, <1>3, HasTypes, QuietStepKeeps DEF Publish

LEMMA AdoptIs ==
    ASSUME ShareInv, NEW m \in Watcher, RemoteShare(m) # None
    PROVE  /\ Adopt(m, RemoteShare(m)) \in Served
           /\ Adopt(m, RemoteShare(m)).role = "owner"
                  => minters[Adopt(m, RemoteShare(m)).key] = m
  <1> DEFINE r == RemoteShare(m)
  <1>1. r.key \in Key /\ r \in [key : Key, at : 1..Minting, mirror : BOOLEAN]
    BY RemoteShareIs DEF ShareInv
  <1>2. Adopting \in 1..Minting
    BY DEF Adopting, Minting, ShareInv, ShareTypeOK
  <1> HIDE DEF r
  <1>3. Adopt(m, r) \in Served /\ (Adopt(m, r).role = "owner" => minters[Adopt(m, r).key] = m)
    BY <1>1, <1>2 DEF Adopt, Served, Shares
  <1> QED  BY <1>3 DEF r

LEMMA OnRemoteSharesKeeps == ASSUME ShareInv, NEW m \in Watcher, OnRemoteShares(m)  PROVE ShareInv'
  <1> DEFINE mine == config[m].share
             dormant == config[m].dormant
             adopted == Adopt(m, RemoteShare(m))
             reload == [steps |-> <<"reload">>, key |-> 0]
  <1>1. mine \in Served /\ dormant \in Stowed /\ None \in Served /\ reload \in Deeds
    BY HasTypes, DeedIs
  <1>2. /\ UNCHANGED <<entry, ended, record, session, minters>> /\ spent' \in Spends
        /\ dormant # None => minters[dormant.key] = m
    BY HasTypes DEF OnRemoteShares, ShareInv, Owners
  <1>3. RemoteShare(m) # None =>
            adopted \in Served /\ (adopted # None /\ adopted.role = "owner" => minters[adopted.key] = m)
    BY AdoptIs
  <1>4. CASE config' = [config EXCEPT ![m].share = None] /\ todo' = [todo EXCEPT ![m] = reload]
    <2> HIDE DEF reload
    <2>1. config' = [config EXCEPT ![m] = [share |-> None, dormant |-> dormant]]
      BY <1>4, ShareOfConfig
    <2> HIDE DEF dormant
    <2> QED  BY <1>1, <1>2, <1>4, <2>1, ConfigChanges
  <1>5. CASE /\ RemoteShare(m) # None
             /\ config' = [config EXCEPT ![m].share = adopted]
             /\ todo' = [todo EXCEPT ![m] = reload]
    <2> HIDE DEF reload, adopted
    <2>1. config' = [config EXCEPT ![m] = [share |-> adopted, dormant |-> dormant]]
      BY <1>5, ShareOfConfig
    <2> HIDE DEF dormant
    <2> QED  BY <1>1, <1>2, <1>3, <1>5, <2>1, ConfigChanges
  <1>6. CASE /\ ~Mirrors(m) /\ Better(m)
             /\ config' = [config EXCEPT ![m] = [share |-> adopted, dormant |-> mine]]
             /\ todo' = [todo EXCEPT ![m] = [steps |-> <<"mark", "reload">>, key |-> mine.key]]
    <2> DEFINE t == [steps |-> <<"mark", "reload">>, key |-> mine.key]
    <2>1. mine # None /\ mine.role = "owner" /\ RemoteShare(m) # None
      BY <1>1, <1>6, ServedIs DEF Mirrors, Better
    <2>2. mine \in Stowed /\ mine.key \in Key /\ minters[mine.key] = m
      BY <1>1, <2>1, ServedIs DEF ShareInv, Owners
    <2>3. t \in Deeds
      BY <2>2, DeedIs
    <2> HIDE DEF mine, adopted
    <2>4. /\ config' = [config EXCEPT ![m] = [share |-> adopted, dormant |-> mine]]
          /\ todo' = [todo EXCEPT ![m] = t]
      BY <1>6
    <2> HIDE DEF t
    <2> QED  BY <1>2, <1>3, <2>1, <2>2, <2>3, <2>4, ConfigChanges
  <1>7. Better(m) => RemoteShare(m) # None
    BY DEF Better
  <1> QED  BY <1>4, <1>5, <1>6, <1>7 DEF OnRemoteShares, Continue

LEMMA ShareInvKept == ShareInv /\ [ShareNext]_svars => ShareInv'
  <1> SUFFICES ASSUME ShareInv, [ShareNext]_svars  PROVE ShareInv'
    OBVIOUS
  <1>1. CASE UNCHANGED svars
    BY <1>1 DEF svars, ShareInv, ShareTypeOK, Owners, Deeds, Key, Declarations, Served, Shares,
       Minting
  <1>2. CASE ShareNext
    <2>1. PICK m \in Watcher :
            \/ Unlock(m) \/ Lock(m) \/ EndOrphan(m)
            \/ MarkShareEnded(m) \/ RegisterAgain(m) \/ Reload(m)
            \/ PrepareRepositorySession(m) \/ Opened(m) \/ Kill(m) \/ Reclone(m)
            \/ Publish(m) \/ OnRemoteShares(m)
      BY <1>2 DEF ShareNext
    <2> QED  BY <2>1, UnlockKeeps, LockKeeps, EndOrphanKeeps, MarkKeeps, RegisterAgainKeeps,
                ReloadKeeps, PrepareSessionKeeps, OpenedKeeps, KillKeeps, RecloneKeeps,
                PublishRecordKeeps, OnRemoteSharesKeeps
  <1> QED  BY <1>1, <1>2

LEMMA SharesBegin == ShareInit => ShareInv
  <1> SUFFICES ASSUME ShareInit  PROVE ShareInv
    OBVIOUS
  <1>1. minters = <<>> /\ minters \in Seq(Watcher) /\ Len(minters) = 0 /\ 0 <= MaxMinted
    BY ShareBoundAssumption DEF ShareInit
  <1>2. Quiescent \in Deeds /\ None \in Served /\ None \in Stowed /\ None \in Declarations
    BY DeedIs DEF Served, Stowed, Declarations
  <1>3. Quiescent \in [steps : BoundedSeq(Step, 3), key : Key \cup {0}]
    BY <1>2, HandlersAreSteps DEF Deeds
  <1>4. spent \in Spends
    BY ShareBoundAssumption DEF ShareInit, Spends
  <1>5. ShareTypeOK
    BY <1>1, <1>2, <1>3, <1>4 DEF ShareInit, ShareTypeOK, Stowed, Spends
  <1>6. Owners
    BY DEF ShareInit, Owners
  <1> QED  BY <1>2, <1>5, <1>6 DEF ShareInv, ShareInit

-----------------------------------------------------------------------------
THEOREM ShareInvariance == ShareSpec => []ShareInv
  <1> QED  BY SharesBegin, ShareInvKept, PTL DEF ShareSpec

\* The variables of the shared link keep their types: what a pass over the records
\* collects, and what is adopted, resumed, stowed or stated ended, are shares that were
\* minted (syncRemoteRepositories, onRemoteShares, set-repository-sharing).
THEOREM ShareTypesHold == ShareSpec => []ShareTypeOK
  <1>1. ShareInv => ShareTypeOK
    BY DEF ShareInv
  <1> QED  BY <1>1, ShareInvariance, PTL

\* No two machines ever own one share, whoever mints, locks, resumes, adopts, yields,
\* is killed or cloned again (reclaimOwnShare, onRemoteShares, set-repository-sharing).
THEOREM OneOwnerAlways == ShareSpec => []OneOwner
  <1>1. ShareInv => OneOwner
    BY DEF ShareInv, Owners, OneOwner, Owns
  <1> QED  BY <1>1, ShareInvariance, PTL
\* With no handler under way, a session that is opening is of the share the config names;
\* an open one declares that share, and does not state that it ended.
ServesAndStates(m) == todo[m] = Quiescent =>
    /\ session[m].is = "opening" => session[m].share = config[m].share
    /\ session[m].is = "open" => /\ entry[m] = Declared(config[m].share)
                                 /\ config[m].share.key \notin ended[m]
Serving == \A m \in Watcher : ServesAndStates(m)

\* A machine that does nothing serves and states what it did.
LEMMA ServesElsewhere ==
    ASSUME Serving, NEW n \in Watcher,
           config'[n] = config[n], entry'[n] = entry[n], ended'[n] = ended[n],
           session'[n] = session[n], todo'[n] = todo[n]
    PROVE  ServesAndStates(n)'
  BY DEF Serving, ServesAndStates, Quiescent, Declared, None

\* A step of m changes nothing of the others.
LEMMA OnlyItself ==
    ASSUME ShareInv, NEW m \in Watcher, NEW n \in Watcher \ {m},
           \/ Unlock(m) \/ Lock(m) \/ EndOrphan(m)
           \/ MarkShareEnded(m) \/ RegisterAgain(m) \/ Reload(m)
           \/ PrepareRepositorySession(m) \/ Opened(m) \/ Kill(m) \/ Reclone(m)
           \/ Publish(m) \/ OnRemoteShares(m)
    PROVE  /\ config'[n] = config[n] /\ entry'[n] = entry[n] /\ ended'[n] = ended[n]
           /\ session'[n] = session[n] /\ todo'[n] = todo[n]
  <1> USE DEF ShareInv, ShareTypeOK
  <1>1. CASE Unlock(m) \/ Lock(m) \/ EndOrphan(m)
    BY <1>1 DEF Unlock, Lock, EndOrphan, Toggles, Continue
  <1>2. CASE MarkShareEnded(m) \/ RegisterAgain(m) \/ Reload(m)
    BY <1>2 DEF MarkShareEnded, RegisterAgain, Reload, NextStep, RegisterMachinePigeon
  <1>3. CASE PrepareRepositorySession(m) \/ Opened(m) \/ Kill(m) \/ Reclone(m) \/ Publish(m)
    BY <1>3 DEF PrepareRepositorySession, Opened, Kill, Reclone, Publish, RegisterMachinePigeon
  <1>4. CASE OnRemoteShares(m)
    BY <1>4 DEF OnRemoteShares, Continue
  <1> QED  BY <1>1, <1>2, <1>3, <1>4

\* A handler that has begun is not at its end: its last step is the reload.
LEMMA GoesOn ==
    ASSUME ShareInv, NEW m \in Watcher, NextStep(m), Due(m, "mark") \/ Due(m, "register")
    PROVE  todo'[m] # Quiescent
  <1> DEFINE d == todo[m]
  <1>1. d \in Deeds /\ d.steps \in Handlers
    BY HasTypes DEF Deeds
  <1>2. d.steps # <<>> /\ Head(d.steps) \in {"mark", "register"}
    BY DEF Due
  <1>3. d.steps \in {<<"register", "reload">>, <<"mark", "reload">>,
                     <<"mark", "register", "reload">>}
    <2> DEFINE h == d.steps
    <2>1. h \in Handlers /\ h # <<>> /\ Head(h) \in {"mark", "register"}
      BY <1>1, <1>2
    <2> HIDE DEF h
    <2>2. Head(<<"reload">>) = "reload"
      OBVIOUS
    <2> QED  BY <2>1, <2>2 DEF Handlers, h
  <1>4. Len(d.steps) # 1 /\ Tail(d.steps) # <<>>
    <2> DEFINE h == d.steps
    <2>1. /\ Tail(<<"register", "reload">>) = <<"reload">>
          /\ Tail(<<"mark", "reload">>) = <<"reload">>
          /\ Tail(<<"mark", "register", "reload">>) = <<"register", "reload">>
          /\ Len(<<"register", "reload">>) = 2 /\ Len(<<"mark", "reload">>) = 2
          /\ Len(<<"mark", "register", "reload">>) = 3
          /\ <<"reload">> # <<>> /\ <<"register", "reload">> # <<>>
      OBVIOUS
    <2>2. h \in {<<"register", "reload">>, <<"mark", "reload">>,
                 <<"mark", "register", "reload">>}
      BY <1>3
    <2> HIDE DEF h
    <2>3. CASE h = <<"register", "reload">>
      BY <2>1, <2>3 DEF h
    <2>4. CASE h = <<"mark", "reload">>
      BY <2>1, <2>4 DEF h
    <2>5. CASE h = <<"mark", "register", "reload">>
      BY <2>1, <2>5 DEF h
    <2> QED  BY <2>2, <2>3, <2>4, <2>5
  <1>5. todo'[m] = [steps |-> Tail(d.steps), key |-> d.key]
    BY <1>4 DEF NextStep, ShareInv
  <1> HIDE DEF d
  <1>6. todo'[m].steps # <<>>
    BY <1>4, <1>5
  <1> QED  BY <1>6 DEF Quiescent

\* The machine that steps.
LEMMA ServesItself ==
    ASSUME ShareInv, Serving, NEW m \in Watcher,
           \/ Unlock(m) \/ Lock(m) \/ EndOrphan(m)
           \/ MarkShareEnded(m) \/ RegisterAgain(m) \/ Reload(m)
           \/ PrepareRepositorySession(m) \/ Opened(m) \/ Kill(m) \/ Reclone(m)
           \/ Publish(m) \/ OnRemoteShares(m)
    PROVE  ServesAndStates(m)'
  <1>0. /\ config \in [Watcher -> Configs] /\ entry \in [Watcher -> Declarations]
        /\ ended \in [Watcher -> SUBSET Key] /\ session \in [Watcher -> Sessions]
        /\ todo \in [Watcher -> Deeds]
    BY DEF ShareInv, ShareTypeOK, Configs, Stowed, Sessions
  <1>1. /\ <<"register", "reload">> # <<>> /\ <<"reload">> # <<>> /\ <<"mark", "reload">> # <<>>
        /\ <<"mark", "register", "reload">> # <<>>
    OBVIOUS
  <1>2. CASE Unlock(m) \/ Lock(m) \/ EndOrphan(m) \/ OnRemoteShares(m)
    <2>1. \E steps, key : steps # <<>> /\ todo' = [todo EXCEPT ![m] = [steps |-> steps, key |-> key]]
      BY <1>1, <1>2 DEF Unlock, Lock, EndOrphan, OnRemoteShares, Continue
    <2>2. todo'[m] # Quiescent
      BY <1>0, <2>1 DEF Quiescent
    <2> QED  BY <2>2 DEF ServesAndStates, Quiescent
  <1>3. CASE MarkShareEnded(m) \/ RegisterAgain(m)
    <2>1. todo'[m] # Quiescent
      BY <1>3, GoesOn DEF MarkShareEnded, RegisterAgain
    <2> QED  BY <2>1 DEF ServesAndStates, Quiescent
  <1>4. CASE Reload(m) \/ Kill(m) \/ Reclone(m)
    <2>1. session'[m].is = "closed"
      BY <1>0, <1>4 DEF Reload, Kill, Reclone, Closed
    <2> QED  BY <2>1 DEF ServesAndStates
  <1>5. CASE PrepareRepositorySession(m)
    <2>1. PICK share : /\ config' = [config EXCEPT ![m].share = share]
                       /\ session' = [session EXCEPT ![m] = [is |-> "opening", share |-> share]]
      BY <1>5 DEF PrepareRepositorySession
    <2>2. config'[m].share = share /\ session'[m] = [is |-> "opening", share |-> share]
      BY <1>0, <2>1 DEF Configs
    <2> QED  BY <2>2 DEF ServesAndStates
  <1>6. CASE Opened(m)
    <2>1. /\ session[m].is = "opening" /\ session'[m].is = "open"
          /\ session'[m].share = session[m].share
          /\ config' = config /\ todo' = todo
          /\ entry'[m] = Declared(session[m].share)
          /\ ended'[m] = ended[m] \ {session[m].share.key}
      BY <1>0, <1>6 DEF Opened, RegisterMachinePigeon, Sessions
    <2>2. todo[m] = Quiescent => session[m].share = config[m].share
      BY <2>1 DEF Serving, ServesAndStates
    <2>3. todo[m] = Quiescent => /\ entry'[m] = Declared(config[m].share)
                                 /\ config[m].share.key \notin ended'[m]
      BY <2>1, <2>2
    <2> QED  BY <2>1, <2>3 DEF ServesAndStates, Quiescent, Declared, None
  <1>7. CASE Publish(m)
    BY <1>7, ServesElsewhere DEF Publish
  <1> QED  BY <1>2, <1>3, <1>4, <1>5, <1>6, <1>7

LEMMA ServingKept == ShareInv /\ Serving /\ [ShareNext]_svars => Serving'
  <1> SUFFICES ASSUME ShareInv, Serving, [ShareNext]_svars  PROVE Serving'
    OBVIOUS
  <1>1. CASE UNCHANGED svars
    BY <1>1, ServesElsewhere DEF svars, Serving
  <1>2. CASE ShareNext
    <2>1. PICK m \in Watcher :
            \/ Unlock(m) \/ Lock(m) \/ EndOrphan(m)
            \/ MarkShareEnded(m) \/ RegisterAgain(m) \/ Reload(m)
            \/ PrepareRepositorySession(m) \/ Opened(m) \/ Kill(m) \/ Reclone(m)
            \/ Publish(m) \/ OnRemoteShares(m)
      BY <1>2 DEF ShareNext
    <2>2. ServesAndStates(m)'
      BY <2>1, ServesItself
    <2>3. \A n \in Watcher \ {m} : ServesAndStates(n)'
      BY <2>1, OnlyItself, ServesElsewhere
    <2> QED  BY <2>2, <2>3 DEF Serving
  <1> QED  BY <1>1, <1>2

LEMMA ServingAtRest == ShareInv /\ Serving => RestingLinksAgree
  <1> SUFFICES ASSUME ShareInv, Serving, \A m \in Watcher : Rests(m), NEW m \in Watcher
               PROVE  /\ record[m].share = Declared(config[m].share)
                      /\ \A n \in Watcher :
                            Mirrors(n) => config[n].share.key \notin record[m].ended
    BY DEF RestingLinksAgree
  <1>1. \A n \in Watcher : /\ record[n].share = Declared(config[n].share)
                           /\ record[n].ended = ended[n] /\ record[n] # None
                           /\ config[n].share.key \notin ended[n]
    <2> SUFFICES ASSUME NEW n \in Watcher
                 PROVE  /\ record[n].share = Declared(config[n].share)
                        /\ record[n].ended = ended[n] /\ record[n] # None
                        /\ config[n].share.key \notin ended[n]
      OBVIOUS
    <2>1. /\ todo[n] = Quiescent /\ session[n].is = "open"
          /\ record[n] = [share |-> entry[n], ended |-> ended[n]]
      BY DEF Rests
    <2>2. entry[n] = Declared(config[n].share) /\ config[n].share.key \notin ended[n]
      BY <2>1 DEF Serving, ServesAndStates
    <2>3. record[n] # None
      BY <2>1 DEF None
    <2> QED  BY <2>1, <2>2, <2>3
  <1> SUFFICES ASSUME NEW n \in Watcher, Mirrors(n)
               PROVE  config[n].share.key \notin record[m].ended
    BY <1>1
  <1>2. CASE n = m
    BY <1>1, <1>2
  <1>3. CASE n # m
    <2>1. m \in Readable(n)
      BY <1>1, <1>3 DEF Readable
    <2>2. record[m].ended \subseteq RemoteEnded(n)
      BY <2>1 DEF RemoteEnded
    <2> QED  BY <2>2 DEF Rests, Dropped
  <1> QED  BY <1>2, <1>3

\* The safety that LocksReach comes down to: when every machine rests, each declares what
\* it serves, and none serves as an adopter a share that any of them states ended, after
\* whatever locks, resumptions, kills and clones, and however handlers and sessions
\* crossed (registerMachinePigeon, markShareEnded, launchSession, onRemoteShares).
THEOREM RestingLinksAgreeAlways == ShareSpec => []RestingLinksAgree
  <1>1. ShareInit => Serving
    BY DEF ShareInit, Serving, ServesAndStates, Declared, None
  <1>2. ShareInv /\ Serving => RestingLinksAgree
    BY ServingAtRest
  <1> QED  BY <1>1, <1>2, ShareInvariance, ServingKept, PTL DEF ShareSpec

\* A share that is served as the aspect "locks" begins is one that was minted.
LEMMA AdoptedIs == Adopted => ShareInv
  <1> SUFFICES ASSUME Adopted  PROVE ShareInv
    OBVIOUS
  <1> DEFINE owned == [key |-> 1, role |-> "owner", at |-> 2, mirror |-> TRUE]
             taken == [key |-> 1, role |-> "mirror", at |-> 3, mirror |-> FALSE]
             share(m) == IF m = 2 THEN owned ELSE taken
  <1>1. minters = <<2>> /\ minters \in Seq(Watcher) /\ Len(minters) = 1 /\ 1 <= MaxMinted
    BY SharedAssumption, ShareBoundAssumption DEF Adopted
  <1>2. Key = 1..1 /\ Minting = 4
    BY <1>1 DEF Key, Minting
  <1>3. \A m \in Watcher : share(m) \in Shares({"owner", "mirror"}) /\ share(m) \in Served
    BY <1>2 DEF Shares, Served
  <1>4. \A m \in Watcher : Declared(share(m)) \in Declarations
    BY <1>3, ServedIs
  <1>5. \A m \in Watcher : share(m) # None /\ (share(m).role = "owner" => minters[share(m).key] = m)
    BY <1>1 DEF None
  <1> HIDE DEF share
  <1>6. Quiescent \in Deeds /\ None \in Served /\ None \in Stowed /\ None \in Declarations
    BY DeedIs DEF Served, Stowed, Declarations
  <1>7. Quiescent \in [steps : BoundedSeq(Step, 3), key : Key \cup {0}]
    BY <1>6, HandlersAreSteps DEF Deeds
  <1>8. /\ config = [m \in Watcher |-> [share |-> share(m), dormant |-> None]]
        /\ entry = [m \in Watcher |-> Declared(share(m))]
        /\ ended = [m \in Watcher |-> {}]
        /\ record = [m \in Watcher |-> [share |-> Declared(share(m)), ended |-> {}]]
        /\ session = [m \in Watcher |-> [is |-> "open", share |-> share(m)]]
        /\ todo = [m \in Watcher |-> Quiescent]
    BY DEF Adopted, share
  <1>9. spent \in Spends
    BY ShareBoundAssumption DEF Adopted, Spends
  <1>10. ShareTypeOK
    BY <1>1, <1>3, <1>4, <1>6, <1>7, <1>8, <1>9 DEF ShareTypeOK, Stowed, Spends
  <1>11. Owners
    BY <1>5, <1>8 DEF Owners
  <1> QED  BY <1>6, <1>8, <1>10, <1>11 DEF ShareInv

\* Each part moves by itself, or stays.
LEMMA AgreementMoves ==
    ASSUME TypeOK, ShareInv, [MCNext]_<<part, vars, svars>>
    PROVE  TypeOK' /\ ShareInv'
  <1>1. [Next]_vars /\ [ShareNext]_svars
    BY DEF MCNext
  <1> QED  BY <1>1, TypesKept, ShareInvKept

\* The variables of the file and of the public link keep their types, whichever of the
\* two a behaviour follows (live-workspace.js, cli.js, machine-index.js).
THEOREM AgreementTypesHold == MCSpec => []TypesOK
  <1> DEFINE Both == TypeOK /\ ShareInv
  <1>1. MCInit => Both
    BY TypesInitially, SharesBegin, AdoptedIs DEF MCInit
  <1>2. Both /\ [MCNext]_<<part, vars, svars>> => Both'
    BY AgreementMoves
  <1>3. Both => TypesOK
    BY DEF ShareInv, TypesOK
  <1> HIDE DEF Both
  <1> QED  BY <1>1, <1>2, <1>3, PTL DEF MCSpec
=============================================================================
