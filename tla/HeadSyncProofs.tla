--------------------------- MODULE HeadSyncProofs ---------------------------
(***************************************************************************)
(* What holds of the head protocol for any devices, contents, kills and     *)
(* failures.                                                                *)
(***************************************************************************)
EXTENDS HeadSync, SequenceTheorems, TLAPS

\* The head of a queue of calls is a call, and names a snapshot or none.
LEMMA FirstCall ==
    ASSUME NEW calls \in Seq(Call), calls # <<>>
    PROVE  /\ Head(calls) \in Call /\ Head(calls).snap \in Known
           /\ Tail(calls) \in Seq(Call)
  <1>1. Head(calls) \in Call /\ Tail(calls) \in Seq(Call)
    OBVIOUS
  <1> QED  BY <1>1 DEF Call

\* One more call.
LEMMA OneMoreCall ==
    ASSUME NEW calls \in Seq(Call), NEW s \in Known,
           NEW by \in {"work", "direct", "publish"}
    PROVE  Append(calls, [by |-> by, snap |-> s]) \in Seq(Call)
  <1>1. [by |-> by, snap |-> s] \in Call
    BY DEF Call
  <1> QED  BY <1>1

LEMMA AcceptDoneTypes ==
    ASSUME TypeOK, NEW d \in Device, accepts[d] # <<>>, AcceptDone(d)
    PROVE  /\ accepts' \in [Device -> Seq(Call)]
           /\ importing' \in [Device -> BOOLEAN]
           /\ work' \in [Device -> {"idle", "busy"}]
           /\ direct' \in [Device -> {"idle", "reconcile", "observe", "busy", "retrieve"}]
  <1>1. Tail(accepts[d]) \in Seq(Call)
    BY FirstCall DEF TypeOK
  <1> QED  BY <1>1 DEF TypeOK, AcceptDone

LEMMA ReconcileDoneTypes ==
    ASSUME TypeOK, Owner \in Device, ReconcileDone
    PROVE  /\ desired' \in Known
           /\ mode' \in [Device -> {"down", "first", "again", "publish", "started"}]
           /\ direct' \in [Device -> {"idle", "reconcile", "observe", "busy", "retrieve"}]
  BY DEF TypeOK, ReconcileDone, Known

LEMMA RetrieveTypes ==
    ASSUME TypeOK, NEW d \in Device, Retrieve(d)
    PROVE  store' \in [Device -> Record]
  BY DEF TypeOK, Retrieve

LEMMA SaveTypes ==
    ASSUME NEW d \in Device, saved \in [Device -> State],
           heads' \in [Device -> Known], imported' \in [Device -> Known],
           UNCHANGED saved \/ SaveState(d)
    PROVE  saved' \in [Device -> State]
  <1>1. [head |-> heads'[d], imported |-> imported'[d]] \in State
    BY DEF State
  <1>2. CASE UNCHANGED saved
    BY <1>2
  <1>3. CASE SaveState(d)
    BY <1>1, <1>3 DEF SaveState
  <1> QED  BY <1>2, <1>3

\* A device that is importing has recorded the head it imports, and it is the
\* first of the calls of #acceptHead.
OneImport ==
    \A d \in Importer :
        importing[d] => /\ Up(d) /\ accepts[d] # <<>>
                        /\ heads[d] = Head(accepts[d]).snap

LEMMA TypesKept == TypeOK /\ OneImport /\ [Next]_vars => TypeOK'
  <1> SUFFICES ASSUME TypeOK, OneImport, [Next]_vars  PROVE TypeOK'
    OBVIOUS
  <1>o. Owner \in Device /\ Importer \subseteq Device
    BY DeviceAssumption DEF Importer
  <1>s. Snapshot \subseteq Known /\ None \in Known
    BY DEF Known
  <1>a. \A d \in Importer : importing[d] => accepts[d] # <<>>
    BY DEF OneImport
  <1> USE <1>o, <1>s DEF TypeOK, ownerVars, diskVars, importVars
  <1>1. ASSUME NEW c \in Snapshot, Edit(c)  PROVE TypeOK'
    BY <1>1 DEF Edit
  <1>2. CASE StartOwner
    BY <1>2 DEF StartOwner, State
  <1>3. CASE RefreshOwner
    BY <1>3 DEF RefreshOwner
  <1>4. CASE ReconcileOwnHead
    BY <1>4 DEF ReconcileOwnHead
  <1>5. CASE ObserveOwnHead
    <2>1. store' \in [Device -> Record]
      BY <1>5, RetrieveTypes DEF ObserveOwnHead
    <2>2. store'[Owner].snap \in Known
      BY <2>1 DEF Record
    <2>3. heads' \in [Device -> Known] /\ saved' \in [Device -> State]
      <3>1. heads' \in [Device -> Known] /\ imported' \in [Device -> Known]
        BY <1>5, <2>2 DEF ObserveOwnHead
      <3>2. UNCHANGED saved \/ SaveState(Owner)
        BY <1>5 DEF ObserveOwnHead
      <3> QED  BY <3>1, <3>2, SaveTypes
    <2>4. puts' \in Seq(Call)
      <3>1. Append(puts, [by |-> "direct", snap |-> desired]) \in Seq(Call)
        BY OneMoreCall
      <3> QED  BY <1>5, <3>1 DEF ObserveOwnHead, ReconcileDone
    <2>5. CASE ReconcileDone
      BY <1>5, <2>1, <2>3, <2>4, <2>5, ReconcileDoneTypes DEF ObserveOwnHead
    <2>6. CASE /\ direct' = [direct EXCEPT ![Owner] = "busy"]
               /\ UNCHANGED <<mode, heads, saved, desired>>
      BY <1>5, <2>1, <2>4, <2>6 DEF ObserveOwnHead
    <2> QED  BY <1>5, <2>5, <2>6 DEF ObserveOwnHead
  <1>6. CASE NothingToPublish
    BY <1>6 DEF NothingToPublish
  <1>7. CASE PublishLocal
    BY <1>7 DEF PublishLocal
  <1>8. CASE SeedManifest
    <2>1. puts' \in Seq(Call)
      BY <1>8, OneMoreCall DEF SeedManifest
    <2> QED  BY <1>8, <2>1 DEF SeedManifest
  <1>9. CASE Put
    <2>1. Tail(puts) \in Seq(Call) /\ Head(puts).snap \in Known
      BY <1>9, FirstCall DEF Put
    <2>2. store' \in [Device -> Record]
      BY <1>9, <2>1 DEF Put, Record
    <2>3. CASE Head(puts).by = "publish" \/ Head(puts).by = "work"
      <3>1. pub' \in [phase : {"idle", "seed", "put", "stored"}, snap : Known]
        <4>1. [phase |-> "stored", snap |-> Head(puts).snap]
                \in [phase : {"idle", "seed", "put", "stored"}, snap : Known]
          BY <1>9, FirstCall DEF Put
        <4> QED  BY <1>9, <4>1 DEF Put, ReconcileDone
      <3> QED  BY <1>9, <2>1, <2>2, <2>3, <3>1 DEF Put
    <2>4. CASE Head(puts).by = "direct"
      BY <1>9, <2>1, <2>2, <2>4, ReconcileDoneTypes DEF Put
    <2> QED  BY <1>9, <2>3, <2>4 DEF Put
  <1>10. CASE RecordHead
    BY <1>10 DEF RecordHead, SaveState, State, Idle
  <1>11. CASE AcceptOwnHead
    <2>1. Head(inbox[Owner]) \in Known /\ inbox' \in [Device -> Seq(Known)]
      BY <1>11 DEF AcceptOwnHead
    <2>2. Append(puts, [by |-> "work", snap |-> heads[Owner]]) \in Seq(Call)
      BY OneMoreCall
    <2>3. puts' \in Seq(Call)
      BY <1>11, <2>2 DEF AcceptOwnHead
    <2>4. heads' \in [Device -> Known] /\ saved' \in [Device -> State]
      <3>1. heads' \in [Device -> Known] /\ imported' \in [Device -> Known]
        <4>1. heads' = heads \/ heads' = [heads EXCEPT ![Owner] = Head(inbox[Owner])]
          BY <1>11 DEF AcceptOwnHead
        <4>2. imported' = imported
          BY <1>11 DEF AcceptOwnHead
        <4>3. [heads EXCEPT ![Owner] = Head(inbox[Owner])] \in [Device -> Known]
          BY <2>1
        <4> QED  BY <4>1, <4>2, <4>3
      <3>2. UNCHANGED saved \/ SaveState(Owner)
        BY <1>11 DEF AcceptOwnHead
      <3> QED  BY <3>1, <3>2, SaveTypes
    <2> QED  BY <1>11, <2>1, <2>3, <2>4 DEF AcceptOwnHead
  <1>12. ASSUME NEW d \in Importer, StartImporter(d)  PROVE TypeOK'
    BY <1>12 DEF StartImporter, State
  <1>13. ASSUME NEW d \in Importer, RefreshImporter(d)  PROVE TypeOK'
    BY <1>13 DEF RefreshImporter
  <1>14. ASSUME NEW d \in Importer, RefreshHead(d)  PROVE TypeOK'
    <2>1. store' \in [Device -> Record]
      BY <1>14, RetrieveTypes DEF RefreshHead
    <2>2. store'[d].snap \in Known
      BY <2>1 DEF Record
    <2>3. Append(accepts[d], [by |-> "direct", snap |-> store'[d].snap]) \in Seq(Call)
      BY <2>2, OneMoreCall
    <2>4. accepts' \in [Device -> Seq(Call)]
      BY <1>14, <2>3 DEF RefreshHead
    <2> QED  BY <1>14, <2>1, <2>4 DEF RefreshHead
  <1>15. ASSUME NEW d \in Importer, HandleEvent(d)  PROVE TypeOK'
    <2>1. Head(inbox[d]) \in Known /\ inbox' \in [Device -> Seq(Known)]
      BY <1>15 DEF HandleEvent
    <2>2. accepts' \in [Device -> Seq(Call)]
      BY <1>15, <2>1, OneMoreCall DEF HandleEvent
    <2> QED  BY <1>15, <2>1, <2>2 DEF HandleEvent
  <1>16. ASSUME NEW d \in Importer, AcceptHead(d)  PROVE TypeOK'
    <2>1. accepts[d] # <<>> /\ Head(accepts[d]).snap \in Known
      BY <1>16, FirstCall DEF ImportDue, AcceptHead
    <2>2. heads' \in [Device -> Known] /\ saved' \in [Device -> State]
      BY <1>16, <2>1 DEF ImportDue, AcceptHead, SaveState, State
    <2>3. CASE AcceptDone(d)
      BY <1>16, <2>1, <2>2, <2>3, AcceptDoneTypes DEF ImportDue, AcceptHead
    <2>4. CASE importing' = [importing EXCEPT ![d] = TRUE] /\ UNCHANGED <<accepts, work, direct>>
      BY <1>16, <2>2, <2>4 DEF ImportDue, AcceptHead
    <2> QED  BY <1>16, <2>3, <2>4 DEF ImportDue, AcceptHead
  <1>17. ASSUME NEW d \in Importer, Import(d)  PROVE TypeOK'
    <2>1. accepts[d] # <<>> /\ Head(accepts[d]).snap \in Known
      BY <1>17, <1>a, FirstCall DEF Import
    <2>2. /\ have' \in [Device -> SUBSET Known] /\ offered' \in [Device -> SUBSET Known]
          /\ imported' \in [Device -> Known] /\ saved' \in [Device -> State]
          /\ backoff' \in [Device -> Known]
      BY <1>17, <2>1 DEF Import, Fetched, SaveState, State
    <2> QED  BY <1>17, <2>1, <2>2, AcceptDoneTypes DEF Import
  <1>18. ASSUME NEW d \in Importer, ImportUnavailable(d)  PROVE TypeOK'
    <2>1. accepts[d] # <<>> /\ Head(accepts[d]).snap \in Known
      BY <1>18, <1>a, FirstCall DEF ImportUnavailable
    <2> QED  BY <1>18, <2>1, AcceptDoneTypes DEF ImportUnavailable, DeferImport
  <1>19. ASSUME NEW d \in Importer, ImportRefused(d)  PROVE TypeOK'
    <2>1. accepts[d] # <<>> /\ Head(accepts[d]).snap \in Known
      BY <1>19, <1>a, FirstCall DEF ImportRefused
    <2>2. /\ have' \in [Device -> SUBSET Known] /\ offered' \in [Device -> SUBSET Known]
      BY <1>19, <2>1 DEF ImportRefused, Fetched
    <2>3. backoff' \in [Device -> Known] /\ failures' \in Nat /\ AcceptDone(d)
      BY <1>19, <2>1 DEF ImportRefused, DeferImport
    <2>4. /\ accepts' \in [Device -> Seq(Call)] /\ importing' \in [Device -> BOOLEAN]
          /\ work' \in [Device -> {"idle", "busy"}]
          /\ direct' \in [Device -> {"idle", "reconcile", "observe", "busy", "retrieve"}]
      BY <2>1, <2>3, AcceptDoneTypes
    <2> QED  BY <1>19, <2>2, <2>3, <2>4 DEF ImportRefused
  <1>20. ASSUME NEW d \in Importer, BackoffEnds(d)  PROVE TypeOK'
    BY <1>20 DEF BackoffEnds
  <1>21. ASSUME NEW s \in Device, NEW d \in Device, Replicate(s, d)  PROVE TypeOK'
    BY <1>21 DEF Replicate, Record
  <1>22. ASSUME NEW d \in Device, SaveForAnotherHead(d)  PROVE TypeOK'
    BY <1>22 DEF SaveForAnotherHead, State
  <1>23. ASSUME NEW d \in Device, SaveLands(d)  PROVE TypeOK'
    BY <1>23 DEF SaveLands
  <1>24. ASSUME NEW d \in Device, Flush(d)  PROVE TypeOK'
    BY <1>24 DEF Flush
  <1>25. ASSUME NEW d \in Device, Crash(d)  PROVE TypeOK'
    <2>1. /\ desired' \in Known /\ puts' \in Seq(Call)
          /\ pub' \in [phase : {"idle", "seed", "put", "stored"}, snap : Known]
      <3>1. Idle \in [phase : {"idle", "seed", "put", "stored"}, snap : Known] /\ <<>> \in Seq(Call)
        BY DEF Idle
      <3> QED  BY <1>25, <3>1 DEF Crash
    <2> QED  BY <1>25, <2>1 DEF Crash
  <1>26. CASE UNCHANGED vars
    BY <1>26 DEF vars
  <1> QED  BY <1>1, <1>2, <1>3, <1>4, <1>5, <1>6, <1>7, <1>8, <1>9, <1>10,
              <1>11, <1>12, <1>13, <1>14, <1>15, <1>16, <1>17, <1>18, <1>19,
              <1>20, <1>21, <1>22, <1>23, <1>24, <1>25, <1>26
      DEF Next, OwnerNext, ImporterNext


-----------------------------------------------------------------------------
(***************************************************************************)
(* The phases of an import, and what a device that is down holds.           *)
(***************************************************************************)

DownIsBlank ==
    \A d \in Device :
        ~Up(d) => /\ heads[d] = None /\ imported[d] = None
                  /\ inbox[d] = <<>> /\ accepts[d] = <<>> /\ direct[d] = "idle"

Phases == OneImport /\ DownIsBlank

\* A call that joins the others of #acceptHead leaves the first in place.
LEMMA FirstStays ==
    ASSUME NEW S, NEW calls \in Seq(S), calls # <<>>, NEW c \in S
    PROVE  Append(calls, c) # <<>> /\ Head(Append(calls, c)) = Head(calls)
  OBVIOUS

LEMMA PhasesKept == TypeOK /\ Phases /\ [Next]_vars => Phases'
  <1> SUFFICES ASSUME TypeOK, Phases, [Next]_vars  PROVE Phases'
    OBVIOUS
  <1>o. /\ Owner \in Device /\ Importer \subseteq Device /\ Owner \notin Importer
        /\ \A d \in Importer : d # Owner
    BY DeviceAssumption DEF Importer
  <1> USE <1>o DEF TypeOK, Phases, OneImport, DownIsBlank, Up, ownerVars, diskVars,
                   importVars
  <1>1. ASSUME NEW c \in Snapshot, Edit(c)  PROVE Phases'
    BY <1>1 DEF Edit
  <1>2. CASE StartOwner
    BY <1>2 DEF StartOwner
  <1>3. CASE RefreshOwner
    BY <1>3 DEF RefreshOwner
  <1>4. CASE ReconcileOwnHead
    BY <1>4 DEF ReconcileOwnHead
  <1>5. CASE ObserveOwnHead
    BY <1>5 DEF ObserveOwnHead, ReconcileDone
  <1>6. CASE NothingToPublish
    BY <1>6 DEF NothingToPublish
  <1>7. CASE PublishLocal
    BY <1>7 DEF PublishLocal
  <1>8. CASE SeedManifest
    BY <1>8 DEF SeedManifest
  <1>9. CASE Put
    BY <1>9 DEF Put, ReconcileDone
  <1>10. CASE RecordHead
    BY <1>10 DEF RecordHead
  <1>11. CASE AcceptOwnHead
    BY <1>11 DEF AcceptOwnHead
  <1>12. ASSUME NEW d \in Importer, StartImporter(d)  PROVE Phases'
    BY <1>12 DEF StartImporter
  <1>13. ASSUME NEW d \in Importer, RefreshImporter(d)  PROVE Phases'
    BY <1>13 DEF RefreshImporter
  <1>14. ASSUME NEW d \in Importer, RefreshHead(d)  PROVE Phases'
    <2>1. \A e \in Importer : accepts[e] # <<>> =>
                accepts'[e] # <<>> /\ Head(accepts'[e]) = Head(accepts[e])
      <3>1. store' \in [Device -> Record]
        BY <1>14, RetrieveTypes DEF RefreshHead
      <3>2. store'[d].snap \in Known
        BY <3>1 DEF Record
      <3>3. [by |-> "direct", snap |-> store'[d].snap] \in Call
        BY <3>2 DEF Call
      <3>4. ASSUME accepts[d] # <<>>
            PROVE  LET q == Append(accepts[d], [by |-> "direct", snap |-> store'[d].snap])
                   IN  q # <<>> /\ Head(q) = Head(accepts[d])
        <4>1. accepts[d] \in Seq(Call)
          OBVIOUS
        <4> HIDE DEF TypeOK, Phases, OneImport, DownIsBlank
        <4> QED  BY <3>3, <3>4, <4>1, FirstStays
      <3>5. \/ UNCHANGED accepts
            \/ accepts' = [accepts EXCEPT
                  ![d] = Append(@, [by |-> "direct", snap |-> store'[d].snap])]
        BY <1>14 DEF RefreshHead
      <3> QED  BY <3>4, <3>5
    <2>2. Up(d) /\ mode' = mode
      BY <1>14 DEF RefreshHead
    <2>3. \A e \in Device \ {d} : accepts'[e] = accepts[e] /\ direct'[e] = direct[e]
      BY <1>14 DEF RefreshHead
    <2>4. UNCHANGED <<heads, imported, inbox, importing>>
      BY <1>14 DEF RefreshHead
    <2>5. OneImport'
      BY <2>1, <2>2, <2>4
    <2>6. DownIsBlank'
      BY <2>2, <2>3, <2>4
    <2> QED  BY <2>5, <2>6
  <1>15. ASSUME NEW d \in Importer, HandleEvent(d)  PROVE Phases'
    <2>1. \A e \in Importer : accepts[e] # <<>> =>
                accepts'[e] # <<>> /\ Head(accepts'[e]) = Head(accepts[e])
      <3>1. [by |-> "work", snap |-> Head(inbox[d])] \in Call
        BY <1>15 DEF HandleEvent, Call
      <3>2. ASSUME accepts[d] # <<>>
            PROVE  LET q == Append(accepts[d], [by |-> "work", snap |-> Head(inbox[d])])
                   IN  q # <<>> /\ Head(q) = Head(accepts[d])
        <4>1. accepts[d] \in Seq(Call)
          OBVIOUS
        <4> HIDE DEF TypeOK, Phases, OneImport, DownIsBlank
        <4> QED  BY <3>1, <3>2, <4>1, FirstStays
      <3>3. accepts' = [accepts EXCEPT
              ![d] = Append(@, [by |-> "work", snap |-> Head(inbox[d])])]
        BY <1>15 DEF HandleEvent
      <3> QED  BY <3>2, <3>3
    <2>2. Up(d) /\ mode' = mode
      BY <1>15 DEF HandleEvent
    <2>3. \A e \in Device \ {d} : accepts'[e] = accepts[e] /\ inbox'[e] = inbox[e]
      BY <1>15 DEF HandleEvent
    <2>4. UNCHANGED <<heads, imported, direct, importing>>
      BY <1>15 DEF HandleEvent
    <2>5. OneImport'
      BY <2>1, <2>2, <2>4
    <2>6. DownIsBlank'
      BY <2>2, <2>3, <2>4
    <2> QED  BY <2>5, <2>6
  <1>16. ASSUME NEW d \in Importer, AcceptHead(d)  PROVE Phases'
    <2>1. Up(d) /\ mode' = mode /\ accepts[d] # <<>> /\ ~importing[d]
      BY <1>16 DEF ImportDue, AcceptHead
    <2>2. heads' = [heads EXCEPT ![d] = Head(accepts[d]).snap]
      BY <1>16 DEF ImportDue, AcceptHead
    <2>3. \/ /\ importing' = [importing EXCEPT ![d] = TRUE]
             /\ UNCHANGED <<accepts, direct>>
          \/ AcceptDone(d)
      BY <1>16 DEF ImportDue, AcceptHead
    <2>4. \A e \in Device \ {d} : importing'[e] = importing[e] /\ heads'[e] = heads[e]
                                 /\ accepts'[e] = accepts[e] /\ direct'[e] = direct[e]
      BY <2>2, <2>3 DEF AcceptDone
    <2>5. importing'[d] => accepts'[d] = accepts[d] /\ heads'[d] = Head(accepts[d]).snap
      BY <2>2, <2>3 DEF AcceptDone
    <2>6. UNCHANGED <<imported, inbox>>
      BY <1>16 DEF ImportDue, AcceptHead
    <2> QED  BY <2>1, <2>4, <2>5, <2>6
  <1>17. ASSUME NEW d \in Importer, Import(d)  PROVE Phases'
    BY <1>17 DEF Import, AcceptDone
  <1>18. ASSUME NEW d \in Importer, ImportUnavailable(d)  PROVE Phases'
    BY <1>18 DEF ImportUnavailable, DeferImport, AcceptDone
  <1>19. ASSUME NEW d \in Importer, ImportRefused(d)  PROVE Phases'
    BY <1>19 DEF ImportRefused, DeferImport, AcceptDone
  <1>20. ASSUME NEW d \in Importer, BackoffEnds(d)  PROVE Phases'
    BY <1>20 DEF BackoffEnds
  <1>21. ASSUME NEW s \in Device, NEW d \in Device, Replicate(s, d)  PROVE Phases'
    BY <1>21 DEF Replicate
  <1>22. ASSUME NEW d \in Device, SaveForAnotherHead(d)  PROVE Phases'
    BY <1>22 DEF SaveForAnotherHead
  <1>23. ASSUME NEW d \in Device, SaveLands(d)  PROVE Phases'
    BY <1>23 DEF SaveLands
  <1>24. ASSUME NEW d \in Device, Flush(d)  PROVE Phases'
    BY <1>24 DEF Flush
  <1>25. ASSUME NEW d \in Device, Crash(d)  PROVE Phases'
    BY <1>25 DEF Crash
  <1>26. CASE UNCHANGED vars
    BY <1>26 DEF vars
  <1> QED  BY <1>1, <1>2, <1>3, <1>4, <1>5, <1>6, <1>7, <1>8, <1>9, <1>10,
              <1>11, <1>12, <1>13, <1>14, <1>15, <1>16, <1>17, <1>18, <1>19,
              <1>20, <1>21, <1>22, <1>23, <1>24, <1>25, <1>26
      DEF Next, OwnerNext, ImporterNext

LEMMA InitialTypes == Init => TypeOK /\ Phases
  <1> SUFFICES ASSUME Init  PROVE TypeOK /\ Phases
    OBVIOUS
  <1>1. /\ NoRecord \in Record /\ NoState \in State /\ None \in Known
        /\ Idle \in [phase : {"idle", "seed", "put", "stored"}, snap : Known]
    BY DEF NoRecord, Record, NoState, State, Idle, Known
  <1>2. TypeOK
    BY <1>1 DEF Init, TypeOK
  <1>3. Phases
    BY DEF Init, Phases, OneImport, DownIsBlank, Importer
  <1> QED  BY <1>2, <1>3

\* Every variable keeps its type.
THEOREM TypeCorrect == Spec => []TypeOK
  <1>1. Phases => OneImport
    BY DEF Phases
  <1>2. TypeOK /\ Phases /\ [Next]_vars => TypeOK' /\ Phases'
    BY <1>1, TypesKept, PhasesKept
  <1> QED  BY InitialTypes, <1>2, PTL DEF Spec

-----------------------------------------------------------------------------
(***************************************************************************)
(* Whatever names a snapshot names one the Owner has stored: publishLocal   *)
(* puts the head last, and all else only copies.                            *)
(***************************************************************************)

Stored == have[Owner]
StoredState == [head : Stored \cup {None}, imported : Stored \cup {None}]
StoredCall == [by : {"work", "direct", "publish"}, snap : Stored]

\* A record is absent or names a stored snapshot.
StoredRecord(r) == \/ r.ver = 0 /\ r.snap = None
                   \/ r.ver > 0 /\ r.snap \in Stored

RecordsStored == \A d \in Device : StoredRecord(store[d]) /\ StoredRecord(flushed[d])

StatesStored ==
    \A d \in Device :
        /\ heads[d] \in Stored \cup {None} /\ imported[d] \in Stored \cup {None}
        /\ saved[d] \in StoredState /\ saving[d] \subseteq StoredState

CallsStored ==
    /\ puts \in Seq(StoredCall)
    /\ \A d \in Device : accepts[d] \in Seq(StoredCall) /\ inbox[d] \in Seq(Stored)

PublishStored ==
    /\ Stored \subseteq Snapshot
    /\ desired \in Stored \cup {None}
    /\ pub.phase = "seed" => pub.snap \in Snapshot
    /\ pub.phase \in {"put", "stored"} => pub.snap \in Stored

OnlyStored == RecordsStored /\ StatesStored /\ CallsStored /\ PublishStored

LEMMA NoneIsNoSnapshot == None \notin Snapshot
  BY SnapshotAssumption DEF None

LEMMA FirstStoredCall ==
    ASSUME NEW calls \in Seq(StoredCall), calls # <<>>
    PROVE  Head(calls).snap \in Stored /\ Tail(calls) \in Seq(StoredCall)
  <1>1. Head(calls) \in StoredCall /\ Tail(calls) \in Seq(StoredCall)
    OBVIOUS
  <1> QED  BY <1>1 DEF StoredCall

LEMMA OneMoreStoredCall ==
    ASSUME NEW calls \in Seq(StoredCall), NEW s \in Stored,
           NEW by \in {"work", "direct", "publish"}
    PROVE  Append(calls, [by |-> by, snap |-> s]) \in Seq(StoredCall)
  <1>1. [by |-> by, snap |-> s] \in StoredCall
    BY DEF StoredCall
  <1> QED  BY <1>1

\* The store's replica is changed for a stored record by a retrieve.
LEMMA RetrieveStored ==
    ASSUME TypeOK, RecordsStored, NEW d \in Device, Retrieve(d)
    PROVE  \A e \in Device : StoredRecord(store'[e])
  <1>1. CASE UNCHANGED store
    BY <1>1 DEF RecordsStored
  <1>2. ASSUME NEW s \in Device, store' = [store EXCEPT ![d] = store[s]]
        PROVE  \A e \in Device : StoredRecord(store'[e])
    <2>1. \A e \in Device : store'[e] \in {store[e], store[s]}
      BY <1>2 DEF TypeOK
    <2> QED  BY <2>1 DEF RecordsStored
  <1> QED  BY <1>1, <1>2 DEF Retrieve

LEMMA SaveStored ==
    ASSUME TypeOK, StatesStored, NEW d \in Device, Stored' = Stored,
           UNCHANGED saved \/ SaveState(d), UNCHANGED saving,
           \A e \in Device : heads'[e] \in Stored \cup {None},
           \A e \in Device : imported'[e] \in Stored \cup {None}
    PROVE  StatesStored'
  <1>1. [head |-> heads'[d], imported |-> imported'[d]] \in StoredState
    BY DEF StoredState
  <1>2. StoredState' = StoredState
    BY DEF StoredState
  <1>3. \A e \in Device : saved'[e] \in StoredState
    BY <1>1 DEF TypeOK, StatesStored, SaveState
  <1> QED  BY <1>2, <1>3 DEF StatesStored

LEMMA AcceptDoneStored ==
    ASSUME TypeOK, CallsStored, NEW d \in Device, accepts[d] # <<>>, AcceptDone(d)
    PROVE  \A e \in Device : accepts'[e] \in Seq(StoredCall)
  <1>1. Tail(accepts[d]) \in Seq(StoredCall)
    BY FirstStoredCall DEF CallsStored
  <1> QED  BY <1>1 DEF TypeOK, CallsStored, AcceptDone

\* More is stored: what named a stored snapshot still does.
LEMMA MoreStored ==
    ASSUME NEW S, NEW T, S \subseteq T, NEW q \in Seq(S)
    PROVE  q \in Seq(T)
  OBVIOUS

LEMMA OnlyStoredKept ==
    TypeOK /\ Phases /\ OnlyStored /\ [Next]_vars => OnlyStored'
  <1> SUFFICES ASSUME TypeOK, Phases, OnlyStored, [Next]_vars  PROVE OnlyStored'
    OBVIOUS
  <1>o. /\ Owner \in Device /\ Importer \subseteq Device /\ \A d \in Importer : d # Owner
        /\ \A d \in Importer : d \in Device
    BY DeviceAssumption DEF Importer
  <1>n. None \notin Snapshot /\ None \notin Stored
    BY NoneIsNoSnapshot DEF OnlyStored, PublishStored
  <1>i. \A d \in Importer : importing[d] => accepts[d] # <<>>
    BY DEF Phases, OneImport
  <1>p. RecordsStored /\ StatesStored /\ CallsStored /\ PublishStored
    BY DEF OnlyStored
  <1>u. UNCHANGED have => Stored' = Stored /\ StoredState' = StoredState
                           /\ StoredCall' = StoredCall
    BY DEF Stored, StoredState, StoredCall
  \* Copies and stutters.
  <1>c. ASSUME UNCHANGED <<store, flushed, heads, imported, saved, saving, puts,
                           accepts, inbox, desired, have>>,
               UNCHANGED pub \/ pub' = [phase |-> "seed", snap |-> content] \/ pub' = Idle
        PROVE  OnlyStored'
    <2>1. RecordsStored'
      BY <1>c, <1>p, <1>u DEF RecordsStored, StoredRecord
    <2>2. StatesStored'
      BY <1>c, <1>p, <1>u DEF StatesStored
    <2>3. CallsStored'
      BY <1>c, <1>p, <1>u DEF CallsStored
    <2>4. PublishStored'
      BY <1>c, <1>p, <1>u DEF PublishStored, TypeOK, Idle
    <2> QED  BY <2>1, <2>2, <2>3, <2>4 DEF OnlyStored
  <1> USE <1>o DEF ownerVars, diskVars, importVars
  <1>1. ASSUME NEW c \in Snapshot, Edit(c)  PROVE OnlyStored'
    BY <1>1, <1>c DEF Edit
  <1>2. CASE StartOwner
    <2>1. RecordsStored'
      BY <1>2, <1>p, <1>u DEF StartOwner, RecordsStored, StoredRecord
    <2>2. StatesStored'
      BY <1>2, <1>p, <1>u DEF StartOwner, StatesStored, StoredState, TypeOK
    <2>3. CallsStored'
      BY <1>2, <1>p, <1>u DEF StartOwner, CallsStored
    <2>4. PublishStored'
      BY <1>2, <1>p, <1>u DEF StartOwner, PublishStored
    <2> QED  BY <2>1, <2>2, <2>3, <2>4 DEF OnlyStored
  <1>3. CASE RefreshOwner
    BY <1>3, <1>c DEF RefreshOwner
  <1>4. CASE ReconcileOwnHead
    <2>1. RecordsStored'
      BY <1>4, <1>p, <1>u DEF ReconcileOwnHead, RecordsStored, StoredRecord
    <2>2. StatesStored'
      BY <1>4, <1>p, <1>u DEF ReconcileOwnHead, StatesStored
    <2>3. CallsStored'
      BY <1>4, <1>p, <1>u DEF ReconcileOwnHead, CallsStored
    <2>4. PublishStored'
      BY <1>4, <1>p, <1>u DEF ReconcileOwnHead, PublishStored, StatesStored
    <2> QED  BY <2>1, <2>2, <2>3, <2>4 DEF OnlyStored
  <1>5. CASE ObserveOwnHead
    <2>1. RecordsStored'
      <3>1. \A e \in Device : StoredRecord(store'[e])
        BY <1>5, <1>p, RetrieveStored DEF ObserveOwnHead
      <3> QED  BY <1>5, <1>p, <1>u, <3>1 DEF ObserveOwnHead, RecordsStored, StoredRecord
    <2>2. StatesStored'
      <3>1. store'[Owner].snap \in Stored \cup {None}
        BY <1>5, <1>p, RetrieveStored DEF ObserveOwnHead, StoredRecord
      <3>2. /\ \A e \in Device : heads'[e] \in Stored \cup {None}
            /\ \A e \in Device : imported'[e] \in Stored \cup {None}
        BY <1>5, <1>p, <3>1 DEF ObserveOwnHead, StatesStored, TypeOK
      <3>3. UNCHANGED have /\ UNCHANGED saving /\ (UNCHANGED saved \/ SaveState(Owner))
        BY <1>5 DEF ObserveOwnHead
      <3> QED  BY <1>p, <1>u, <3>2, <3>3, SaveStored
    <2>3. CallsStored'
      <3>1. puts' \in Seq(StoredCall)
        <4>1. CASE UNCHANGED puts
          BY <1>p, <4>1 DEF CallsStored
        <4>2. CASE desired # None /\ puts' = Append(puts, [by |-> "direct", snap |-> desired])
          <5>1. desired \in Stored
            BY <1>p, <4>2 DEF PublishStored
          <5> QED  BY <1>p, <4>2, <5>1, OneMoreStoredCall DEF CallsStored
        <4> QED  BY <1>5, <4>1, <4>2 DEF ObserveOwnHead
      <3> QED  BY <1>5, <1>p, <1>u, <3>1 DEF ObserveOwnHead, CallsStored
    <2>4. PublishStored'
      BY <1>5, <1>p, <1>u DEF ObserveOwnHead, ReconcileDone, PublishStored
    <2> QED  BY <2>1, <2>2, <2>3, <2>4 DEF OnlyStored
  <1>6. CASE NothingToPublish
    BY <1>6, <1>c DEF NothingToPublish
  <1>7. CASE PublishLocal
    BY <1>7, <1>c DEF PublishLocal
  <1>8. CASE SeedManifest
    <2>0. Stored' = Stored \cup {pub.snap} /\ Stored \subseteq Stored' /\ pub.snap \in Snapshot
      BY <1>8, <1>p DEF SeedManifest, Stored, PublishStored, TypeOK
    <2>1. RecordsStored'
      BY <1>8, <1>p, <2>0 DEF SeedManifest, RecordsStored, StoredRecord
    <2>2. StatesStored'
      <3>1. StoredState \subseteq StoredState'
        BY <2>0 DEF StoredState
      <3> QED  BY <1>8, <1>p, <2>0, <3>1 DEF SeedManifest, StatesStored
    <2>3. CallsStored'
      <3>1. StoredCall \subseteq StoredCall'
        BY <2>0 DEF StoredCall
      <3>2. /\ puts \in Seq(StoredCall') /\ \A d \in Device : accepts[d] \in Seq(StoredCall')
            /\ \A d \in Device : inbox[d] \in Seq(Stored')
        BY <1>p, <2>0, <3>1, MoreStored DEF CallsStored
      <3>3. [by |-> "publish", snap |-> pub.snap] \in StoredCall'
        BY <2>0 DEF StoredCall
      <3>4. puts' \in Seq(StoredCall')
        BY <1>8, <3>2, <3>3 DEF SeedManifest
      <3> QED  BY <1>8, <3>2, <3>4 DEF SeedManifest, CallsStored
    <2>4. PublishStored'
      BY <1>8, <1>p, <2>0 DEF SeedManifest, PublishStored, TypeOK
    <2> QED  BY <2>1, <2>2, <2>3, <2>4 DEF OnlyStored
  <1>9. CASE Put
    <2>0. Head(puts).snap \in Stored /\ Tail(puts) \in Seq(StoredCall)
      BY <1>9, <1>p, FirstStoredCall DEF Put, CallsStored
    <2>1. RecordsStored'
      <3>1. store[Owner].ver \in Nat
        BY DEF TypeOK, Record
      <3> QED  BY <1>9, <1>p, <1>u, <2>0, <3>1 DEF Put, RecordsStored, StoredRecord, TypeOK
    <2>2. StatesStored'
      BY <1>9, <1>p, <1>u DEF Put, StatesStored
    <2>3. CallsStored'
      BY <1>9, <1>p, <1>u, <2>0 DEF Put, CallsStored
    <2>4. PublishStored'
      <3>1. Stored' = Stored /\ desired' \in {desired, None}
        BY <1>9, <1>u DEF Put, ReconcileDone
      <3>2. CASE UNCHANGED pub
        BY <1>p, <3>1, <3>2 DEF PublishStored
      <3>3. CASE pub' = [phase |-> "stored", snap |-> Head(puts).snap]
        BY <1>p, <2>0, <3>1, <3>3 DEF PublishStored
      <3> QED  BY <1>9, <3>2, <3>3 DEF Put
    <2> QED  BY <2>1, <2>2, <2>3, <2>4 DEF OnlyStored
  <1>10. CASE RecordHead
    <2>1. RecordsStored'
      BY <1>10, <1>p, <1>u DEF RecordHead, RecordsStored, StoredRecord
    <2>2. StatesStored'
      <3>1. /\ \A e \in Device : heads'[e] \in Stored \cup {None}
            /\ \A e \in Device : imported'[e] \in Stored \cup {None}
        BY <1>10, <1>p DEF RecordHead, StatesStored, PublishStored, TypeOK
      <3>2. UNCHANGED have /\ UNCHANGED saving /\ SaveState(Owner)
        BY <1>10 DEF RecordHead
      <3> QED  BY <1>p, <1>u, <3>1, <3>2, SaveStored
    <2>3. CallsStored'
      BY <1>10, <1>p, <1>u DEF RecordHead, CallsStored
    <2>4. PublishStored'
      BY <1>10, <1>p, <1>u DEF RecordHead, PublishStored, Idle
    <2> QED  BY <2>1, <2>2, <2>3, <2>4 DEF OnlyStored
  <1>11. CASE AcceptOwnHead
    <2>0. Head(inbox[Owner]) \in Stored /\ Tail(inbox[Owner]) \in Seq(Stored)
      BY <1>11, <1>p DEF AcceptOwnHead, CallsStored
    <2>1. RecordsStored'
      BY <1>11, <1>p, <1>u DEF AcceptOwnHead, RecordsStored, StoredRecord
    <2>2. StatesStored'
      <3>1. heads' = heads \/ heads' = [heads EXCEPT ![Owner] = Head(inbox[Owner])]
        BY <1>11 DEF AcceptOwnHead
      <3>2. UNCHANGED <<imported, have, saving>> /\ (UNCHANGED saved \/ SaveState(Owner))
        BY <1>11 DEF AcceptOwnHead
      <3>3. /\ \A e \in Device : heads'[e] \in Stored \cup {None}
            /\ \A e \in Device : imported'[e] \in Stored \cup {None}
        BY <1>p, <2>0, <3>1, <3>2 DEF StatesStored, TypeOK
      <3> QED  BY <1>p, <1>u, <3>2, <3>3, SaveStored
    <2>3. CallsStored'
      <3>1. puts' \in Seq(StoredCall)
        <4>1. CASE UNCHANGED puts
          BY <1>p, <4>1 DEF CallsStored
        <4>2. CASE /\ heads[Owner] # None
                   /\ puts' = Append(puts, [by |-> "work", snap |-> heads[Owner]])
          <5>1. heads[Owner] \in Stored
            BY <1>p, <4>2 DEF StatesStored
          <5> QED  BY <1>p, <4>2, <5>1, OneMoreStoredCall DEF CallsStored
        <4> QED  BY <1>11, <4>1, <4>2 DEF AcceptOwnHead
      <3>2. \A d \in Device : inbox'[d] \in Seq(Stored)
        BY <1>11, <1>p, <2>0 DEF AcceptOwnHead, CallsStored, TypeOK
      <3> QED  BY <1>11, <1>p, <1>u, <3>1, <3>2 DEF AcceptOwnHead, CallsStored
    <2>4. PublishStored'
      BY <1>11, <1>p, <1>u DEF AcceptOwnHead, PublishStored
    <2> QED  BY <2>1, <2>2, <2>3, <2>4 DEF OnlyStored
  <1>12. ASSUME NEW d \in Importer, StartImporter(d)  PROVE OnlyStored'
    <2>1. RecordsStored'
      BY <1>12, <1>p, <1>u DEF StartImporter, RecordsStored, StoredRecord
    <2>2. StatesStored'
      BY <1>12, <1>p, <1>u DEF StartImporter, StatesStored, StoredState, TypeOK
    <2>3. CallsStored'
      BY <1>12, <1>p, <1>u DEF StartImporter, CallsStored
    <2>4. PublishStored'
      BY <1>12, <1>p, <1>u DEF StartImporter, PublishStored
    <2> QED  BY <2>1, <2>2, <2>3, <2>4 DEF OnlyStored
  <1>13. ASSUME NEW d \in Importer, RefreshImporter(d)  PROVE OnlyStored'
    BY <1>13, <1>c DEF RefreshImporter
  <1>14. ASSUME NEW d \in Importer, RefreshHead(d)  PROVE OnlyStored'
    <2>0. \A e \in Device : StoredRecord(store'[e])
      BY <1>14, <1>p, RetrieveStored DEF RefreshHead
    <2>1. RecordsStored'
      <3> QED  BY <1>14, <1>p, <1>u, <2>0 DEF RefreshHead, RecordsStored, StoredRecord
    <2>2. StatesStored'
      BY <1>14, <1>p, <1>u DEF RefreshHead, StatesStored
    <2>3. CallsStored'
      <3>1. \A e \in Device : accepts'[e] \in Seq(StoredCall)
        <4>1. CASE UNCHANGED accepts
          BY <1>p, <4>1 DEF CallsStored
        <4>2. CASE /\ store'[d].ver # 0
                   /\ accepts' = [accepts EXCEPT
                        ![d] = Append(@, [by |-> "direct", snap |-> store'[d].snap])]
          <5>1. store'[d].snap \in Stored
            BY <2>0, <4>2 DEF StoredRecord
          <5>2. Append(accepts[d], [by |-> "direct", snap |-> store'[d].snap]) \in Seq(StoredCall)
            BY <1>p, <5>1, OneMoreStoredCall DEF CallsStored
          <5> QED  BY <1>p, <4>2, <5>2 DEF CallsStored, TypeOK
        <4> QED  BY <1>14, <4>1, <4>2 DEF RefreshHead
      <3> QED  BY <1>14, <1>p, <1>u, <3>1 DEF RefreshHead, CallsStored
    <2>4. PublishStored'
      BY <1>14, <1>p, <1>u DEF RefreshHead, PublishStored
    <2> QED  BY <2>1, <2>2, <2>3, <2>4 DEF OnlyStored
  <1>15. ASSUME NEW d \in Importer, HandleEvent(d)  PROVE OnlyStored'
    <2>0. Head(inbox[d]) \in Stored /\ Tail(inbox[d]) \in Seq(Stored)
      BY <1>15, <1>p DEF HandleEvent, CallsStored
    <2>1. RecordsStored'
      BY <1>15, <1>p, <1>u DEF HandleEvent, RecordsStored, StoredRecord
    <2>2. StatesStored'
      BY <1>15, <1>p, <1>u DEF HandleEvent, StatesStored
    <2>3. CallsStored'
      <3>1. Append(accepts[d], [by |-> "work", snap |-> Head(inbox[d])]) \in Seq(StoredCall)
        BY <1>p, <2>0, OneMoreStoredCall DEF CallsStored
      <3>2. \A e \in Device : accepts'[e] \in Seq(StoredCall) /\ inbox'[e] \in Seq(Stored)
        BY <1>15, <1>p, <2>0, <3>1 DEF HandleEvent, CallsStored, TypeOK
      <3> QED  BY <1>15, <1>p, <1>u, <3>2 DEF HandleEvent, CallsStored
    <2>4. PublishStored'
      BY <1>15, <1>p, <1>u DEF HandleEvent, PublishStored
    <2> QED  BY <2>1, <2>2, <2>3, <2>4 DEF OnlyStored
  <1>16. ASSUME NEW d \in Importer, AcceptHead(d)  PROVE OnlyStored'
    <2>h. /\ have'[Owner] = have[Owner] /\ Stored' = Stored
          /\ StoredState' = StoredState /\ StoredCall' = StoredCall
      BY <1>16, <1>u DEF ImportDue, AcceptHead, Fetched, TypeOK, Stored, StoredState, StoredCall
    <2>0. accepts[d] # <<>> /\ Head(accepts[d]).snap \in Stored
      BY <1>16, <1>i, <1>p, FirstStoredCall DEF ImportDue, AcceptHead, CallsStored
    <2>1. RecordsStored'
      BY <1>16, <1>p, <2>h DEF ImportDue, AcceptHead, RecordsStored, StoredRecord
    <2>2. StatesStored'
      <3>1. /\ \A e \in Device : heads'[e] \in Stored \cup {None}
            /\ \A e \in Device : imported'[e] \in Stored \cup {None}
        BY <1>16, <1>p, <2>0 DEF ImportDue, AcceptHead, StatesStored, TypeOK
      <3>2. UNCHANGED saving /\ SaveState(d)
        BY <1>16 DEF ImportDue, AcceptHead
      <3> QED  BY <1>p, <2>h, <3>1, <3>2, SaveStored
    <2>3. CallsStored'
      <3>1. \A e \in Device : accepts'[e] \in Seq(StoredCall)
        BY <1>16, <1>p, <2>0, AcceptDoneStored DEF ImportDue, AcceptHead, CallsStored
      <3> QED  BY <1>16, <1>p, <1>u, <3>1, <2>h DEF ImportDue, AcceptHead, CallsStored
    <2>4. PublishStored'
      BY <1>16, <1>p, <2>h DEF ImportDue, AcceptHead, PublishStored
    <2> QED  BY <2>1, <2>2, <2>3, <2>4 DEF OnlyStored
  <1>17. ASSUME NEW d \in Importer, Import(d)  PROVE OnlyStored'
    <2>h. /\ have'[Owner] = have[Owner] /\ Stored' = Stored
          /\ StoredState' = StoredState /\ StoredCall' = StoredCall
      BY <1>17, <1>u DEF Import, Fetched, TypeOK, Stored, StoredState, StoredCall
    <2>0. accepts[d] # <<>> /\ Head(accepts[d]).snap \in Stored
      BY <1>17, <1>i, <1>p, FirstStoredCall DEF Import, CallsStored
    <2>1. RecordsStored'
      BY <1>17, <1>p, <2>h DEF Import, RecordsStored, StoredRecord
    <2>2. StatesStored'
      <3>1. /\ \A e \in Device : heads'[e] \in Stored \cup {None}
            /\ \A e \in Device : imported'[e] \in Stored \cup {None}
        BY <1>17, <1>p, <2>0 DEF Import, StatesStored, TypeOK
      <3>2. UNCHANGED saving /\ SaveState(d)
        BY <1>17 DEF Import
      <3> QED  BY <1>p, <2>h, <3>1, <3>2, SaveStored
    <2>3. CallsStored'
      <3>1. \A e \in Device : accepts'[e] \in Seq(StoredCall)
        BY <1>17, <1>p, <2>0, AcceptDoneStored DEF Import, CallsStored
      <3> QED  BY <1>17, <1>p, <1>u, <3>1, <2>h DEF Import, CallsStored
    <2>4. PublishStored'
      BY <1>17, <1>p, <2>h DEF Import, PublishStored
    <2> QED  BY <2>1, <2>2, <2>3, <2>4 DEF OnlyStored
  <1>18. ASSUME NEW d \in Importer, ImportUnavailable(d)  PROVE OnlyStored'
    <2>h. /\ have'[Owner] = have[Owner] /\ Stored' = Stored
          /\ StoredState' = StoredState /\ StoredCall' = StoredCall
      BY <1>18, <1>u DEF ImportUnavailable, Fetched, TypeOK, Stored, StoredState, StoredCall
    <2>0. accepts[d] # <<>> /\ Head(accepts[d]).snap \in Stored
      BY <1>18, <1>i, <1>p, FirstStoredCall DEF ImportUnavailable, CallsStored
    <2>1. RecordsStored'
      BY <1>18, <1>p, <2>h DEF ImportUnavailable, RecordsStored, StoredRecord
    <2>2. StatesStored'
      BY <1>18, <1>p, <2>h DEF ImportUnavailable, StatesStored
    <2>3. CallsStored'
      <3>1. \A e \in Device : accepts'[e] \in Seq(StoredCall)
        BY <1>18, <1>p, <2>0, AcceptDoneStored DEF ImportUnavailable, DeferImport, CallsStored
      <3> QED  BY <1>18, <1>p, <1>u, <3>1, <2>h DEF ImportUnavailable, DeferImport, CallsStored
    <2>4. PublishStored'
      BY <1>18, <1>p, <2>h DEF ImportUnavailable, PublishStored
    <2> QED  BY <2>1, <2>2, <2>3, <2>4 DEF OnlyStored
  <1>19. ASSUME NEW d \in Importer, ImportRefused(d)  PROVE OnlyStored'
    <2>h. /\ have'[Owner] = have[Owner] /\ Stored' = Stored
          /\ StoredState' = StoredState /\ StoredCall' = StoredCall
      BY <1>19, <1>u DEF ImportRefused, Fetched, TypeOK, Stored, StoredState, StoredCall
    <2>0. accepts[d] # <<>> /\ Head(accepts[d]).snap \in Stored
      BY <1>19, <1>i, <1>p, FirstStoredCall DEF ImportRefused, CallsStored
    <2>1. RecordsStored'
      BY <1>19, <1>p, <2>h DEF ImportRefused, RecordsStored, StoredRecord
    <2>2. StatesStored'
      BY <1>19, <1>p, <2>h DEF ImportRefused, StatesStored
    <2>3. CallsStored'
      <3>1. \A e \in Device : accepts'[e] \in Seq(StoredCall)
        BY <1>19, <1>p, <2>0, AcceptDoneStored DEF ImportRefused, DeferImport, CallsStored
      <3> QED  BY <1>19, <1>p, <1>u, <3>1, <2>h DEF ImportRefused, DeferImport, CallsStored
    <2>4. PublishStored'
      BY <1>19, <1>p, <2>h DEF ImportRefused, PublishStored
    <2> QED  BY <2>1, <2>2, <2>3, <2>4 DEF OnlyStored
  <1>20. ASSUME NEW d \in Importer, BackoffEnds(d)  PROVE OnlyStored'
    BY <1>20, <1>c DEF BackoffEnds
  <1>21. ASSUME NEW s \in Device, NEW d \in Device, Replicate(s, d)  PROVE OnlyStored'
    <2>1. RecordsStored'
      BY <1>21, <1>p, <1>u DEF Replicate, RecordsStored, StoredRecord, TypeOK
    <2>2. StatesStored'
      BY <1>21, <1>p, <1>u DEF Replicate, StatesStored
    <2>3. CallsStored'
      <3>1. store[s].snap \in Stored
        <4>1. store[s].ver \in Nat /\ store[d].ver \in Nat
          BY DEF TypeOK, Record
        <4> QED  BY <1>21, <1>p, <4>1 DEF Replicate, Newer, RecordsStored, StoredRecord, None
      <3>2. Append(inbox[d], store[s].snap) \in Seq(Stored)
        BY <1>p, <3>1 DEF CallsStored
      <3> QED  BY <1>21, <1>p, <1>u, <3>2 DEF Replicate, CallsStored, TypeOK
    <2>4. PublishStored'
      BY <1>21, <1>p, <1>u DEF Replicate, PublishStored
    <2> QED  BY <2>1, <2>2, <2>3, <2>4 DEF OnlyStored
  <1>22. ASSUME NEW d \in Device, SaveForAnotherHead(d)  PROVE OnlyStored'
    <2>1. RecordsStored'
      BY <1>22, <1>p, <1>u DEF SaveForAnotherHead, RecordsStored, StoredRecord
    <2>2. StatesStored'
      <3>1. [head |-> heads[d], imported |-> imported[d]] \in StoredState
        BY <1>p DEF StatesStored, StoredState
      <3> QED  BY <1>22, <1>p, <1>u, <3>1 DEF SaveForAnotherHead, StatesStored, TypeOK
    <2>3. CallsStored'
      BY <1>22, <1>p, <1>u DEF SaveForAnotherHead, CallsStored
    <2>4. PublishStored'
      BY <1>22, <1>p, <1>u DEF SaveForAnotherHead, PublishStored
    <2> QED  BY <2>1, <2>2, <2>3, <2>4 DEF OnlyStored
  <1>23. ASSUME NEW d \in Device, SaveLands(d)  PROVE OnlyStored'
    <2>1. RecordsStored'
      BY <1>23, <1>p, <1>u DEF SaveLands, RecordsStored, StoredRecord
    <2>2. StatesStored'
      BY <1>23, <1>p, <1>u DEF SaveLands, StatesStored, TypeOK
    <2>3. CallsStored'
      BY <1>23, <1>p, <1>u DEF SaveLands, CallsStored
    <2>4. PublishStored'
      BY <1>23, <1>p, <1>u DEF SaveLands, PublishStored
    <2> QED  BY <2>1, <2>2, <2>3, <2>4 DEF OnlyStored
  <1>24. ASSUME NEW d \in Device, Flush(d)  PROVE OnlyStored'
    <2>1. RecordsStored'
      BY <1>24, <1>p, <1>u DEF Flush, RecordsStored, StoredRecord, TypeOK
    <2>2. StatesStored'
      BY <1>24, <1>p, <1>u DEF Flush, StatesStored
    <2>3. CallsStored'
      BY <1>24, <1>p, <1>u DEF Flush, CallsStored
    <2>4. PublishStored'
      BY <1>24, <1>p, <1>u DEF Flush, PublishStored
    <2> QED  BY <2>1, <2>2, <2>3, <2>4 DEF OnlyStored
  <1>25. ASSUME NEW d \in Device, Crash(d)  PROVE OnlyStored'
    <2>1. RecordsStored'
      BY <1>25, <1>p, <1>u DEF Crash, RecordsStored, StoredRecord, TypeOK
    <2>2. StatesStored'
      BY <1>25, <1>p, <1>u DEF Crash, StatesStored, TypeOK
    <2>3. CallsStored'
      <3>1. \A e \in Device : accepts'[e] \in Seq(StoredCall) /\ inbox'[e] \in Seq(Stored)
        BY <1>25, <1>p DEF Crash, CallsStored, TypeOK
      <3>2. puts' \in Seq(StoredCall)
        <4>1. puts' \in {puts, <<>>}
          BY <1>25 DEF Crash
        <4>2. <<>> \in Seq(StoredCall) /\ puts \in Seq(StoredCall)
          BY <1>p DEF CallsStored
        <4> QED  BY <4>1, <4>2
      <3> QED  BY <1>u, <1>25, <3>1, <3>2 DEF Crash, CallsStored
    <2>4. PublishStored'
      BY <1>25, <1>p, <1>u DEF Crash, PublishStored, Idle
    <2> QED  BY <2>1, <2>2, <2>3, <2>4 DEF OnlyStored
  <1>26. CASE UNCHANGED vars
    BY <1>26, <1>c DEF vars
  <1> QED  BY <1>1, <1>2, <1>3, <1>4, <1>5, <1>6, <1>7, <1>8, <1>9, <1>10,
              <1>11, <1>12, <1>13, <1>14, <1>15, <1>16, <1>17, <1>18, <1>19,
              <1>20, <1>21, <1>22, <1>23, <1>24, <1>25, <1>26
      DEF Next, OwnerNext, ImporterNext

-----------------------------------------------------------------------------
(***************************************************************************)
(* The head protocol implements SnapshotDelivery.                           *)
(***************************************************************************)

\* Nothing that SnapshotDelivery speaks of changes.
LEMMA NothingDelivered ==
    ASSUME UNCHANGED <<heads, imported, saved, saving>>, have'[Owner] = have[Owner]
    PROVE  UNCHANGED Delivery!vars
  BY DEF Delivery!vars

\* Only what a restart of d finds changes, and to what d is at or could find.
LEMMA KeepsOne ==
    ASSUME NEW d \in Device,
           \A e \in Device \ {d} : saving'[e] = saving[e] /\ saved'[e] = saved[e],
           saving'[d] \cup {saved'[d]} \subseteq
             saving[d] \cup {saved[d]}
               \cup {[head |-> heads'[d], imported |-> imported'[d]]}
    PROVE  Delivery!Keeps(d)
  BY DEF Delivery!Keeps, Delivery!Point

LEMMA SaveKeeps ==
    ASSUME TypeOK, NEW d \in Device, SaveState(d), UNCHANGED saving
    PROVE  Delivery!Keeps(d)
  <1>1. /\ \A e \in Device \ {d} : saved'[e] = saved[e]
        /\ saved'[d] = [head |-> heads'[d], imported |-> imported'[d]]
    BY DEF TypeOK, SaveState
  <1> QED  BY <1>1, KeepsOne

\* A device that takes a stored snapshot for the newest, and saves that, learns.
LEMMA HeadIsLearnt ==
    ASSUME TypeOK, PublishStored, NEW d \in Device, NEW s \in Stored,
           heads' = [heads EXCEPT ![d] = s], SaveState(d),
           UNCHANGED <<imported, saving, have>>
    PROVE  Delivery!Next
  <1>1. s \in Snapshot
    BY DEF PublishStored
  <1>2. Delivery!Learn(d, s)
    BY SaveKeeps DEF Delivery!Learn, Stored
  <1> QED  BY <1>1, <1>2 DEF Delivery!Next

\* A device that is down and is started reads what was kept.
LEMMA StartIsRestart ==
    ASSUME TypeOK, DownIsBlank, NEW d \in Device, mode[d] = "down",
           heads' = [heads EXCEPT ![d] = saved[d].head],
           imported' = [imported EXCEPT ![d] = saved[d].imported],
           UNCHANGED <<saved, saving, have>>
    PROVE  Delivery!Next
  <1>1. heads[d] = None /\ imported[d] = None
    BY DEF DownIsBlank, Up
  <1>2. Delivery!Restart(d)
    BY <1>1 DEF Delivery!Restart, Delivery!None, None
  <1> QED  BY <1>2 DEF Delivery!Next

LEMMA StepDelivers ==
    TypeOK /\ Phases /\ OnlyStored /\ [Next]_vars => [Delivery!Next]_(Delivery!vars)
  <1> SUFFICES ASSUME TypeOK, Phases, OnlyStored, [Next]_vars
               PROVE  Delivery!Next \/ UNCHANGED Delivery!vars
    OBVIOUS
  <1>o. /\ Owner \in Device /\ Importer \subseteq Device /\ \A d \in Importer : d # Owner
        /\ \A d \in Importer : d \in Device
    BY DeviceAssumption DEF Importer
  <1>n. None \notin Snapshot /\ None \notin Stored
    BY NoneIsNoSnapshot DEF OnlyStored, PublishStored
  <1>p. RecordsStored /\ StatesStored /\ CallsStored /\ PublishStored
    BY DEF OnlyStored
  <1>b. DownIsBlank /\ OneImport
    BY DEF Phases
  <1> USE <1>o DEF ownerVars, diskVars, importVars
  <1>1. ASSUME NEW c \in Snapshot, Edit(c)  PROVE Delivery!Next \/ UNCHANGED Delivery!vars
    BY <1>1, NothingDelivered DEF Edit
  <1>2. CASE StartOwner
    BY <1>2, <1>b, StartIsRestart DEF StartOwner
  <1>3. CASE RefreshOwner
    BY <1>3, NothingDelivered DEF RefreshOwner
  <1>4. CASE ReconcileOwnHead
    BY <1>4, NothingDelivered DEF ReconcileOwnHead
  <1>5. CASE ObserveOwnHead
    <2>1. store'[Owner].snap \in Stored \cup {None}
      BY <1>5, <1>p, RetrieveStored DEF ObserveOwnHead, StoredRecord
    <2>2. UNCHANGED <<imported, saving, have>>
      BY <1>5 DEF ObserveOwnHead
    <2>3. CASE UNCHANGED <<heads, saved>>
      BY <2>2, <2>3, NothingDelivered
    <2>4. CASE /\ store'[Owner].snap # None /\ SaveState(Owner)
               /\ heads' = [heads EXCEPT ![Owner] = store'[Owner].snap]
      BY <1>p, <2>1, <2>2, <2>4, HeadIsLearnt
    <2> QED  BY <1>5, <2>3, <2>4 DEF ObserveOwnHead
  <1>6. CASE NothingToPublish
    BY <1>6, NothingDelivered DEF NothingToPublish
  <1>7. CASE PublishLocal
    BY <1>7, NothingDelivered DEF PublishLocal
  <1>8. CASE SeedManifest
    <2>1. pub.snap \in Snapshot
      BY <1>8, <1>p DEF SeedManifest, PublishStored
    <2>2. Delivery!StoreAll(pub.snap)
      BY <1>8 DEF SeedManifest, Delivery!StoreAll, TypeOK
    <2> QED  BY <2>1, <2>2 DEF Delivery!Next
  <1>9. CASE Put
    BY <1>9, NothingDelivered DEF Put
  <1>10. CASE RecordHead
    <2>1. pub.snap \in Stored
      BY <1>10, <1>p DEF RecordHead, PublishStored
    <2> QED  BY <1>10, <1>p, <2>1, HeadIsLearnt DEF RecordHead
  <1>11. CASE AcceptOwnHead
    <2>1. Head(inbox[Owner]) \in Stored
      BY <1>11, <1>p DEF AcceptOwnHead, CallsStored
    <2>2. UNCHANGED <<imported, saving, have>>
      BY <1>11 DEF AcceptOwnHead
    <2>3. CASE UNCHANGED <<heads, saved>>
      BY <2>2, <2>3, NothingDelivered
    <2>4. CASE SaveState(Owner) /\ heads' = [heads EXCEPT ![Owner] = Head(inbox[Owner])]
      BY <1>p, <2>1, <2>2, <2>4, HeadIsLearnt
    <2> QED  BY <1>11, <2>3, <2>4 DEF AcceptOwnHead
  <1>12. ASSUME NEW d \in Importer, StartImporter(d)  PROVE Delivery!Next \/ UNCHANGED Delivery!vars
    BY <1>12, <1>b, StartIsRestart DEF StartImporter
  <1>13. ASSUME NEW d \in Importer, RefreshImporter(d)  PROVE Delivery!Next \/ UNCHANGED Delivery!vars
    BY <1>13, NothingDelivered DEF RefreshImporter
  <1>14. ASSUME NEW d \in Importer, RefreshHead(d)  PROVE Delivery!Next \/ UNCHANGED Delivery!vars
    BY <1>14, NothingDelivered DEF RefreshHead
  <1>15. ASSUME NEW d \in Importer, HandleEvent(d)  PROVE Delivery!Next \/ UNCHANGED Delivery!vars
    BY <1>15, NothingDelivered DEF HandleEvent
  <1>16. ASSUME NEW d \in Importer, AcceptHead(d)  PROVE Delivery!Next \/ UNCHANGED Delivery!vars
    <2>1. Head(accepts[d]).snap \in Stored
      BY <1>16, <1>p, FirstStoredCall DEF ImportDue, AcceptHead, CallsStored
    <2>2. SaveState(d) /\ UNCHANGED <<imported, saving, have>>
      BY <1>16 DEF ImportDue, AcceptHead
    <2>3. heads' = [heads EXCEPT ![d] = Head(accepts[d]).snap]
      BY <1>16 DEF ImportDue, AcceptHead
    <2> QED  BY <1>p, <2>1, <2>2, <2>3, HeadIsLearnt
  <1>17. ASSUME NEW d \in Importer, Import(d)  PROVE Delivery!Next \/ UNCHANGED Delivery!vars
    <2>1. heads[d] = Head(accepts[d]).snap
      BY <1>17, <1>b DEF Import, OneImport
    <2>2. imported' = [imported EXCEPT ![d] = heads[d]] /\ UNCHANGED heads
      BY <1>17, <2>1 DEF Import
    <2>3. SaveState(d) /\ UNCHANGED saving /\ have'[Owner] = have[Owner]
      BY <1>17 DEF Import, Fetched, TypeOK
    <2>4. Delivery!Apply(d)
      BY <2>2, <2>3, SaveKeeps DEF Delivery!Apply
    <2> QED  BY <2>4 DEF Delivery!Next
  <1>18. ASSUME NEW d \in Importer, ImportUnavailable(d)  PROVE Delivery!Next \/ UNCHANGED Delivery!vars
    <2>1. have'[Owner] = have[Owner]
      BY <1>18 DEF ImportUnavailable, Fetched, TypeOK
    <2>2. UNCHANGED <<heads, imported, saved, saving>>
      BY <1>18 DEF ImportUnavailable, DeferImport
    <2> QED  BY <2>1, <2>2, NothingDelivered
  <1>19. ASSUME NEW d \in Importer, ImportRefused(d)  PROVE Delivery!Next \/ UNCHANGED Delivery!vars
    <2>1. have'[Owner] = have[Owner]
      BY <1>19 DEF ImportRefused, Fetched, TypeOK
    <2>2. UNCHANGED <<heads, imported, saved, saving>>
      BY <1>19 DEF ImportRefused, DeferImport
    <2> QED  BY <2>1, <2>2, NothingDelivered
  <1>20. ASSUME NEW d \in Importer, BackoffEnds(d)  PROVE Delivery!Next \/ UNCHANGED Delivery!vars
    BY <1>20, NothingDelivered DEF BackoffEnds
  <1>21. ASSUME NEW s \in Device, NEW d \in Device, Replicate(s, d)  PROVE Delivery!Next \/ UNCHANGED Delivery!vars
    BY <1>21, NothingDelivered DEF Replicate
  <1>22. ASSUME NEW d \in Device, SaveForAnotherHead(d)  PROVE Delivery!Next \/ UNCHANGED Delivery!vars
    <2>1. Delivery!Keeps(d)
      BY <1>22, KeepsOne DEF SaveForAnotherHead, TypeOK
    <2>2. Delivery!Save(d)
      BY <1>22, <2>1 DEF SaveForAnotherHead, Delivery!Save
    <2> QED  BY <2>2 DEF Delivery!Next
  <1>23. ASSUME NEW d \in Device, SaveLands(d)  PROVE Delivery!Next \/ UNCHANGED Delivery!vars
    <2>1. PICK state \in saving[d] : saved' = [saved EXCEPT ![d] = state]
      BY <1>23 DEF SaveLands
    <2>2. Delivery!Keeps(d)
      BY <1>23, <2>1, KeepsOne DEF SaveLands, TypeOK
    <2>3. Delivery!Save(d)
      BY <1>23, <2>2 DEF SaveLands, Delivery!Save
    <2> QED  BY <2>3 DEF Delivery!Next
  <1>24. ASSUME NEW d \in Device, Flush(d)  PROVE Delivery!Next \/ UNCHANGED Delivery!vars
    BY <1>24, NothingDelivered DEF Flush
  <1>25. ASSUME NEW d \in Device, Crash(d)  PROVE Delivery!Next \/ UNCHANGED Delivery!vars
    <2>1. Delivery!Kill(d)
      BY <1>25 DEF Crash, TypeOK, Delivery!Kill, Delivery!None, None
    <2> QED  BY <2>1 DEF Delivery!Next
  <1>26. CASE UNCHANGED vars
    BY <1>26, NothingDelivered DEF vars
  <1> QED  BY <1>1, <1>2, <1>3, <1>4, <1>5, <1>6, <1>7, <1>8, <1>9, <1>10,
              <1>11, <1>12, <1>13, <1>14, <1>15, <1>16, <1>17, <1>18, <1>19,
              <1>20, <1>21, <1>22, <1>23, <1>24, <1>25, <1>26
      DEF Next, OwnerNext, ImporterNext

LEMMA InitialStored == Init => OnlyStored
  <1> SUFFICES ASSUME Init  PROVE OnlyStored
    OBVIOUS
  <1>o. Owner \in Device
    BY DeviceAssumption
  <1>1. NoState \in StoredState
    BY DEF NoState, StoredState
  <1>2. RecordsStored
    BY DEF Init, RecordsStored, StoredRecord, NoRecord
  <1>3. StatesStored
    BY <1>1 DEF Init, StatesStored
  <1>4. CallsStored
    <2>1. puts = <<>> /\ \A d \in Device : accepts[d] = <<>> /\ inbox[d] = <<>>
      BY DEF Init
    <2>2. <<>> \in Seq(StoredCall) /\ <<>> \in Seq(Stored)
      OBVIOUS
    <2> QED  BY <2>1, <2>2 DEF CallsStored
  <1>5. PublishStored
    BY <1>o DEF Init, PublishStored, Idle, Stored
  <1> QED  BY <1>2, <1>3, <1>4, <1>5 DEF OnlyStored

\* Every behaviour of the head protocol is one that SnapshotDelivery allows: a
\* device knows, applies and keeps only snapshots the Owner has stored.
THEOREM ImplementsDelivery == Spec => DeliversSnapshots
  <1>1. Init => Delivery!Init
    <2> SUFFICES ASSUME Init  PROVE Delivery!Init
      OBVIOUS
    <2>1. Owner \in Device
      BY DeviceAssumption
    <2>2. have[Owner] = {} /\ heads = [d \in Device |-> None]
          /\ imported = [d \in Device |-> None]
      BY <2>1 DEF Init
    <2>3. [d \in Device |-> saving[d] \cup {saved[d]}] = [d \in Device |-> {NoState}]
      BY DEF Init
    <2> QED  BY <2>2, <2>3 DEF Delivery!Init, Delivery!None, None, Delivery!Point, NoState
  <1>2. Phases => OneImport
    BY DEF Phases
  <1>3. TypeOK /\ Phases /\ OnlyStored /\ [Next]_vars => TypeOK' /\ Phases' /\ OnlyStored'
    BY <1>2, TypesKept, PhasesKept, OnlyStoredKept
  <1> QED  BY <1>1, <1>3, InitialTypes, InitialStored, StepDelivers, PTL
        DEF Spec, DeliversSnapshots, Delivery!Spec

-----------------------------------------------------------------------------
(***************************************************************************)
(* A device with nothing left to do has the head its replica names.  What   *)
(* makes it so: the last head still on its way, in the queue or among the   *)
(* calls of #acceptHead, is the replica's, and whoever called is waiting.   *)
(***************************************************************************)

CallersWait(d) ==
    \A i \in DOMAIN accepts[d] :
        /\ accepts[d][i].by \in {"work", "direct"}
        /\ accepts[d][i].by = "work" => work[d] = "busy"
        /\ accepts[d][i].by = "direct" => direct[d] = "busy"
        /\ \A j \in DOMAIN accepts[d] : accepts[d][j].by = accepts[d][i].by => j = i

EventIsNewest(d) ==
    inbox[d] # <<>> => store[d].ver > 0 /\ inbox[d][Len(inbox[d])] = store[d].snap

LastKnown(d) ==
    IF accepts[d] = <<>> THEN heads[d] ELSE accepts[d][Len(accepts[d])].snap

ReachesNewest(d) ==
    Up(d) /\ inbox[d] = <<>> /\ direct[d] # "retrieve" /\ store[d].ver > 0
        => LastKnown(d) = store[d].snap

Follows(d) == CallersWait(d) /\ EventIsNewest(d) /\ ReachesNewest(d)

\* Of sequences.
LEMMA SeqFacts ==
    ASSUME NEW S, NEW q \in Seq(S)
    PROVE  /\ Len(q) \in Nat /\ DOMAIN q = 1..Len(q)
           /\ q = <<>> <=> Len(q) = 0
  <1>1. Len(q) \in Nat /\ DOMAIN q = 1..Len(q)
    OBVIOUS
  <1>2. ASSUME Len(q) = 0  PROVE q = <<>>
    BY <1>2, EmptySeq
  <1> QED  BY <1>1, <1>2

LEMMA TailFacts ==
    ASSUME NEW S, NEW q \in Seq(S), q # <<>>
    PROVE  \/ Tail(q) = <<>> /\ Head(q) = q[Len(q)]
           \/ Tail(q) # <<>> /\ Tail(q)[Len(Tail(q))] = q[Len(q)]
  <1> DEFINE n == Len(q)
             t == Tail(q)
  <1>1. /\ t \in Seq(S) /\ Len(t) = n - 1 /\ \A i \in 1..Len(t) : t[i] = q[i + 1]
        /\ n \in Nat \ {0} /\ Head(q) = q[1]
    BY HeadTailProperties, EmptySeq
  <1>2. t = <<>> <=> Len(t) = 0
    BY <1>1, SeqFacts
  <1> HIDE DEF n, t
  <1>3. CASE n = 1
    BY <1>1, <1>2, <1>3 DEF n, t
  <1>4. CASE n # 1
    <2>1. Len(t) \in 1..Len(t) /\ Len(t) + 1 = n /\ Len(t) # 0
      BY <1>1, <1>4
    <2> QED  BY <1>1, <1>2, <2>1 DEF n, t
  <1> QED  BY <1>3, <1>4

\* A step that leaves all this alone at d.
LEMMA FollowsUntouched ==
    ASSUME NEW d, Follows(d),
           inbox'[d] = inbox[d], store'[d] = store[d], accepts'[d] = accepts[d],
           heads'[d] = heads[d], work'[d] = work[d], direct'[d] = direct[d],
           mode'[d] = mode[d]
    PROVE  Follows(d)'
  <1>1. CallersWait(d)'
    BY DEF Follows, CallersWait
  <1>2. EventIsNewest(d)'
    BY DEF Follows, EventIsNewest
  <1>3. ReachesNewest(d)'
    BY DEF Follows, ReachesNewest, LastKnown, Up
  <1> QED  BY <1>1, <1>2, <1>3 DEF Follows

\* A call joins: its caller was not waiting, and waits now.
LEMMA CallerJoins ==
    ASSUME NEW d \in Importer, accepts[d] \in Seq(Call), CallersWait(d),
           NEW by \in {"work", "direct"}, NEW s,
           accepts'[d] = Append(accepts[d], [by |-> by, snap |-> s]),
           \/ by = "work" /\ work[d] # "busy" /\ work'[d] = "busy"
              /\ direct'[d] = direct[d]
           \/ by = "direct" /\ direct[d] # "busy" /\ direct'[d] = "busy"
              /\ work'[d] = work[d]
    PROVE  /\ CallersWait(d)'
           /\ accepts'[d] # <<>> /\ accepts'[d][Len(accepts'[d])].snap = s
  <1> DEFINE n == Len(accepts[d])
             q == accepts'[d]
  <1>1. /\ n \in Nat /\ DOMAIN accepts[d] = 1..n /\ DOMAIN q = 1..(n + 1)
        /\ Len(q) = n + 1 /\ q # <<>>
    OBVIOUS
  <1>2. q[n + 1] = [by |-> by, snap |-> s] /\ \A i \in 1..n : q[i] = accepts[d][i]
    OBVIOUS
  <1>3. \A i \in 1..n : accepts[d][i].by # by
    BY <1>1 DEF CallersWait
  <1>4. \A i \in 1..(n + 1) : i \in 1..n \/ i = n + 1
    BY <1>1
  <1> HIDE DEF n, q
  <1>5. ASSUME NEW i \in 1..(n + 1)
        PROVE  /\ q[i].by \in {"work", "direct"}
               /\ q[i].by = "work" => work'[d] = "busy"
               /\ q[i].by = "direct" => direct'[d] = "busy"
    <2>1. CASE i = n + 1
      BY <1>2, <2>1
    <2>2. CASE i \in 1..n
      BY <1>1, <1>2, <1>3, <2>2 DEF CallersWait
    <2> QED  BY <1>4, <2>1, <2>2
  <1>6. ASSUME NEW i \in 1..(n + 1), NEW j \in 1..(n + 1), q[j].by = q[i].by
        PROVE  j = i
    <2>1. CASE i = n + 1 /\ j \in 1..n
      BY <1>2, <1>3, <1>6, <2>1
    <2>2. CASE j = n + 1 /\ i \in 1..n
      BY <1>2, <1>3, <1>6, <2>2
    <2>3. CASE i \in 1..n /\ j \in 1..n
      BY <1>1, <1>2, <1>6, <2>3 DEF CallersWait
    <2> QED  BY <1>4, <2>1, <2>2, <2>3
  <1>7. CallersWait(d)'
    BY <1>1, <1>5, <1>6 DEF CallersWait, q
  <1> QED  BY <1>1, <1>2, <1>7 DEF q

\* The first call is done: its caller goes on, the others wait.
LEMMA CallerGoesOn ==
    ASSUME TypeOK, NEW d \in Importer, accepts[d] # <<>>, CallersWait(d), AcceptDone(d)
    PROVE  /\ CallersWait(d)'
           /\ direct[d] # "retrieve" \/ direct'[d] = direct[d]
           /\ Len(accepts[d]) = 1 => accepts'[d] = <<>>
           /\ Len(accepts[d]) # 1 =>
                 /\ accepts'[d] # <<>>
                 /\ accepts'[d][Len(accepts'[d])] = accepts[d][Len(accepts[d])]
  <1> DEFINE n == Len(accepts[d])
             q == accepts'[d]
  <1>0. /\ d \in Device /\ accepts[d] \in Seq(Call)
        /\ work \in [Device -> {"idle", "busy"}]
        /\ direct \in [Device -> {"idle", "reconcile", "observe", "busy", "retrieve"}]
    BY DEF TypeOK, Importer
  <1>1. q = Tail(accepts[d])
    BY <1>0 DEF AcceptDone, TypeOK
  <1>2. /\ n \in Nat \ {0} /\ DOMAIN accepts[d] = 1..n /\ DOMAIN q = 1..(n - 1)
        /\ Len(q) = n - 1 /\ (n = 1 <=> q = <<>>)
        /\ Head(accepts[d]) = accepts[d][1]
    <2>1. q \in Seq(Call) /\ n \in Nat \ {0} /\ Len(q) = n - 1
      BY <1>0, <1>1
    <2>2. Head(accepts[d]) = accepts[d][1] /\ DOMAIN accepts[d] = 1..n
      BY <1>0
    <2>3. DOMAIN q = 1..(n - 1) /\ (q = <<>> <=> Len(q) = 0)
      BY <2>1, SeqFacts
    <2> QED  BY <2>1, <2>2, <2>3
  <1>3. \A i \in 1..(n - 1) : q[i] = accepts[d][i + 1] /\ i + 1 \in 1..n /\ i + 1 # 1
    BY <1>0, <1>1, <1>2
  <1>4. \/ /\ accepts[d][1].by = "work"
           /\ direct'[d] = direct[d]
        \/ /\ accepts[d][1].by = "direct"
           /\ work'[d] = work[d]
    BY <1>0, <1>2 DEF AcceptDone
  <1>5. direct[d] # "retrieve" \/ direct'[d] = direct[d]
    BY <1>2, <1>4 DEF CallersWait
  <1>6. ASSUME NEW i \in 1..(n - 1)
        PROVE  /\ q[i].by \in {"work", "direct"}
               /\ q[i].by = "work" => work'[d] = "busy"
               /\ q[i].by = "direct" => direct'[d] = "busy"
               /\ \A j \in 1..(n - 1) : q[j].by = q[i].by => j = i
    <2>0. \A k, j \in 1..n : accepts[d][j].by = accepts[d][k].by => j = k
      BY <1>2 DEF CallersWait
    <2>1. accepts[d][i + 1].by # accepts[d][1].by
      <3>1. 1 \in 1..n /\ i + 1 \in 1..n /\ i + 1 # 1
        BY <1>2
      <3> QED  BY <2>0, <3>1
    <2>2. \A j \in 1..(n - 1) : q[j].by = q[i].by => j + 1 = i + 1
      BY <1>3, <2>0
    <2>3. \A j \in 1..(n - 1) : j + 1 = i + 1 => j = i
      BY <1>2
    <2>4. /\ q[i].by \in {"work", "direct"}
          /\ q[i].by = "work" => work[d] = "busy"
          /\ q[i].by = "direct" => direct[d] = "busy"
      BY <1>2, <1>3 DEF CallersWait
    <2> QED  BY <1>3, <1>4, <2>1, <2>2, <2>3, <2>4
  <1>7. CallersWait(d)'
    BY <1>2, <1>6 DEF CallersWait
  <1>8. n # 1 => q # <<>> /\ q[Len(q)] = accepts[d][n]
    BY <1>2, <1>3
  <1> QED  BY <1>2, <1>5, <1>7, <1>8

\* A call of #acceptHead is done with, and its head is on record.
LEMMA FollowsDone ==
    ASSUME TypeOK, NEW d \in Importer, accepts[d] # <<>>, Follows(d), AcceptDone(d),
           heads'[d] = Head(accepts[d]).snap,
           inbox'[d] = inbox[d], store'[d] = store[d], mode'[d] = mode[d]
    PROVE  Follows(d)'
  <1>1. accepts[d] \in Seq(Call)
    BY DEF TypeOK, Importer
  <1>2. CallersWait(d)'
    BY CallerGoesOn DEF Follows
  <1>3. EventIsNewest(d)'
    BY DEF Follows, EventIsNewest
  <1>4. LastKnown(d)' = LastKnown(d)
    <2>1. CASE Len(accepts[d]) = 1
      BY <1>1, <2>1, CallerGoesOn DEF LastKnown, Follows
    <2>2. CASE Len(accepts[d]) # 1
      BY <1>1, <2>2, CallerGoesOn DEF LastKnown, Follows
    <2> QED  BY <2>1, <2>2
  <1>5. direct'[d] # "retrieve" => direct[d] # "retrieve"
    BY CallerGoesOn DEF Follows
  <1>6. ReachesNewest(d)'
    BY <1>4, <1>5 DEF Follows, ReachesNewest, Up
  <1> QED  BY <1>2, <1>3, <1>6 DEF Follows

LEMMA FollowsKept ==
    ASSUME TypeOK, Phases, OnlyStored, [Next]_vars, NEW e \in Importer, Follows(e)
    PROVE  Follows(e)'
  <1>o. /\ Owner \in Device /\ Importer \subseteq Device /\ \A d \in Importer : d # Owner
        /\ \A d \in Importer : d \in Device
    BY DeviceAssumption DEF Importer
  <1>b. DownIsBlank /\ OneImport
    BY DEF Phases
  <1>t. accepts[e] \in Seq(Call) /\ inbox[e] \in Seq(Known)
    BY <1>o DEF TypeOK
  <1> USE <1>o DEF ownerVars, diskVars, importVars
  <1>1. ASSUME NEW c \in Snapshot, Edit(c)  PROVE Follows(e)'
    BY <1>1, FollowsUntouched DEF Edit, TypeOK
  <1>2. CASE StartOwner
    BY <1>2, FollowsUntouched DEF StartOwner, TypeOK
  <1>3. CASE RefreshOwner
    BY <1>3, FollowsUntouched DEF RefreshOwner, TypeOK
  <1>4. CASE ReconcileOwnHead
    BY <1>4, FollowsUntouched DEF ReconcileOwnHead, TypeOK
  <1>5. CASE ObserveOwnHead
    BY <1>5, FollowsUntouched DEF ObserveOwnHead, ReconcileDone, Retrieve, TypeOK
  <1>6. CASE NothingToPublish
    BY <1>6, FollowsUntouched DEF NothingToPublish, TypeOK
  <1>7. CASE PublishLocal
    BY <1>7, FollowsUntouched DEF PublishLocal, TypeOK
  <1>8. CASE SeedManifest
    BY <1>8, FollowsUntouched DEF SeedManifest, TypeOK
  <1>9. CASE Put
    BY <1>9, FollowsUntouched DEF Put, ReconcileDone, TypeOK
  <1>10. CASE RecordHead
    BY <1>10, FollowsUntouched DEF RecordHead, TypeOK
  <1>11. CASE AcceptOwnHead
    BY <1>11, FollowsUntouched DEF AcceptOwnHead, TypeOK
  <1>12. ASSUME NEW d \in Importer, StartImporter(d)  PROVE Follows(e)'
    <2>o. CASE d # e
      BY <1>12, <2>o, FollowsUntouched DEF StartImporter, TypeOK
    <2> SUFFICES ASSUME d = e  PROVE Follows(e)'
      BY <2>o
    <2>1. inbox[e] = <<>> /\ accepts[e] = <<>>
      BY <1>12, <1>b DEF StartImporter, DownIsBlank, Up
    <2>2. UNCHANGED <<inbox, accepts>> /\ direct'[e] = "retrieve"
      BY <1>12 DEF StartImporter, TypeOK
    <2> QED  BY <2>1, <2>2 DEF Follows, CallersWait, EventIsNewest, ReachesNewest
  <1>13. ASSUME NEW d \in Importer, RefreshImporter(d)  PROVE Follows(e)'
    <2>o. CASE d # e
      BY <1>13, <2>o, FollowsUntouched DEF RefreshImporter, TypeOK
    <2> SUFFICES ASSUME d = e  PROVE Follows(e)'
      BY <2>o
    <2>1. /\ UNCHANGED <<inbox, accepts, store, work>>
          /\ direct[e] = "idle" /\ direct'[e] = "retrieve"
      BY <1>13 DEF RefreshImporter, TypeOK
    <2>2. CallersWait(e)'
      BY <2>1 DEF Follows, CallersWait
    <2>3. EventIsNewest(e)'
      BY <2>1 DEF Follows, EventIsNewest
    <2> QED  BY <2>1, <2>2, <2>3 DEF Follows, ReachesNewest
  <1>14. ASSUME NEW d \in Importer, RefreshHead(d)  PROVE Follows(e)'
    <2>o. CASE d # e
      BY <1>14, <2>o, FollowsUntouched DEF RefreshHead, TypeOK, Retrieve
    <2> SUFFICES ASSUME d = e  PROVE Follows(e)'
      BY <2>o
    <2>1. direct[e] = "retrieve" /\ UNCHANGED <<mode, inbox, work, heads>>
      BY <1>14 DEF RefreshHead
    <2>2. store[e].ver > 0 => UNCHANGED store
      BY <1>14 DEF RefreshHead, Retrieve
    <2>3. EventIsNewest(e)'
      BY <2>1, <2>2 DEF Follows, EventIsNewest
    <2>4. CASE store'[e].ver = 0 /\ direct'[e] = "idle" /\ UNCHANGED accepts
      <3>1. CallersWait(e)'
        BY <2>1, <2>4 DEF Follows, CallersWait
      <3>2. ReachesNewest(e)'
        BY <2>4 DEF ReachesNewest
      <3> QED  BY <2>3, <3>1, <3>2 DEF Follows
    <2>5. CASE /\ direct'[e] = "busy"
               /\ accepts'[e] = Append(accepts[e], [by |-> "direct", snap |-> store'[e].snap])
      <3>1. /\ CallersWait(e)'
            /\ accepts'[e] # <<>> /\ accepts'[e][Len(accepts'[e])].snap = store'[e].snap
        BY <1>t, <2>1, <2>5, CallerJoins DEF Follows
      <3>2. ReachesNewest(e)'
        BY <3>1 DEF ReachesNewest, LastKnown
      <3> QED  BY <2>3, <3>1, <3>2 DEF Follows
    <2> QED  BY <1>14, <2>4, <2>5 DEF RefreshHead, TypeOK
  <1>15. ASSUME NEW d \in Importer, HandleEvent(d)  PROVE Follows(e)'
    <2>o. CASE d # e
      BY <1>15, <2>o, FollowsUntouched DEF HandleEvent, TypeOK
    <2> SUFFICES ASSUME d = e  PROVE Follows(e)'
      BY <2>o
    <2>1. /\ work[e] = "idle" /\ work'[e] = "busy" /\ inbox[e] # <<>>
          /\ inbox'[e] = Tail(inbox[e]) /\ UNCHANGED <<mode, store, direct>>
          /\ accepts'[e] = Append(accepts[e], [by |-> "work", snap |-> Head(inbox[e])])
      BY <1>15 DEF HandleEvent, TypeOK
    <2>2. /\ CallersWait(e)'
          /\ accepts'[e] # <<>> /\ accepts'[e][Len(accepts'[e])].snap = Head(inbox[e])
      BY <1>t, <2>1, CallerJoins DEF Follows
    <2>3. \/ inbox'[e] = <<>> /\ Head(inbox[e]) = inbox[e][Len(inbox[e])]
          \/ inbox'[e] # <<>> /\ inbox'[e][Len(inbox'[e])] = inbox[e][Len(inbox[e])]
      BY <1>t, <2>1, TailFacts
    <2>4. EventIsNewest(e)'
      BY <2>1, <2>3 DEF Follows, EventIsNewest
    <2>5. ReachesNewest(e)'
      BY <2>1, <2>2, <2>3 DEF Follows, EventIsNewest, ReachesNewest, LastKnown
    <2> QED  BY <2>2, <2>4, <2>5 DEF Follows
  <1>16. ASSUME NEW d \in Importer, AcceptHead(d)  PROVE Follows(e)'
    <2>o. CASE d # e
      BY <1>16, <2>o, FollowsUntouched DEF ImportDue, AcceptHead, TypeOK, AcceptDone
    <2> SUFFICES ASSUME d = e  PROVE Follows(e)'
      BY <2>o
    <2>1. accepts[e] # <<>> /\ UNCHANGED <<mode, store, inbox>>
      BY <1>16 DEF ImportDue, AcceptHead
    <2>2. heads'[e] = Head(accepts[e]).snap
      BY <1>16 DEF ImportDue, AcceptHead, TypeOK
    <2>3. CASE AcceptDone(e)
      BY <2>1, <2>2, <2>3, FollowsDone
    <2>4. CASE UNCHANGED <<accepts, work, direct>>
      <3>1. CallersWait(e)'
        BY <2>4 DEF Follows, CallersWait
      <3>2. EventIsNewest(e)'
        BY <2>1 DEF Follows, EventIsNewest
      <3>3. ReachesNewest(e)'
        BY <2>1, <2>4 DEF Follows, ReachesNewest, LastKnown, Up
      <3> QED  BY <3>1, <3>2, <3>3 DEF Follows
    <2> QED  BY <1>16, <2>3, <2>4 DEF ImportDue, AcceptHead
  <1>17. ASSUME NEW d \in Importer, Import(d)  PROVE Follows(e)'
    <2>o. CASE d # e
      BY <1>17, <2>o, FollowsUntouched DEF Import, TypeOK, AcceptDone, Fetched
    <2> SUFFICES ASSUME d = e  PROVE Follows(e)'
      BY <2>o
    <2>1. accepts[e] # <<>> /\ heads[e] = Head(accepts[e]).snap
      BY <1>17, <1>b DEF Import, OneImport
    <2>2. AcceptDone(e) /\ UNCHANGED <<mode, store, inbox, heads>>
      BY <1>17 DEF Import
    <2> QED  BY <2>1, <2>2, FollowsDone
  <1>18. ASSUME NEW d \in Importer, ImportUnavailable(d)  PROVE Follows(e)'
    <2>o. CASE d # e
      BY <1>18, <2>o, FollowsUntouched DEF ImportUnavailable, TypeOK, AcceptDone, Fetched, DeferImport
    <2> SUFFICES ASSUME d = e  PROVE Follows(e)'
      BY <2>o
    <2>1. accepts[e] # <<>> /\ heads[e] = Head(accepts[e]).snap
      BY <1>18, <1>b DEF ImportUnavailable, OneImport
    <2>2. AcceptDone(e) /\ UNCHANGED <<mode, store, inbox, heads>>
      BY <1>18 DEF ImportUnavailable, DeferImport
    <2> QED  BY <2>1, <2>2, FollowsDone
  <1>19. ASSUME NEW d \in Importer, ImportRefused(d)  PROVE Follows(e)'
    <2>o. CASE d # e
      BY <1>19, <2>o, FollowsUntouched DEF ImportRefused, TypeOK, AcceptDone, Fetched, DeferImport
    <2> SUFFICES ASSUME d = e  PROVE Follows(e)'
      BY <2>o
    <2>1. accepts[e] # <<>> /\ heads[e] = Head(accepts[e]).snap
      BY <1>19, <1>b DEF ImportRefused, OneImport
    <2>2. AcceptDone(e) /\ UNCHANGED <<mode, store, inbox, heads>>
      BY <1>19 DEF ImportRefused, DeferImport
    <2> QED  BY <2>1, <2>2, FollowsDone
  <1>20. ASSUME NEW d \in Importer, BackoffEnds(d)  PROVE Follows(e)'
    BY <1>20, FollowsUntouched DEF BackoffEnds, TypeOK
  <1>21. ASSUME NEW s \in Device, NEW d \in Device, Replicate(s, d)  PROVE Follows(e)'
    <2>o. CASE d # e
      BY <1>21, <2>o, FollowsUntouched DEF Replicate, TypeOK
    <2> SUFFICES ASSUME d = e  PROVE Follows(e)'
      BY <2>o
    <2>1. /\ store'[e] = store[s] /\ inbox'[e] = Append(inbox[e], store[s].snap)
          /\ UNCHANGED <<accepts, work, direct>>
      BY <1>21 DEF Replicate, TypeOK
    <2>2. store[s].ver > 0
      <3>1. /\ store[s].ver \in Nat /\ store[e].ver \in Nat
            /\ store[e].snap \in Known /\ Known \subseteq Nat
        BY SnapshotAssumption DEF TypeOK, Record, Known, None
      <3>2. store[s].ver = 0 => store[s].snap = 0
        BY DEF OnlyStored, RecordsStored, StoredRecord, None
      <3> QED  BY <1>21, <3>1, <3>2 DEF Replicate, Newer
    <2>3. inbox'[e] # <<>> /\ inbox'[e][Len(inbox'[e])] = store[s].snap
      BY <1>t, <2>1
    <2>4. CallersWait(e)'
      BY <2>1 DEF Follows, CallersWait
    <2> QED  BY <2>1, <2>2, <2>3, <2>4 DEF Follows, EventIsNewest, ReachesNewest
  <1>22. ASSUME NEW d \in Device, SaveForAnotherHead(d)  PROVE Follows(e)'
    BY <1>22, FollowsUntouched DEF SaveForAnotherHead, TypeOK
  <1>23. ASSUME NEW d \in Device, SaveLands(d)  PROVE Follows(e)'
    BY <1>23, FollowsUntouched DEF SaveLands, TypeOK
  <1>24. ASSUME NEW d \in Device, Flush(d)  PROVE Follows(e)'
    BY <1>24, FollowsUntouched DEF Flush, TypeOK
  <1>25. ASSUME NEW d \in Device, Crash(d)  PROVE Follows(e)'
    <2>o. CASE d # e
      BY <1>25, <2>o, FollowsUntouched DEF Crash, TypeOK
    <2> SUFFICES ASSUME d = e  PROVE Follows(e)'
      BY <2>o
    <2>1. inbox'[e] = <<>> /\ accepts'[e] = <<>> /\ mode'[e] = "down"
      BY <1>25 DEF Crash, TypeOK
    <2> QED  BY <2>1 DEF Follows, CallersWait, EventIsNewest, ReachesNewest, Up
  <1>26. CASE UNCHANGED vars
    BY <1>26, FollowsUntouched DEF vars, TypeOK
  <1> QED  BY <1>1, <1>2, <1>3, <1>4, <1>5, <1>6, <1>7, <1>8, <1>9, <1>10,
              <1>11, <1>12, <1>13, <1>14, <1>15, <1>16, <1>17, <1>18, <1>19,
              <1>20, <1>21, <1>22, <1>23, <1>24, <1>25, <1>26
      DEF Next, OwnerNext, ImporterNext

\* Every device with nothing left to do has the head its replica names.
THEOREM HeadFollowsReplicaAlways == Spec => []HeadFollowsReplica
  <1> DEFINE Inv == /\ TypeOK /\ Phases /\ OnlyStored
                    /\ \A d \in Importer : Follows(d)
  <1>1. Init => Inv
    <2>1. Init => \A d \in Importer : Follows(d)
      <3> SUFFICES ASSUME Init, NEW d \in Importer  PROVE Follows(d)
        OBVIOUS
      <3>1. accepts[d] = <<>> /\ inbox[d] = <<>> /\ mode[d] = "down"
        BY DEF Init, Importer
      <3> QED  BY <3>1 DEF Follows, CallersWait, EventIsNewest, ReachesNewest, Up
    <2> QED  BY <2>1, InitialTypes, InitialStored
  <1>2. Inv /\ [Next]_vars => Inv'
    <2> SUFFICES ASSUME Inv, [Next]_vars  PROVE Inv'
      OBVIOUS
    <2>1. TypeOK' /\ Phases' /\ OnlyStored'
      BY TypesKept, PhasesKept, OnlyStoredKept DEF Phases
    <2>2. \A d \in Importer : Follows(d)'
      BY FollowsKept
    <2> QED  BY <2>1, <2>2 DEF Importer
  <1>3. Inv => HeadFollowsReplica
    <2> SUFFICES ASSUME Inv, NEW d \in Importer, Quiet(d), store[d].ver > 0
                 PROVE  heads[d] = store[d].snap
      BY DEF HeadFollowsReplica
    <2>1. Follows(d) /\ accepts[d] \in Seq(Call)
      BY DEF TypeOK, Importer
    <2>2. accepts[d] = <<>>
      <3>1. 1 \notin DOMAIN accepts[d]
        BY <2>1 DEF Follows, CallersWait, Quiet
      <3> QED  BY <2>1, <3>1
    <2> QED  BY <2>1, <2>2 DEF Follows, ReachesNewest, LastKnown, Quiet, Up
  <1> QED  BY <1>1, <1>2, <1>3, PTL DEF Spec

=============================================================================
