------------------------ MODULE DeviceRegistryProofs ------------------------
(***************************************************************************)
(* What holds of the device registry for any set of devices, any bound and  *)
(* any number of crashes: the types, and that a version and its writer name *)
(* one value.                                                               *)
(***************************************************************************)
EXTENDS DeviceRegistry, TLAPS

\* The records of all replicas, and those a kill would bring back.
Records == {store[d] : d \in Device} \cup {flushed[d] : d \in Device}

\* Version zero is the absence of a record.
VersionsStartAtOne == \A r \in Records : r.ver = 0 => r = NoRecord

\* There is no record of a writer that is never killed which the writer's own
\* replica has not reached: the version it writes next is a new one.
WriterDominates ==
    \A r \in Records, e \in Device \ Killable :
        r.by = e /\ r.ver > 0 => r.ver <= store[e].ver

\* A stamp of such a writer names one value, in all records.
StampsName ==
    \A r, q \in Records :
        r.ver = q.ver /\ r.by = q.by /\ r.by \notin Killable => r.devs = q.devs

StampInv == VersionsStartAtOne /\ WriterDominates /\ StampsName

-----------------------------------------------------------------------------
\* The first comparison with the registry keeps the types.
LEMMA PublishTypes ==
    ASSUME TypeOK, NEW d \in Device, NEW w \in Activity,
           devices' \in [Device -> SUBSET Device],
           PublishRegistryIfNeeded(d, w)
    PROVE  /\ pc' \in [Device -> [Activity -> Phase]]
           /\ value' \in [Device -> [Activity -> SUBSET Device]]
           /\ puts' \in [Device -> Seq(Activity)]
           /\ starting' \in [Device -> BOOLEAN]
  <1>1. CASE Finish(d, w) /\ UNCHANGED <<value, puts>>
    BY <1>1 DEF TypeOK, Finish, Phase
  <1>2. CASE /\ value' = [value EXCEPT ![d][w] = devices'[d]]
             /\ puts' = [puts EXCEPT ![d] = Append(@, w)]
             /\ pc' = [pc EXCEPT ![d][w] = "putting"]
             /\ UNCHANGED starting
    BY <1>2 DEF TypeOK, Phase
  <1> QED  BY <1>1, <1>2 DEF PublishRegistryIfNeeded

LEMMA AcceptTypes ==
    ASSUME TypeOK, NEW d \in Device, NEW w \in Activity,
           NEW devs \in SUBSET Device, AcceptRegistry(d, w, devs)
    PROVE  /\ devices' \in [Device -> SUBSET Device]
           /\ registryDevices' \in [Device -> SUBSET Device]
           /\ pc' \in [Device -> [Activity -> Phase]]
           /\ value' \in [Device -> [Activity -> SUBSET Device]]
           /\ puts' \in [Device -> Seq(Activity)]
           /\ starting' \in [Device -> BOOLEAN]
  <1>1. /\ devices' \in [Device -> SUBSET Device]
        /\ registryDevices' \in [Device -> SUBSET Device]
    BY DEF TypeOK, AcceptRegistry
  <1> QED  BY <1>1, PublishTypes DEF AcceptRegistry

LEMMA TypesKept == TypeOK /\ [Next]_vars => TypeOK'
  <1> SUFFICES ASSUME TypeOK, [Next]_vars  PROVE TypeOK'
    OBVIOUS
  <1>1. CASE UNCHANGED vars
    BY <1>1 DEF TypeOK, vars
  <1>2. CASE Next
    <2> PICK d \in Device :
          \/ Start(d) \/ Refresh(d) \/ Flush(d) \/ Crash(d)
          \/ RetrieveHeld(d) \/ RetrieveNothing(d)
          \/ HandleEvent(d) \/ CompareAgain(d)
          \/ \E w \in Activity : Put(d, w) \/ PutReturns(d, w)
          \/ \E s \in Device : SaveHead(d, s) \/ RetrieveAsked(d, s) \/ Replicate(s, d)
      BY <1>2 DEF Next
    <2>0. "work" \in Activity /\ "direct" \in Activity
      BY DEF Activity
    <2>1. CASE Start(d)
      BY <2>1, <2>0 DEF TypeOK, Start, Phase
    <2>2. CASE Refresh(d)
      BY <2>2, <2>0 DEF TypeOK, Refresh, Phase
    <2>13. CASE Flush(d)
      BY <2>13 DEF TypeOK, Flush
    <2>3. CASE Crash(d)
      BY <2>3 DEF TypeOK, Crash, NoRecord, Record, Idle, Nobody, Phase
    <2>4. CASE RetrieveHeld(d)
      <3>1. store[d].devs \in SUBSET Device
        BY DEF TypeOK, Record
      <3> QED  BY <2>4, <2>0, <3>1, AcceptTypes DEF RetrieveHeld, TypeOK
    <2>5. CASE RetrieveNothing(d)
      <3>1. devices' \in [Device -> SUBSET Device]
        BY <2>5 DEF TypeOK, RetrieveNothing
      <3> QED  BY <2>5, <2>0, <3>1, PublishTypes DEF RetrieveNothing, TypeOK
    <2>6. CASE HandleEvent(d)
      <3>1. /\ Head(inbox[d]) \in SUBSET Device
            /\ inbox' \in [Device -> Seq(SUBSET Device)]
        BY <2>6 DEF TypeOK, HandleEvent
      <3> QED  BY <2>6, <2>0, <3>1, AcceptTypes DEF HandleEvent, TypeOK
    <2>7. CASE CompareAgain(d)
      <3>1. devices' \in [Device -> SUBSET Device]
        BY <2>7 DEF TypeOK, CompareAgain
      <3> QED  BY <2>7, <2>0, <3>1, PublishTypes DEF CompareAgain, TypeOK
    <2>8. ASSUME NEW w \in Activity, Put(d, w)  PROVE TypeOK'
      <3>1. store' \in [Device -> Record]
        <4>1. d \in Nat /\ value[d][w] \in SUBSET Device /\ store[d].ver + 1 \in Nat
          BY DeviceAssumption DEF TypeOK, Record
        <4> QED  BY <2>8, <4>1 DEF TypeOK, Put, Record
      <3>2. puts' \in [Device -> Seq(Activity)]
        BY <2>8 DEF TypeOK, Put
      <3>3. pc' \in [Device -> [Activity -> Phase]]
        BY <2>8 DEF TypeOK, Put, Phase
      <3> QED  BY <2>8, <3>1, <3>2, <3>3 DEF TypeOK, Put
    <2>9. ASSUME NEW w \in Activity, PutReturns(d, w)  PROVE TypeOK'
      BY <2>9 DEF TypeOK, PutReturns, Finish, Phase
    <2>10. ASSUME NEW s \in Device, SaveHead(d, s)  PROVE TypeOK'
      BY <2>10 DEF TypeOK, SaveHead
    <2>11. ASSUME NEW s \in Device, RetrieveAsked(d, s)  PROVE TypeOK'
      <3>1. store[s].devs \in SUBSET Device /\ store' \in [Device -> Record]
        BY <2>11 DEF TypeOK, Record, RetrieveAsked
      <3> QED  BY <2>11, <2>0, <3>1, AcceptTypes DEF RetrieveAsked, TypeOK
    <2>12. ASSUME NEW s \in Device, Replicate(s, d)  PROVE TypeOK'
      <3>1. store[s].devs \in SUBSET Device
        BY DEF TypeOK, Record
      <3> QED  BY <2>12, <3>1 DEF TypeOK, Replicate
    <2> QED  BY <2>1, <2>2, <2>3, <2>4, <2>5, <2>6, <2>7, <2>8, <2>9, <2>10,
                <2>11, <2>12, <2>13
  <1> QED  BY <1>1, <1>2

\* Every variable keeps its type, whatever the devices, crashes and bounds.
THEOREM TypeCorrect == Spec => []TypeOK
  <1>1. Init => TypeOK
    BY DEF Init, TypeOK, NoRecord, Record, Idle, Nobody, Phase, Activity
  <1> QED  BY <1>1, TypesKept, PTL DEF Spec

-----------------------------------------------------------------------------
(***************************************************************************)
(* What a step does to the records.  It keeps to those there are, and takes *)
(* no replica of a device that is never killed back; or it adds one, with   *)
(* the next version of the device's replica.                                *)
(***************************************************************************)

Keeps ==
    /\ Records' \subseteq Records
    /\ \A e \in Device \ Killable : store'[e].ver >= store[e].ver

Writes(d, devs) ==
    LET r == [ver |-> store[d].ver + 1, by |-> d, devs |-> devs]
    IN  /\ Records' \subseteq Records \cup {r}
        /\ store'[d] = r
        /\ \A e \in Device \ {d} : store'[e] = store[e]

LEMMA RecordTypes ==
    ASSUME TypeOK
    PROVE  /\ Records \subseteq Record
           /\ \A d \in Device : store[d].ver \in Nat /\ flushed[d].ver \in Nat
  BY DEF TypeOK, Records, Record

LEMMA StoreSteps ==
    ASSUME TypeOK, [Next]_vars
    PROVE  Keeps \/ \E d \in Device, devs \in SUBSET Device : Writes(d, devs)
  <1>1. CASE UNCHANGED <<store, flushed>>
    BY <1>1, RecordTypes DEF Keeps, Records
  <1>2. CASE Next
    <2> PICK d \in Device :
          \/ Start(d) \/ Refresh(d) \/ Flush(d) \/ Crash(d)
          \/ RetrieveHeld(d) \/ RetrieveNothing(d)
          \/ HandleEvent(d) \/ CompareAgain(d)
          \/ \E w \in Activity : Put(d, w) \/ PutReturns(d, w)
          \/ \E s \in Device : SaveHead(d, s) \/ RetrieveAsked(d, s) \/ Replicate(s, d)
      BY <1>2 DEF Next
    <2>1. CASE \/ Start(d) \/ Refresh(d) \/ RetrieveHeld(d) \/ RetrieveNothing(d)
               \/ HandleEvent(d) \/ CompareAgain(d)
               \/ \E w \in Activity : PutReturns(d, w)
               \/ \E s \in Device : SaveHead(d, s)
      BY <1>1, <2>1 DEF Start, Refresh, RetrieveHeld, RetrieveNothing, HandleEvent,
                  CompareAgain, PutReturns, SaveHead
    <2>2. CASE Flush(d)
      BY <2>2, RecordTypes DEF Flush, Keeps, Records, TypeOK
    <2>3. CASE Crash(d)
      BY <2>3, RecordTypes DEF Crash, Keeps, Records, TypeOK
    <2>4. ASSUME NEW w \in Activity, Put(d, w)  PROVE Writes(d, value[d][w])
      BY <2>4 DEF Put, Writes, Records, TypeOK
    <2>5. ASSUME NEW s \in Device, RetrieveAsked(d, s)  PROVE Keeps
      BY <2>5, RecordTypes DEF RetrieveAsked, Keeps, Records, TypeOK
    <2>6. ASSUME NEW s \in Device, Replicate(s, d)  PROVE Keeps
      BY <2>6, RecordTypes DEF Replicate, Newer, Keeps, Records, TypeOK
    <2>7. \A w \in Activity : value[d][w] \in SUBSET Device
      BY DEF TypeOK
    <2> QED  BY <2>1, <2>2, <2>3, <2>4, <2>5, <2>6, <2>7
  <1> QED  BY <1>1, <1>2 DEF vars

LEMMA StampsKept == TypeOK /\ StampInv /\ [Next]_vars => StampInv'
  <1> SUFFICES ASSUME TypeOK, StampInv, [Next]_vars  PROVE StampInv'
    OBVIOUS
  <1> USE DEF StampInv, VersionsStartAtOne, WriterDominates, StampsName, NoRecord
  <1>t. \A r \in Records : r.ver \in Nat
    BY RecordTypes DEF Record
  <1>1. CASE Keeps
    <2>1. \A e \in Device : store'[e].ver \in Nat /\ store[e].ver \in Nat
      BY TypesKept, RecordTypes DEF TypeOK, Record
    <2> QED  BY <1>1, <2>1, <1>t DEF Keeps
  <1>2. ASSUME NEW d \in Device, NEW devs \in SUBSET Device, Writes(d, devs)
        PROVE  StampInv'
    <2> DEFINE new == [ver |-> store[d].ver + 1, by |-> d, devs |-> devs]
    <2>1. /\ Records' \subseteq Records \cup {new}
          /\ store'[d] = new
          /\ \A e \in Device \ {d} : store'[e] = store[e]
      BY <1>2 DEF Writes
    <2>2. store[d].ver \in Nat /\ new.ver = store[d].ver + 1 /\ new.by = d
      BY RecordTypes
    <2>3. \A r \in Records : r.by = d /\ d \notin Killable => r.ver # new.ver
      BY <2>2, <1>t
    <2> HIDE DEF new
    <2>4. VersionsStartAtOne'
      BY <2>1, <2>2
    <2>5. WriterDominates'
      <3>1. \A e \in Device : store[e].ver \in Nat
        BY RecordTypes
      <3>2. \A e \in Device : store'[e].ver >= store[e].ver
        BY <2>1, <2>2, <3>1
      <3>3. \A e \in Device : store'[e].ver \in Nat
        BY <2>1, <2>2, <3>1
      <3> QED  BY <2>1, <2>2, <3>1, <3>2, <3>3, <1>t
    <2>6. StampsName'
      BY <2>1, <2>2, <2>3
    <2> QED  BY <2>4, <2>5, <2>6
  <1> QED  BY <1>1, <1>2, StoreSteps

\* Two replicas with the same version and the same unkilled writer hold the same
\* registry, after any crashes and with any number of devices: refusing a record
\* that is not newer, as the store does, never hides a difference.
THEOREM StampsAgreeAlways == Spec => []StampsAgree
  <1>1. Init => TypeOK /\ StampInv
    <2>1. Init => TypeOK
      BY DEF Init, TypeOK, NoRecord, Record, Idle, Nobody, Phase, Activity
    <2>2. Init => Records \subseteq {NoRecord}
      BY DEF Init, Records
    <2>3. Init => StampInv
      BY <2>2 DEF StampInv, VersionsStartAtOne, WriterDominates, StampsName, NoRecord
    <2> QED  BY <2>1, <2>3
  <1>2. (TypeOK /\ StampInv) /\ [Next]_vars => (TypeOK /\ StampInv)'
    BY TypesKept, StampsKept
  <1>3. TypeOK /\ StampInv => StampsAgree
    BY DEF StampInv, StampsName, StampsAgree, Records
  <1> QED  BY <1>1, <1>2, <1>3, PTL DEF Spec

=============================================================================
