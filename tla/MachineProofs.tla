---------------------------- MODULE MachineProofs ----------------------------
(***************************************************************************)
(* Proofs about what a session does on its own machine, and what machines    *)
(* list for each other, for any bounds.  They share no state.                *)
(*                                                                            *)
(* NativeStorage: no change is forgotten, and the store implements            *)
(* DurableStore, since there is one write at a time, of something between     *)
(* what the file has and what the records are.                                *)
(* PublishScheduler: a started session always watches or polls; from that, a  *)
(* change that is not published is on its way or was missed in one of the     *)
(* five ways.                                                                 *)
(* FleetDirectory: no index lists what it says was removed; and since no      *)
(* removal has the time of an entry, indexes at rest agree.                   *)
(* TerminalHistory: lines were typed at times of their own, so what a merge   *)
(* keeps is never more than HISTORY_LIMIT of them; and since what it leaves   *)
(* out stays out, histories at rest agree.                                    *)
(* MCMachines: the four keep their types side by side.                        *)
(***************************************************************************)
EXTENDS MCMachines, NumberFacts, FunctionTheorems

-----------------------------------------------------------------------------
\* NativeStorage.

\* At most one write runs, and flushing says so; only then does a call wait.
OneWrite ==
    /\ writes # {} => flushing = "running"
    /\ flushing = "running" => \E w \in Nat : writes = {w}
    /\ waiting > 0 => flushing = "running"

\* The file is not newer than what is written, nor that than the records.
InOrder ==
    /\ disk <= records
    /\ \A w \in writes : disk <= w /\ w <= records

StoreInv == StoreTypeOK /\ OneWrite /\ InOrder /\ ChangesArePending

-----------------------------------------------------------------------------
LEMMA StoreBegins == StoreInit => StoreInv
<1> SUFFICES ASSUME StoreInit PROVE StoreInv OBVIOUS
<1>1. StoreTypeOK BY DEF StoreInit, StoreTypeOK
<1>2. OneWrite BY DEF StoreInit, OneWrite
<1>3. InOrder BY DEF StoreInit, InOrder
<1>4. ChangesArePending BY DEF StoreInit, ChangesArePending
<1> QED BY <1>1, <1>2, <1>3, <1>4 DEF StoreInv

\* flush() keeps the invariant, whoever calls it.
LEMMA FlushKeeps ==
    ASSUME StoreInv, Flush,
           UNCHANGED <<records, disk, changes, failures, kills>>,
           flushTimer' \in BOOLEAN,
           flushTimer' = flushTimer \/ flushTimer' = FALSE
    PROVE  StoreInv'
<1>1. CASE flushing = "running" /\ waiting' = waiting + 1
           /\ UNCHANGED <<dirty, writes, flushing>>
  <2>1. waiting' \in Nat /\ waiting' > 0
    BY <1>1 DEF StoreInv, StoreTypeOK
  <2>2. StoreTypeOK' BY <1>1, <2>1 DEF StoreInv, StoreTypeOK
  <2>3. OneWrite' BY <1>1 DEF StoreInv, OneWrite
  <2>4. InOrder' BY <1>1 DEF StoreInv, InOrder
  <2>5. ChangesArePending' BY <1>1, <2>1 DEF StoreInv, ChangesArePending
  <2> QED BY <2>2, <2>3, <2>4, <2>5 DEF StoreInv
<1>2. CASE (flushing = "failed" \/ (flushing # "running" /\ ~dirty))
           /\ UNCHANGED <<dirty, writes, flushing, waiting>>
  <2>1. StoreTypeOK' BY <1>2 DEF StoreInv, StoreTypeOK
  <2>2. OneWrite' BY <1>2 DEF StoreInv, OneWrite
  <2>3. InOrder' BY <1>2 DEF StoreInv, InOrder
  <2>4. ChangesArePending' BY <1>2 DEF StoreInv, ChangesArePending
  <2> QED BY <2>1, <2>2, <2>3, <2>4 DEF StoreInv
<1>3. CASE flushing \in {"none", "written"} /\ dirty /\ BeginWrite /\ UNCHANGED waiting
  <2>1. writes = {}
    BY <1>3 DEF StoreInv, OneWrite
  <2>2. writes' = {records} /\ flushing' = "running" /\ dirty' = FALSE
    BY <1>3, <2>1 DEF BeginWrite
  <2>3. StoreTypeOK' BY <1>3, <2>2 DEF StoreInv, StoreTypeOK
  <2>4. OneWrite' BY <1>3, <2>2 DEF StoreInv, StoreTypeOK, OneWrite
  <2>5. InOrder' BY <2>2 DEF StoreInv, StoreTypeOK, InOrder
  <2>6. ChangesArePending' BY <2>2 DEF ChangesArePending
  <2> QED BY <2>3, <2>4, <2>5, <2>6 DEF StoreInv
<1> QED BY <1>1, <1>2, <1>3 DEF Flush

LEMMA WriteLandsKeeps ==
    ASSUME StoreInv, NEW w \in writes, WriteLands(w)
    PROVE  StoreInv'
<1>1. writes = {w} /\ w \in Nat /\ flushing = "running"
  BY DEF StoreInv, OneWrite, StoreTypeOK
<1>2. disk <= w /\ w <= records
  BY DEF StoreInv, InOrder
<1>3. disk' = w /\ waiting' = 0
      /\ UNCHANGED <<records, flushTimer, changes, failures, kills>>
  BY DEF WriteLands
<1>4. CASE dirty /\ waiting > 0 /\ dirty' = FALSE /\ writes' = (writes \ {w}) \cup {records}
           /\ UNCHANGED flushing
  <2>1. writes' = {records} /\ flushing' = "running" BY <1>1, <1>4
  <2>2. StoreTypeOK' BY <1>1, <1>3, <1>4, <2>1 DEF StoreInv, StoreTypeOK
  <2>3. OneWrite' BY <1>3, <2>1 DEF StoreInv, StoreTypeOK, OneWrite
  <2>4. InOrder' BY <1>1, <1>2, <1>3, <2>1 DEF StoreInv, StoreTypeOK, InOrder
  <2>5. ChangesArePending' BY <1>3, <2>1 DEF ChangesArePending
  <2> QED BY <1>1, <1>2, <1>3, <2>2, <2>3, <2>4, <2>5 DEF StoreInv, StoreTypeOK
<1>5. CASE (~dirty \/ waiting = 0) /\ writes' = writes \ {w} /\ flushing' = "written"
           /\ UNCHANGED dirty
  <2>1. writes' = {} BY <1>1, <1>5
  <2>2. StoreTypeOK' BY <1>1, <1>3, <1>5, <2>1 DEF StoreInv, StoreTypeOK
  <2>3. OneWrite' BY <1>3, <1>5, <2>1 DEF OneWrite
  <2>4. InOrder' BY <1>1, <1>2, <1>3, <2>1 DEF InOrder
  <2>5. records = w \/ (dirty /\ flushTimer)
    <3>1. records = disk => records = w
      BY <1>1, <1>2 DEF StoreInv, StoreTypeOK
    <3>2. records \in writes => records = w BY <1>1
    <3>3. dirty => ~(waiting > 0) BY <1>5
    <3> QED BY <1>1, <3>1, <3>2, <3>3 DEF StoreInv, ChangesArePending
  <2>6. ChangesArePending' BY <1>3, <1>5, <2>5 DEF ChangesArePending
  <2> QED BY <1>1, <1>2, <1>3, <2>2, <2>3, <2>4, <2>6 DEF StoreInv, StoreTypeOK
<1> QED BY <1>4, <1>5 DEF WriteLands

LEMMA WriteFailsKeeps ==
    ASSUME StoreInv, NEW w \in writes, WriteFails(w)
    PROVE  StoreInv'
<1>1. writes = {w}
  BY DEF StoreInv, OneWrite
<1>2. writes' = {} /\ flushing' = "failed" /\ waiting' = 0
      /\ UNCHANGED <<records, disk, dirty, flushTimer, changes, kills>>
  BY <1>1 DEF WriteFails
<1>3. failures' \in Nat BY DEF WriteFails, StoreInv, StoreTypeOK
<1>4. StoreTypeOK' BY <1>2, <1>3 DEF StoreInv, StoreTypeOK
<1>5. OneWrite' BY <1>2 DEF OneWrite
<1>6. InOrder' BY <1>2 DEF StoreInv, InOrder
<1>7. ChangesArePending' BY <1>2 DEF ChangesArePending
<1> QED BY <1>4, <1>5, <1>6, <1>7 DEF StoreInv

\* Every step keeps the invariant.
LEMMA StoreNextKeeps ==
    ASSUME StoreInv, [StoreNext]_storeVars
    PROVE  StoreInv'
<1>0. disk \in Nat BY DEF StoreInv, StoreTypeOK
<1>1. CASE Change
  <2>1. records' \in Nat /\ records' > records /\ changes' \in Nat
    BY <1>1 DEF Change, StoreInv, StoreTypeOK
  <2>2. StoreTypeOK' BY <1>1, <2>1 DEF Change, StoreInv, StoreTypeOK
  <2>3. OneWrite' BY <1>1 DEF Change, StoreInv, OneWrite
  <2>4. InOrder' BY <1>1, <2>1 DEF Change, StoreInv, StoreTypeOK, InOrder
  <2>5. ChangesArePending' BY <1>1 DEF Change, ChangesArePending
  <2> QED BY <2>2, <2>3, <2>4, <2>5 DEF StoreInv
<1>2. CASE FlushTimerFires BY <1>2, FlushKeeps DEF FlushTimerFires
<1>3. CASE FlushNow
  <2>1. flushTimer' = flushTimer /\ flushTimer' \in BOOLEAN
    BY <1>3 DEF FlushNow, StoreInv, StoreTypeOK
  <2> QED BY <1>3, <2>1, FlushKeeps DEF FlushNow
<1>4. CASE Kill
  <2>1. kills' \in Nat BY <1>4 DEF Kill, StoreInv, StoreTypeOK
  <2>2. StoreTypeOK' BY <1>4, <2>1 DEF Kill, StoreInv, StoreTypeOK
  <2>3. OneWrite' BY <1>4 DEF Kill, OneWrite
  <2>4. InOrder' BY <1>0, <1>4 DEF Kill, InOrder
  <2>5. ChangesArePending' BY <1>4 DEF Kill, ChangesArePending
  <2> QED BY <2>2, <2>3, <2>4, <2>5 DEF StoreInv
<1>5. CASE \E w \in writes : WriteLands(w) \/ WriteFails(w)
  <2>1. PICK w \in writes : WriteLands(w) \/ WriteFails(w) BY <1>5
  <2>2. CASE WriteLands(w) BY <2>2, WriteLandsKeeps
  <2>3. CASE WriteFails(w) BY <2>3, WriteFailsKeeps
  <2> QED BY <2>1, <2>2, <2>3
<1>6. CASE UNCHANGED storeVars
  BY <1>6 DEF storeVars, StoreInv, StoreTypeOK, OneWrite, InOrder, ChangesArePending
<1> QED BY <1>1, <1>2, <1>3, <1>4, <1>5, <1>6 DEF StoreNext

\* The invariant holds, from which the theorems below follow.
THEOREM StoreInvariance == StoreSpec => []StoreInv
<1>1. StoreInit => StoreInv BY StoreBegins
<1>2. StoreInv /\ [StoreNext]_storeVars => StoreInv' BY StoreNextKeeps
<1> QED BY <1>1, <1>2, PTL DEF StoreSpec

-----------------------------------------------------------------------------
\* The store's variables keep their types, whatever the bounds.
THEOREM StoreTypesHold == StoreSpec => []StoreTypeOK
<1>1. StoreInv => StoreTypeOK BY DEF StoreInv
<1> QED BY <1>1, StoreInvariance, PTL

\* A change is never forgotten by schedule, flush and the write that lands, for
\* any number of changes, waiting calls and kills.
THEOREM ChangesArePendingAlways == StoreSpec => []ChangesArePending
<1>1. StoreInv => ChangesArePending BY DEF StoreInv
<1> QED BY <1>1, StoreInvariance, PTL

\* The store implements DurableStore: no flush lets an older write land over a newer one,
\* what a write brings is what the records have been since, and the next process starts
\* with what the file has (flush, schedule, open).
THEOREM ImplementsDurableStore == StoreSpec => StoresDurably
<1>1. StoreInit => Store!Init BY DEF StoreInit, Store!Init
<1>2. StoreInv /\ [StoreNext]_storeVars => [Store!Next]_(Store!vars)
  <2> SUFFICES ASSUME StoreInv, [StoreNext]_storeVars
               PROVE  Store!Next \/ UNCHANGED <<records, disk>>
    BY DEF Store!vars
  <2>1. CASE Change BY <2>1 DEF Change, Store!Next, Store!Alter
  <2>2. CASE FlushTimerFires \/ FlushNow BY <2>2 DEF FlushTimerFires, FlushNow
  <2>3. CASE Kill BY <2>3 DEF Kill, Store!Next, Store!Lose
  <2>4. CASE \E w \in writes : WriteLands(w)
    <3>1. PICK w \in writes : disk' = w /\ UNCHANGED records BY <2>4 DEF WriteLands
    <3>2. w \in disk..records /\ disk \in Nat /\ records \in Nat
      BY <3>1 DEF StoreInv, StoreTypeOK, InOrder
    <3>3. disk' = disk \/ disk' \in (disk + 1)..records BY <3>1, <3>2
    <3> QED BY <3>1, <3>3 DEF Store!Next, Store!Save
  <2>5. CASE \E w \in writes : WriteFails(w) BY <2>5 DEF WriteFails
  <2>6. CASE UNCHANGED storeVars BY <2>6 DEF storeVars
  <2> QED BY <2>1, <2>2, <2>3, <2>4, <2>5, <2>6 DEF StoreNext
<1> QED BY <1>1, <1>2, StoreInvariance, PTL DEF StoreSpec, StoresDurably, Store!Spec

-----------------------------------------------------------------------------
\* PublishScheduler.

SchedulerInv == TypeOK /\ WatchesOrPolls /\ MissedOnlyThus

-----------------------------------------------------------------------------
LEMMA SchedulerBegins == Init => SchedulerInv
<1> SUFFICES ASSUME Init PROVE SchedulerInv OBVIOUS
<1>1. TypeOK BY DEF Init, TypeOK, Idle, Digest, None, Reason
<1>2. WatchesOrPolls BY DEF Init, WatchesOrPolls
<1>3. MissedOnlyThus BY DEF Init, MissedOnlyThus
<1> QED BY <1>1, <1>2, <1>3 DEF SchedulerInv

\* Somebody edits: a watcher has an event, or the polling goes on.
LEMMA EditKeeps ==
    ASSUME SchedulerInv, NEW c \in Content, Edit(c)
    PROVE  SchedulerInv'
<1>1. edits' \in Nat BY DEF Edit, SchedulerInv, TypeOK
<1>2. TypeOK' BY <1>1 DEF Edit, SchedulerInv, TypeOK
<1>3. WatchesOrPolls' BY DEF Edit, SchedulerInv, WatchesOrPolls
<1>4. MissedOnlyThus' BY DEF Edit, SchedulerInv, WatchesOrPolls, MissedOnlyThus
<1> QED BY <1>2, <1>3, <1>4 DEF SchedulerInv

\* activate() up to the watcher: the session is not started yet.
LEMMA StartKeeps ==
    ASSUME SchedulerInv, Activate \/ StartPublishes \/ StartThrows \/ ReadStartDigest
    PROVE  SchedulerInv'
<1>1. mode' \in {"down", "publish", "digest", "watch"} /\ closes' \in Nat
      /\ head' \in Digest /\ previousDigest' \in Digest /\ lost' \subseteq Reason
  BY DEF Activate, StartPublishes, StartThrows, ReadStartDigest, SchedulerInv, TypeOK, Digest
<1>2. UNCHANGED <<content, pub, watchVars, changeTimer, edits>>
  BY DEF Activate, StartPublishes, StartThrows, ReadStartDigest
<1>3. TypeOK' BY <1>1, <1>2 DEF SchedulerInv, TypeOK, watchVars
<1>4. WatchesOrPolls' BY <1>1 DEF WatchesOrPolls
<1>5. MissedOnlyThus' BY <1>1 DEF MissedOnlyThus
<1> QED BY <1>3, <1>4, <1>5 DEF SchedulerInv

\* A watcher is there from now on, or the polling is.
LEMMA WatcherStarts ==
    ASSUME SchedulerInv, NEW reason \in Reason, StartFilesystemWatcher(reason),
           mode' = mode \/ mode' = "started",
           UNCHANGED <<content, head, previousDigest, pub, changeTimer, edits>>,
           closes' \in Nat
    PROVE  SchedulerInv'
<1>1. CASE /\ watcher' = TRUE /\ event' = FALSE
           /\ retryTimer' = FALSE /\ polling' = FALSE /\ polled' = FALSE
           /\ lost' = IF head # content /\ pub.phase \notin {"digest", "publish"}
                         /\ ~changeTimer
                      THEN lost \cup {reason} ELSE lost
  <2>1. TypeOK' BY <1>1 DEF SchedulerInv, TypeOK
  <2>2. WatchesOrPolls' BY <1>1 DEF WatchesOrPolls
  <2>3. MissedOnlyThus' BY <1>1 DEF MissedOnlyThus
  <2> QED BY <2>1, <2>2, <2>3 DEF SchedulerInv
<1>2. CASE /\ watcher' = FALSE /\ event' = FALSE
           /\ ScheduleWatcherRetry /\ UNCHANGED lost
  <2>1. TypeOK' BY <1>2 DEF ScheduleWatcherRetry, SchedulerInv, TypeOK
  <2>2. WatchesOrPolls' BY <1>2 DEF ScheduleWatcherRetry, WatchesOrPolls
  <2>3. MissedOnlyThus' BY <1>2 DEF ScheduleWatcherRetry, MissedOnlyThus
  <2> QED BY <2>1, <2>2, <2>3 DEF SchedulerInv
<1> QED BY <1>1, <1>2 DEF StartFilesystemWatcher

\* What publishChanges does, and who calls it, watches no less.
LEMMA PublishingKeeps ==
    ASSUME SchedulerInv,
           FilesystemChanged \/ TimerFires \/ PollFires \/ ReadDigest \/ PublishLocal
               \/ PublishFails \/ RecordDigest \/ ShareDone
    PROVE  SchedulerInv'
<1>0. UNCHANGED <<content, mode, watcher, retryTimer, polling, edits, closes>>
  BY DEF FilesystemChanged, TimerFires, PollFires, ReadDigest, PublishLocal,
         PublishFails, RecordDigest, ShareDone, watchVars
<1>1. WatchesOrPolls' BY <1>0 DEF SchedulerInv, WatchesOrPolls
<1>2. CASE FilesystemChanged
  <2>1. TypeOK' BY <1>2 DEF FilesystemChanged, SchedulerInv, TypeOK
  <2>2. MissedOnlyThus' BY <1>2 DEF FilesystemChanged, MissedOnlyThus
  <2> QED BY <1>1, <2>1, <2>2 DEF SchedulerInv
<1>3. CASE TimerFires \/ PollFires
  <2>1. PublishChanges
    BY <1>3 DEF TimerFires, PollFires
  <2>2. changeTimer' \in BOOLEAN /\ polled' \in BOOLEAN
        /\ UNCHANGED <<head, previousDigest, event>>
    BY <1>3 DEF TimerFires, PollFires, SchedulerInv, TypeOK, watchVars
  <2>3. CASE pub' = [phase |-> "digest", next |-> None] /\ UNCHANGED lost
    <3>1. TypeOK' BY <1>0, <2>2, <2>3 DEF SchedulerInv, TypeOK, Digest
    <3>2. pub'.phase = "digest" BY <2>3
    <3> QED BY <1>1, <3>1, <3>2 DEF SchedulerInv, MissedOnlyThus
  <2>4. CASE /\ pub.phase # "idle" /\ UNCHANGED pub
             /\ lost' = IF pub.phase \in {"record", "share"} /\ head # content
                        THEN lost \cup {"busy"} ELSE lost
    <3>1. lost' \subseteq Reason BY <2>4 DEF SchedulerInv, TypeOK, Reason
    <3>2. TypeOK' BY <1>0, <2>2, <2>4, <3>1 DEF SchedulerInv, TypeOK
    <3>3. pub.phase \in {"digest", "publish", "record", "share"}
      BY <2>4 DEF SchedulerInv, TypeOK
    <3>4. pub'.phase \in {"digest", "publish"} \/ head' = content' \/ lost' # {}
      BY <1>0, <2>2, <2>4, <3>3
    <3> QED BY <1>1, <3>2, <3>4 DEF SchedulerInv, MissedOnlyThus
  <2> QED BY <2>1, <2>3, <2>4 DEF PublishChanges
<1>4. CASE ReadDigest
  <2>1. UNCHANGED <<head, previousDigest, watchVars, changeTimer>>
    BY <1>4 DEF ReadDigest
  <2>2. CASE pub' = Idle /\ lost' = IF head # content THEN lost \cup {"unchanged"} ELSE lost
    <3>1. TypeOK' BY <1>0, <2>1, <2>2 DEF SchedulerInv, TypeOK, Idle, Digest, Reason, watchVars
    <3>2. head' = content' \/ lost' # {} BY <1>0, <2>1, <2>2
    <3> QED BY <1>1, <3>1, <3>2 DEF SchedulerInv, MissedOnlyThus
  <2>3. CASE pub' = [phase |-> "publish", next |-> content] /\ UNCHANGED lost
    <3>1. TypeOK' BY <1>0, <2>1, <2>3 DEF SchedulerInv, TypeOK, Digest, watchVars
    <3>2. pub'.phase = "publish" BY <2>3
    <3> QED BY <1>1, <3>1, <3>2 DEF SchedulerInv, MissedOnlyThus
  <2> QED BY <1>4, <2>2, <2>3 DEF ReadDigest
<1>5. CASE PublishLocal
  <2>1. TypeOK' BY <1>5 DEF PublishLocal, SchedulerInv, TypeOK, Digest, watchVars
  <2>2. head' = content' BY <1>5 DEF PublishLocal
  <2> QED BY <1>1, <2>1, <2>2 DEF SchedulerInv, MissedOnlyThus
<1>6. CASE PublishFails
  <2>1. TypeOK' BY <1>6 DEF PublishFails, SchedulerInv, TypeOK, Idle, Digest, Reason, watchVars
  <2>2. head' = content' \/ lost' # {} BY <1>6 DEF PublishFails
  <2> QED BY <1>1, <2>1, <2>2 DEF SchedulerInv, MissedOnlyThus
<1>7. CASE RecordDigest \/ ShareDone
  <2>1. UNCHANGED <<head, lost, event, polled, changeTimer>>
        /\ pub.phase \in {"record", "share"}
    BY <1>7 DEF RecordDigest, ShareDone, watchVars
  <2>2. previousDigest' \in Digest
        /\ pub' \in [phase : {"idle", "digest", "publish", "record", "share"}, next : Digest]
    BY <1>7 DEF RecordDigest, ShareDone, SchedulerInv, TypeOK, Idle, Digest
  <2>3. TypeOK' BY <1>0, <2>1, <2>2 DEF SchedulerInv, TypeOK
  <2>4. MissedOnlyThus' BY <1>0, <2>1 DEF SchedulerInv, MissedOnlyThus
  <2> QED BY <1>1, <2>3, <2>4 DEF SchedulerInv
<1> QED BY <1>2, <1>3, <1>4, <1>5, <1>6, <1>7

LEMMA SchedulerNextKeeps ==
    ASSUME SchedulerInv, [Next]_vars
    PROVE  SchedulerInv'
<1>1. CASE \E c \in Content : Edit(c) BY <1>1, EditKeeps
<1>2. CASE Activate \/ StartPublishes \/ StartThrows \/ ReadStartDigest
  BY <1>2, StartKeeps
<1>3. CASE StartDone
  <2>1. "start" \in Reason BY DEF Reason
  <2> QED BY <1>3, <2>1, WatcherStarts DEF StartDone, SchedulerInv, TypeOK
<1>4. CASE FilesystemChanged \/ TimerFires \/ PollFires \/ ReadDigest \/ PublishLocal
               \/ PublishFails \/ RecordDigest \/ ShareDone
  BY <1>4, PublishingKeeps
<1>5. CASE WatcherDies
  <2>1. TypeOK' BY <1>5 DEF WatcherDies, ScheduleWatcherRetry, SchedulerInv, TypeOK
  <2>2. WatchesOrPolls' BY <1>5 DEF WatcherDies, ScheduleWatcherRetry, WatchesOrPolls
  <2>3. MissedOnlyThus' BY <1>5 DEF WatcherDies, ScheduleWatcherRetry, MissedOnlyThus
  <2> QED BY <2>1, <2>2, <2>3 DEF SchedulerInv
<1>6. CASE RetryWatcher
  <2>1. "unwatched" \in Reason BY DEF Reason
  <2> QED BY <1>6, <2>1, WatcherStarts DEF RetryWatcher, SchedulerInv, TypeOK
<1>7. CASE Close
  <2>1. closes' \in Nat BY <1>7 DEF Close, SchedulerInv, TypeOK
  <2>2. TypeOK' BY <1>7, <2>1 DEF Close, SchedulerInv, TypeOK, Digest
  <2>3. WatchesOrPolls' BY <1>7 DEF Close, WatchesOrPolls
  <2>4. MissedOnlyThus' BY <1>7 DEF Close, MissedOnlyThus
  <2> QED BY <2>2, <2>3, <2>4 DEF SchedulerInv
<1>8. CASE UNCHANGED vars
  BY <1>8 DEF vars, watchVars, SchedulerInv, TypeOK, WatchesOrPolls, MissedOnlyThus
<1> QED BY <1>1, <1>2, <1>3, <1>4, <1>5, <1>6, <1>7, <1>8 DEF Next

\* The invariant holds, from which the theorems below follow.
THEOREM SchedulerInvariance == Spec => []SchedulerInv
<1>1. SchedulerInv /\ [Next]_vars => SchedulerInv' BY SchedulerNextKeeps
<1> QED BY <1>1, SchedulerBegins, PTL DEF Spec

-----------------------------------------------------------------------------
\* The session's variables keep their types, whatever the bounds.
THEOREM SchedulerTypesHold == Spec => []TypeOK
<1>1. SchedulerInv => TypeOK BY DEF SchedulerInv
<1> QED BY <1>1, SchedulerInvariance, PTL

\* A started session is never without change detection, in any order of failed
\* creations, errors of the watcher, retries and restarts.
THEOREM WatchesOrPollsAlways == Spec => []WatchesOrPolls
<1>1. SchedulerInv => WatchesOrPolls BY DEF SchedulerInv
<1> QED BY <1>1, SchedulerInvariance, PTL

\* There is no sixth way to miss a change, for any contents and any number of
\* edits and restarts.
THEOREM MissedOnlyThusAlways == Spec => []MissedOnlyThus
<1>1. SchedulerInv => MissedOnlyThus BY DEF SchedulerInv
<1> QED BY <1>1, SchedulerInvariance, PTL

-----------------------------------------------------------------------------
\* FleetDirectory: what a list keeps at some places.

\* What is kept of a list are members of it, each from a place of its own.
LEMMA KeptFrom ==
    ASSUME NEW S, NEW list \in Seq(S), NEW places, places \subseteq DOMAIN list
    PROVE  /\ Kept(list, places) \in Seq(S)
           /\ \E from \in [DOMAIN Kept(list, places) -> places] :
                 /\ \A k \in DOMAIN Kept(list, places) : Kept(list, places)[k] = list[from[k]]
                 /\ \A k, l \in DOMAIN Kept(list, places) : from[k] = from[l] => k = l
  <1> DEFINE n == Cardinality(places)
             Nth(k) == CHOOSE i \in places : Rank(places, i) = k
             kept == Kept(list, places)
  <1>1. Len(list) \in Nat /\ DOMAIN list = 1..Len(list) /\ IsFiniteSet(1..Len(list))
    BY FS_Interval
  <1>2. IsFiniteSet(places) /\ places \subseteq Nat
    <2> DEFINE D == 1..Len(list)
    <2>1. places \in SUBSET D /\ IsFiniteSet(D)
      BY <1>1
    <2> HIDE DEF D
    <2>2. IsFiniteSet(places)
      BY <2>1, FS_Subset
    <2> QED  BY <1>1, <2>2
  <1>3. n \in Nat /\ \A k \in 1..n : \E i \in places : Rank(places, i) = k
    BY <1>2, RanksAreTaken
  <1>4. kept = [k \in 1..n |-> list[Nth(k)]]
    BY DEF Kept, Rank
  <1>5. ASSUME NEW k \in 1..n  PROVE Nth(k) \in places /\ Rank(places, Nth(k)) = k
    BY <1>3
  <1> DEFINE from == [k \in 1..n |-> Nth(k)]
  <1> HIDE DEF n, Nth
  <1>6. from \in [1..n -> places] /\ \A k, l \in 1..n : from[k] = from[l] => k = l
    BY <1>5
  <1>7. DOMAIN kept = 1..n /\ \A k \in 1..n : kept[k] = list[from[k]]
    BY <1>4
  <1>8. kept \in Seq(S)
    <2> HIDE DEF from, kept
    <2>1. \A k \in 1..n : list[from[k]] \in S
      BY <1>1, <1>6
    <2>2. kept \in [1..n -> S]
      <3>1. kept = [k \in 1..n |-> list[Nth(k)]]
        BY <1>4 DEF kept
      <3> QED  BY <1>7, <2>1, <3>1
    <2> QED  BY <1>3, <2>2
  <1> HIDE DEF from
  <1> QED  BY <1>6, <1>7, <1>8

\* Nothing is kept of no places.
LEMMA NothingKept == ASSUME NEW list  PROVE Kept(list, {}) = <<>>
  <1>1. Cardinality({}) = 0
    BY FS_EmptySet
  <1> QED  BY <1>1 DEF Kept

-----------------------------------------------------------------------------
\* An index, of which every path is listed once.
IsIndex(list) ==
    /\ list \in Seq(Entry)
    /\ \A i, j \in DOMAIN list : list[i].path = list[j].path => i = j

LEMMA WithoutIsIndex ==
    ASSUME NEW list, IsIndex(list), NEW p
    PROVE  /\ IsIndex(Without(list, p))
           /\ \A i \in DOMAIN Without(list, p) : Without(list, p)[i].path # p
  <1> DEFINE places == {i \in DOMAIN list : list[i].path # p}
             kept == Kept(list, places)
  <1>1. list \in Seq(Entry) /\ Without(list, p) = kept
    BY DEF IsIndex, Without
  <1>2. places \subseteq DOMAIN list /\ \A i \in places : list[i].path # p
    OBVIOUS
  <1> HIDE DEF places
  <1>3. kept \in Seq(Entry)
    BY <1>1, <1>2, KeptFrom
  <1>4. PICK from \in [DOMAIN kept -> places] :
           /\ \A k \in DOMAIN kept : kept[k] = list[from[k]]
           /\ \A k, l \in DOMAIN kept : from[k] = from[l] => k = l
    BY <1>1, <1>2, KeptFrom
  <1> HIDE DEF kept
  <1>5. ASSUME NEW k \in DOMAIN kept  PROVE from[k] \in DOMAIN list /\ kept[k].path # p
    BY <1>2, <1>4
  <1>6. ASSUME NEW k \in DOMAIN kept, NEW l \in DOMAIN kept, kept[k].path = kept[l].path
        PROVE  k = l
    <2>1. list[from[k]].path = list[from[l]].path
      BY <1>4, <1>6
    <2>2. from[k] = from[l]
      BY <1>5, <2>1 DEF IsIndex
    <2> QED  BY <1>4, <2>2
  <1> QED  BY <1>1, <1>3, <1>5, <1>6 DEF IsIndex

LEMMA RegisteredIsIndex ==
    ASSUME NEW list, IsIndex(list), NEW p \in Path, NEW at \in Nat \ {0}
    PROVE  IsIndex(Append(Without(list, p), [path |-> p, at |-> at]))
  <1> DEFINE rest == Without(list, p)
             new == [path |-> p, at |-> at]
  <1>1. IsIndex(rest) /\ \A i \in DOMAIN rest : rest[i].path # p
    BY WithoutIsIndex
  <1>2. new \in Entry /\ new.path = p
    BY DEF Entry
  <1> HIDE DEF rest, new
  <1> DEFINE more == Append(rest, new)
  <1>3. rest \in Seq(Entry)
    BY <1>1 DEF IsIndex
  <1>4. /\ more \in Seq(Entry) /\ DOMAIN more = 1..Len(rest) + 1 /\ Len(rest) \in Nat
        /\ DOMAIN rest = 1..Len(rest)
        /\ \A i \in DOMAIN rest : more[i] = rest[i]
        /\ more[Len(rest) + 1] = new
    BY <1>2, <1>3
  <1> HIDE DEF more
  <1>5. \A i \in DOMAIN more : i \in DOMAIN rest \/ i = Len(rest) + 1
    BY <1>4
  <1>6. ASSUME NEW i \in DOMAIN more, NEW j \in DOMAIN more, more[i].path = more[j].path
        PROVE  i = j
    BY <1>1, <1>2, <1>4, <1>5, <1>6 DEF IsIndex
  <1> QED  BY <1>4, <1>6 DEF IsIndex, more, rest, new

\* What is left of an index whose every path is p, and of an empty one, is nothing.
LEMMA NothingLeft ==
    ASSUME NEW list, NEW p, \A i \in DOMAIN list : list[i].path = p
    PROVE  Without(list, p) = <<>>
  <1>1. {i \in DOMAIN list : list[i].path # p} = {}
    OBVIOUS
  <1> QED  BY <1>1, NothingKept DEF Without

\* The latest removal elsewhere is one of those the records state, if any does, and none of
\* them is later.
LEMMA LatestElsewhere ==
    ASSUME NEW known \in [Machine -> Record], NEW m \in Machine
    PROVE  /\ RemovedElsewhere(m, known) \in Nat
           /\ \A n \in Machine \ {m} : known[n].removed <= RemovedElsewhere(m, known)
           /\ \/ RemovedElsewhere(m, known) = 0
              \/ \E n \in Machine \ {m} : RemovedElsewhere(m, known) = known[n].removed
  <1> DEFINE others == Machine \ {m}
             told == {known[n].removed : n \in others}
             all == {0} \cup told
             tell == [n \in others |-> known[n].removed]
  <1>1. others \in SUBSET Machine /\ IsFiniteSet(Machine)
    BY DirectoryAssumption
  <1>2. IsFiniteSet(others)
    BY <1>1, FS_Subset
  <1>3. tell \in Surjection(others, told)
    BY DEF Surjection
  <1>4. IsFiniteSet(told)
    <2> HIDE DEF told, tell, others
    <2> QED  BY <1>2, <1>3, FS_Surjection
  <1>5. IsFiniteSet(told \cup {0})
    <2> HIDE DEF told
    <2> QED  BY <1>4, FS_AddElement
  <1>6. told \subseteq Nat
    BY DEF Record
  <1>7. \E x \in all : \A y \in all : y <= x
    <2> HIDE DEF told
    <2>1. all \subseteq Int /\ all # {} /\ all = told \cup {0}
      BY <1>6
    <2> HIDE DEF all
    <2> QED  BY <1>5, <2>1, GreatestExists
  <1>8. RemovedElsewhere(m, known) = Max(all)
    BY DEF RemovedElsewhere
  <1> HIDE DEF told
  <1>9. all \subseteq Nat
    BY <1>6
  <1> HIDE DEF all
  <1>10. \E x \in all : \A y \in all : x >= y
    BY <1>7, <1>9
  <1>11. Max(all) \in all /\ \A y \in all : Max(all) >= y
    BY <1>10 DEF Max
  <1>12. /\ Max(all) \in Nat /\ \A y \in all : y <= Max(all)
         /\ Max(all) = 0 \/ Max(all) \in told
    BY <1>9, <1>11 DEF all
  <1> HIDE DEF all
  <1>13. \A n \in others : known[n].removed \in told
    BY DEF told
  <1>14. \A n \in others : known[n].removed \in all
    BY <1>13 DEF all
  <1> QED  BY <1>8, <1>12, <1>14 DEF told

-----------------------------------------------------------------------------
DirectoryInv == DirectoryTypeOK /\ RemovedOrListed

LEMMA DirectoryBegins == DirectoryInit => DirectoryInv
  <1> SUFFICES ASSUME DirectoryInit  PROVE DirectoryInv
    OBVIOUS
  <1>1. Waiting \in Syncs /\ Unset \in Record
    BY DEF Waiting, Syncs, Unset, Record
  <1>2. RemovedOrListed
    BY DEF DirectoryInit, RemovedOrListed
  <1> QED  BY <1>1, <1>2 DEF DirectoryInit, DirectoryInv, DirectoryTypeOK

\* The index of one machine changes, and nothing that is published or under way.
LEMMA IndexChanges ==
    ASSUME DirectoryInv, NEW m \in Machine, NEW list, IsIndex(list), NEW at \in Nat,
           at = 0 \/ list = <<>>,
           entries' = [entries EXCEPT ![m] = list],
           removed' = [removed EXCEPT ![m] = at],
           UNCHANGED <<record, held>>,
           sync' \in [Machine -> Syncs],
           session' \in [Machine -> [Path -> {"none", "opening", "open"}]],
           deeds' \in Nat
    PROVE  DirectoryInv'
  <1>1. entries' \in [Machine -> Seq(Entry)] /\ removed' \in [Machine -> Nat]
    BY DEF DirectoryInv, DirectoryTypeOK, IsIndex
  <1>2. \A n \in Machine : entries'[n] = (IF n = m THEN list ELSE entries[n])
                           /\ removed'[n] = (IF n = m THEN at ELSE removed[n])
    BY DEF DirectoryInv, DirectoryTypeOK
  <1>3. \A n \in Machine : \A i, j \in DOMAIN entries'[n] :
           entries'[n][i].path = entries'[n][j].path => i = j
    BY <1>2 DEF DirectoryInv, DirectoryTypeOK, IsIndex
  <1>4. RemovedOrListed'
    BY <1>2 DEF DirectoryInv, RemovedOrListed
  <1>5. DirectoryTypeOK'
    BY <1>1, <1>3 DEF DirectoryInv, DirectoryTypeOK
  <1> QED  BY <1>4, <1>5 DEF DirectoryInv

\* The index stays as it is.
LEMMA IndexStays ==
    ASSUME DirectoryInv, UNCHANGED <<entries, removed, deeds>>,
           record' \in [Machine -> Record],
           held' \in [Machine -> [Machine -> Record]],
           sync' \in [Machine -> Syncs],
           session' \in [Machine -> [Path -> {"none", "opening", "open"}]]
    PROVE  DirectoryInv'
  BY DEF DirectoryInv, DirectoryTypeOK, RemovedOrListed

LEMMA SessionsStay ==
    ASSUME DirectoryInv, NEW m \in Machine, NEW p \in Path,
           NEW state \in {"none", "opening", "open"}
    PROVE  [session EXCEPT ![m][p] = state]
              \in [Machine -> [Path -> {"none", "opening", "open"}]]
  BY DEF DirectoryInv, DirectoryTypeOK

LEMMA IndexOf ==
    ASSUME DirectoryInv, NEW m \in Machine
    PROVE  /\ IsIndex(entries[m])
           /\ removed[m] \in Nat
           /\ removed[m] = 0 \/ entries[m] = <<>>
           /\ Now \in Nat /\ Now + 1 \in Nat \ {0} /\ Now + 2 \in Nat \ {0}
           /\ removed = [removed EXCEPT ![m] = removed[m]]
  <1>1. Now \in Nat
    BY DEF DirectoryInv, DirectoryTypeOK, Now
  <1> QED  BY <1>1 DEF DirectoryInv, DirectoryTypeOK, RemovedOrListed, IsIndex

\* registerMachinePigeon, by whoever calls it.
LEMMA RegisteringKeeps ==
    ASSUME DirectoryInv, NEW m \in Machine, NEW p \in Path,
           RegisterMachinePigeon(m, p), UNCHANGED <<removed, record, held, deeds>>,
           sync' \in [Machine -> Syncs],
           session' \in [Machine -> [Path -> {"none", "opening", "open"}]]
    PROVE  DirectoryInv'
  <1> DEFINE known == {i \in DOMAIN entries[m] : entries[m][i].path = p}
             at    == IF known = {} THEN Now + 1 ELSE entries[m][CHOOSE i \in known : TRUE].at
             list  == Append(Without(entries[m], p), [path |-> p, at |-> at])
  <1>0. record' \in [Machine -> Record] /\ held' \in [Machine -> [Machine -> Record]]
        /\ deeds' \in Nat
    BY DEF DirectoryInv, DirectoryTypeOK
  <1>1. CASE UNCHANGED entries
    BY <1>0, <1>1, IndexStays
  <1>2. CASE removed[m] = 0 /\ entries' = [entries EXCEPT ![m] = list]
    <2>1. at \in Nat \ {0}
      <3>1. ASSUME NEW i \in DOMAIN entries[m]  PROVE entries[m][i].at \in Nat \ {0}
        <4>1. entries[m] \in Seq(Entry)
          BY DEF DirectoryInv, DirectoryTypeOK
        <4>2. entries[m][i] \in Entry
          BY <4>1
        <4> QED  BY <4>2 DEF Entry
      <3>2. known # {} => (CHOOSE i \in known : TRUE) \in known
        OBVIOUS
      <3>3. Now + 1 \in Nat \ {0}
        BY IndexOf
      <3> QED  BY <3>1, <3>2, <3>3
    <2>2. IsIndex(list)
      <3> HIDE DEF at
      <3> QED  BY <2>1, IndexOf, RegisteredIsIndex
    <2>3. removed' = [removed EXCEPT ![m] = 0]
      BY <1>2, IndexOf
    <2>4. entries' = [entries EXCEPT ![m] = list]
      BY <1>2
    <2> HIDE DEF list, at, known
    <2> QED  BY <1>0, <2>2, <2>3, <2>4, IndexChanges
  <1> HIDE DEF list
  <1>3. RegisterMachinePigeon(m, p) =>
           IF removed[m] # 0 THEN UNCHANGED entries
                             ELSE entries' = [entries EXCEPT ![m] = list]
    BY DEF RegisterMachinePigeon, list
  <1> QED  BY <1>1, <1>2, <1>3

\* unregisterMachinePigeon: if something is left, nothing was removed before.
LEMMA UnregisteringKeeps ==
    ASSUME DirectoryInv, NEW m \in Machine, NEW p, NEW at \in Nat,
           UnregisterMachinePigeon(m, p, at), UNCHANGED <<record, held>>,
           sync' \in [Machine -> Syncs],
           session' \in [Machine -> [Path -> {"none", "opening", "open"}]],
           deeds' \in Nat
    PROVE  DirectoryInv'
  <1> DEFINE list == Without(entries[m], p)
  <1>1. IsIndex(list) /\ entries' = [entries EXCEPT ![m] = list]
    BY IndexOf, WithoutIsIndex DEF UnregisterMachinePigeon
  <1>2. CASE PathsOf(m) = {p}
    <2>1. list = <<>>
      BY <1>2, NothingLeft DEF PathsOf
    <2>2. removed' = [removed EXCEPT ![m] = at]
      BY <1>2 DEF UnregisterMachinePigeon
    <2> HIDE DEF list
    <2> QED  BY <1>1, <2>1, <2>2, IndexChanges
  <1>3. CASE PathsOf(m) # {p}
    <2>1. removed' = [removed EXCEPT ![m] = removed[m]]
      BY <1>3 DEF UnregisterMachinePigeon
    <2>2. removed[m] = 0 \/ list = <<>>
      <3>1. entries[m] = <<>> => list = <<>>
        BY NothingLeft
      <3> QED  BY <3>1, IndexOf
    <2>3. removed[m] \in Nat
      BY IndexOf
    <2> HIDE DEF list
    <2> QED  BY <1>1, <2>1, <2>2, <2>3, IndexChanges
  <1> QED  BY <1>2, <1>3

\* What people do.
LEMMA DeedsKeep ==
    ASSUME DirectoryInv, NEW m \in Machine, NEW p \in Path,
           Watch(m, p) \/ Unwatch(m, p) \/ TombstoneMachinePigeon(m) \/ DropVanished(m, p)
    PROVE  DirectoryInv'
  <1>0. /\ UNCHANGED <<record, held>> /\ deeds' \in Nat
        /\ sync' \in [Machine -> Syncs]
    BY DEF Watch, Unwatch, TombstoneMachinePigeon, DropVanished, Does, DirectoryInv,
           DirectoryTypeOK
  <1>1. session' \in [Machine -> [Path -> {"none", "opening", "open"}]]
    <2>1. CASE UNCHANGED session
      BY <2>1 DEF DirectoryInv, DirectoryTypeOK
    <2>2. CASE Watch(m, p)
      <3>1. session[m][p] \in {"none", "opening", "open"}
        BY DEF DirectoryInv, DirectoryTypeOK
      <3>2. PICK state \in {"none", "opening", "open"} :
               session' = [session EXCEPT ![m][p] = state]
        BY <2>2, <3>1 DEF Watch
      <3> QED  BY <3>2, SessionsStay
    <2> QED  BY <2>1, <2>2 DEF Unwatch, TombstoneMachinePigeon, DropVanished
  <1>2. CASE Watch(m, p)
    <2> DEFINE list == Append(Without(entries[m], p), [path |-> p, at |-> Now + 2])
    <2>1. IsIndex(list)
      BY IndexOf, RegisteredIsIndex
    <2>2. entries' = [entries EXCEPT ![m] = list] /\ removed' = [removed EXCEPT ![m] = 0]
      BY <1>2 DEF Watch
    <2>3. 0 \in Nat
      OBVIOUS
    <2> HIDE DEF list
    <2> QED  BY <1>0, <1>1, <2>1, <2>2, <2>3, IndexChanges
  <1>3. CASE Unwatch(m, p)
    <2>1. UnregisterMachinePigeon(m, p, Now + 2) /\ Now + 2 \in Nat
      BY <1>3, IndexOf DEF Unwatch
    <2> QED  BY <1>0, <1>1, <2>1, UnregisteringKeeps
  <1>4. CASE TombstoneMachinePigeon(m)
    <2>1. /\ entries' = [entries EXCEPT ![m] = <<>>] /\ Now + 2 \in Nat
          /\ removed' = [removed EXCEPT ![m] = Now + 2]
      BY <1>4, IndexOf DEF TombstoneMachinePigeon
    <2>2. IsIndex(<<>>)
      BY DEF IsIndex
    <2> QED  BY <1>0, <1>1, <2>1, <2>2, IndexChanges
  <1>5. CASE DropVanished(m, p)
    <2> DEFINE list == Without(entries[m], p)
    <2>1. IsIndex(list)
      BY IndexOf, WithoutIsIndex
    <2>2. entries' = [entries EXCEPT ![m] = list]
      BY <1>5 DEF DropVanished
    <2>3. removed' = [removed EXCEPT ![m] = removed[m]] /\ removed[m] \in Nat
      BY <1>5, IndexOf DEF DropVanished
    <2>4. removed[m] = 0 \/ list = <<>>
      <3>1. entries[m] = <<>> => list = <<>>
        BY NothingLeft
      <3> QED  BY <3>1, IndexOf
    <2> HIDE DEF list
    <2> QED  BY <1>0, <1>1, <2>1, <2>2, <2>3, <2>4, IndexChanges
  <1> QED  BY <1>2, <1>3, <1>4, <1>5

\* What the sessions of a service do.
LEMMA SessionsKeep ==
    ASSUME DirectoryInv, NEW m \in Machine, NEW p \in Path,
           LaunchSession(m, p) \/ SessionOpen(m, p) \/ StopSession(m, p)
    PROVE  DirectoryInv'
  <1>0. /\ record' \in [Machine -> Record] /\ held' \in [Machine -> [Machine -> Record]]
        /\ sync' \in [Machine -> Syncs]
    BY DEF LaunchSession, SessionOpen, StopSession, DirectoryInv, DirectoryTypeOK
  <1>1. UNCHANGED <<removed, record, held, deeds>>
    BY DEF LaunchSession, SessionOpen, StopSession
  <1>2. session' \in [Machine -> [Path -> {"none", "opening", "open"}]]
    <2>1. PICK state \in {"none", "opening", "open"} :
             session' = [session EXCEPT ![m][p] = state]
      BY DEF LaunchSession, SessionOpen, StopSession
    <2> QED  BY <2>1, SessionsStay
  <1>3. CASE UNCHANGED entries
    BY <1>0, <1>1, <1>2, <1>3, IndexStays
  <1>4. CASE RegisterMachinePigeon(m, p)
    BY <1>0, <1>1, <1>2, <1>4, RegisteringKeeps
  <1> QED  BY <1>3, <1>4 DEF LaunchSession, SessionOpen, StopSession

LEMMA PublishKeeps ==
    ASSUME DirectoryInv, NEW m \in Machine, Publish(m)
    PROVE  DirectoryInv'
  <1> DEFINE told == PublisherDirectoryValue(m)
  <1>1. told \in Record
    <2>1. CASE entries[m] = <<>>
      BY <2>1, IndexOf DEF Record, PublisherDirectoryValue
    <2>2. CASE entries[m] # <<>>
      <3>1. entries[m] \in Seq(Entry)
        BY DEF DirectoryInv, DirectoryTypeOK
      <3>2. entries[m][1] \in Entry
        BY <2>2, <3>1
      <3> QED  BY <2>2, <3>2 DEF Entry, Record, PublisherDirectoryValue
    <2> QED  BY <2>1, <2>2
  <1>2. record' = [record EXCEPT ![m] = told]
    BY DEF Publish
  <1>3. record' \in [Machine -> Record]
    <2> HIDE DEF told
    <2> QED  BY <1>1, <1>2 DEF DirectoryInv, DirectoryTypeOK
  <1>4. /\ UNCHANGED <<entries, removed, deeds>>
        /\ held' \in [Machine -> [Machine -> Record]] /\ sync' \in [Machine -> Syncs]
        /\ session' \in [Machine -> [Path -> {"none", "opening", "open"}]]
    BY DEF Publish, DirectoryInv, DirectoryTypeOK
  <1> QED  BY <1>3, <1>4, IndexStays

\* Some of a list to drop, with the time that is told for it.
DropOf(list, at) == [i \in DOMAIN list |-> [path |-> list[i].path, at |-> at]]
Drop == [path : Path, at : Nat]

LEMMA DropsAreTimed ==
    ASSUME NEW list \in Seq(Entry), NEW at \in Nat
    PROVE  /\ DropOf(list, at) \in Seq(Drop) /\ Len(DropOf(list, at)) = Len(list)
           /\ \A i \in DOMAIN DropOf(list, at) : DropOf(list, at)[i].at = at
  <1> DEFINE drops == [i \in DOMAIN list |-> [path |-> list[i].path, at |-> at]]
  <1>1. DOMAIN list = 1..Len(list) /\ Len(list) \in Nat
    OBVIOUS
  <1>2. ASSUME NEW i \in 1..Len(list)  PROVE drops[i] \in Drop /\ drops[i].at = at
    <2>1. list[i] \in Entry
      BY <1>1, <1>2
    <2> QED  BY <1>1, <2>1 DEF Entry, Drop
  <1>3. drops \in [1..Len(list) -> Drop]
    <2>1. drops = [i \in 1..Len(list) |-> [path |-> list[i].path, at |-> at]]
      BY <1>1
    <2> QED  BY <1>1, <1>2, <2>1
  <1> HIDE DEF drops
  <1>4. drops \in Seq(Drop) /\ Len(drops) = Len(list) /\ DOMAIN drops = 1..Len(list)
    BY <1>1, <1>3
  <1> QED  BY <1>2, <1>4 DEF drops, DropOf

\* What a synchronisation is to drop is told one of the two removals, and it is nothing
\* only if no other machine states one that is later than the first entry.
LEMMA DropsAre ==
    ASSUME DirectoryInv, NEW m \in Machine, NEW known \in [Machine -> Record]
    PROVE  /\ Drops(m, known) \in Seq(Drop)
           /\ \A i \in DOMAIN Drops(m, known) :
                 Drops(m, known)[i].at \in {removed[m], RemovedElsewhere(m, known)}
           /\ Drops(m, known) = <<>> /\ entries[m] # <<>> =>
                 entries[m][1].at >= RemovedElsewhere(m, known)
  <1> DEFINE remote == RemovedElsewhere(m, known)
             P      == {i \in DOMAIN entries[m] : entries[m][i].at < removed[m]}
             Q      == {i \in DOMAIN entries[m] : i = 1 /\ entries[m][i].at < remote}
             own    == Kept(entries[m], P)
             first  == Kept(entries[m], Q)
             here   == removed[m]
             d1     == DropOf(own, here)
             d2     == DropOf(first, remote)
             drops  == Drops(m, known)
  <1>1. remote \in Nat /\ here \in Nat
    BY LatestElsewhere, IndexOf
  <1>2. /\ P \subseteq DOMAIN entries[m] /\ Q \subseteq DOMAIN entries[m]
        /\ entries[m] \in Seq(Entry)
    BY DEF DirectoryInv, DirectoryTypeOK
  <1>3. drops = d1 \o d2
    BY DEF Drops, DropOf
  <1>4. ASSUME entries[m] # <<>>, ~(entries[m][1].at >= remote)  PROVE Q = {1}
    <2>1. 1 \in DOMAIN entries[m] /\ entries[m][1] \in Entry
      BY <1>2, <1>4
    <2>2. entries[m][1].at < remote
      <3> HIDE DEF remote
      <3> QED  BY <1>1, <1>4, <2>1 DEF Entry
    <2> QED  BY <2>1, <2>2
  <1> HIDE DEF P, Q, remote, here, drops
  <1>5. own \in Seq(Entry) /\ first \in Seq(Entry)
    BY <1>2, KeptFrom
  <1>6. Q = {1} => Len(first) = 1
    <2>1. Cardinality({1}) = 1
      BY FS_Singleton
    <2>2. ASSUME Q = {1}  PROVE first = [k \in 1..1 |-> first[k]]
      BY <2>1, <2>2 DEF Kept
    <2>3. ASSUME Q = {1}  PROVE DOMAIN first = 1..1
      BY <2>1, <2>3 DEF Kept
    <2> HIDE DEF first
    <2> QED  BY <1>5, <2>3
  <1> HIDE DEF own, first
  <1>7. /\ d1 \in Seq(Drop) /\ d2 \in Seq(Drop) /\ Len(d2) = Len(first)
        /\ \A i \in DOMAIN d1 : d1[i].at = here
        /\ \A i \in DOMAIN d2 : d2[i].at = remote
    BY <1>1, <1>5, DropsAreTimed
  <1> HIDE DEF d1, d2
  <1>8. drops \in Seq(Drop) /\ Len(drops) = Len(d1) + Len(d2)
    <2>1. d1 \in Seq(Drop) /\ d2 \in Seq(Drop)
      BY <1>7
    <2>2. Len(d1 \o d2) = Len(d1) + Len(d2)
      BY <2>1
    <2>3. (d1 \o d2) \in Seq(Drop)
      BY <2>1
    <2> QED  BY <1>3, <2>2, <2>3
  <1>9. \A i \in DOMAIN drops : drops[i].at \in {here, remote}
    <2> SUFFICES ASSUME NEW i \in DOMAIN drops  PROVE drops[i].at \in {here, remote}
      OBVIOUS
    <2>1. CASE i \in DOMAIN d1
      BY <1>3, <1>7, <1>8, <2>1
    <2>2. CASE i \notin DOMAIN d1
      <3>1. i - Len(d1) \in DOMAIN d2 /\ drops[i] = d2[i - Len(d1)]
        BY <1>3, <1>7, <1>8, <2>2
      <3> QED  BY <1>7, <3>1
    <2> QED  BY <2>1, <2>2
  <1>10. drops = <<>> => Q # {1}
    BY <1>6, <1>7, <1>8
  <1>11. drops = <<>> /\ entries[m] # <<>> => entries[m][1].at >= remote
    BY <1>4, <1>10
  <1> QED  BY <1>8, <1>9, <1>11 DEF drops, here, remote

LEMMA SyncReadsKeeps ==
    ASSUME DirectoryInv, NEW m \in Machine, NEW arrived \in SUBSET (Machine \ {m}),
           SyncReads(m, arrived)
    PROVE  DirectoryInv'
  <1> DEFINE known == [n \in Machine |-> IF n \in arrived THEN record[n] ELSE held[m][n]]
             drops   == Drops(m, known)
             alive   == IsAlive(m, known)
  <1>1. known \in [Machine -> Record]
    <2>1. \A n \in Machine : record[n] \in Record /\ held[m][n] \in Record
      BY DEF DirectoryInv, DirectoryTypeOK
    <2> QED  BY <2>1
  <1>2. /\ held' = [held EXCEPT ![m] = known]
        /\ sync' = [sync EXCEPT ![m] = [phase |-> "drop", drops |-> drops, alive |-> alive]]
        /\ UNCHANGED <<entries, removed, record, session, deeds>>
    BY DEF SyncReads
  <1> HIDE DEF known
  <1>3. drops \in Seq(Drop) /\ alive \in BOOLEAN
    BY <1>1, DropsAre DEF IsAlive
  <1> HIDE DEF drops, alive
  <1>4. [phase |-> "drop", drops |-> drops, alive |-> alive] \in Syncs
    BY <1>3 DEF Syncs, Drop
  <1>5. sync' \in [Machine -> Syncs] /\ held' \in [Machine -> [Machine -> Record]]
    BY <1>1, <1>2, <1>4 DEF DirectoryInv, DirectoryTypeOK
  <1>6. /\ record' \in [Machine -> Record]
        /\ session' \in [Machine -> [Path -> {"none", "opening", "open"}]]
    BY <1>2 DEF DirectoryInv, DirectoryTypeOK
  <1> QED  BY <1>2, <1>5, <1>6, IndexStays

\* The next of what a synchronisation drops, and what it then has left.
LEMMA SyncDropsKeeps ==
    ASSUME DirectoryInv, NEW m \in Machine, SyncDrops(m)
    PROVE  DirectoryInv'
  <1> DEFINE d == Head(sync[m].drops)
             left == [sync[m] EXCEPT !.drops = Tail(sync[m].drops)]
             D == [path : Path, at : Nat]
  <1>1. sync[m] \in Syncs /\ sync[m].drops \in Seq(D) /\ sync[m].drops # <<>>
    BY DEF SyncDrops, DirectoryInv, DirectoryTypeOK, Syncs
  <1>2. d \in D /\ Tail(sync[m].drops) \in Seq(D)
    <2> HIDE DEF D
    <2> QED  BY <1>1
  <1>3. left \in Syncs
    BY <1>1, <1>2 DEF Syncs
  <1>4. sync' = [sync EXCEPT ![m] = left]
    BY DEF SyncDrops
  <1>5. sync' \in [Machine -> Syncs]
    <2> HIDE DEF left
    <2> QED  BY <1>3, <1>4 DEF DirectoryInv, DirectoryTypeOK
  <1>6. d.at \in Nat /\ UnregisterMachinePigeon(m, d.path, d.at)
    BY <1>2 DEF SyncDrops
  <1>7. /\ UNCHANGED <<record, held>> /\ deeds' \in Nat
        /\ session' \in [Machine -> [Path -> {"none", "opening", "open"}]]
    BY DEF SyncDrops, DirectoryInv, DirectoryTypeOK
  <1> HIDE DEF d
  <1> QED  BY <1>5, <1>6, <1>7, UnregisteringKeeps

LEMMA SyncEndsKeep ==
    ASSUME DirectoryInv, NEW m \in Machine, SyncLooks(m) \/ Materialize(m)
    PROVE  DirectoryInv'
  <1>1. Waiting \in Syncs /\ [Waiting EXCEPT !.phase = "clone"] \in Syncs
    <2>1. Waiting \in Syncs
      BY DEF Waiting, Syncs
    <2> QED  BY <2>1 DEF Syncs
  <1>2. sync' \in [Machine -> Syncs]
    <2>1. PICK s \in Syncs : sync' = [sync EXCEPT ![m] = s]
      BY <1>1 DEF SyncLooks, Materialize
    <2> QED  BY <2>1 DEF DirectoryInv, DirectoryTypeOK
  <1>3. /\ UNCHANGED <<removed, record, held, deeds>>
        /\ record' \in [Machine -> Record] /\ held' \in [Machine -> [Machine -> Record]]
        /\ session' \in [Machine -> [Path -> {"none", "opening", "open"}]]
    BY DEF SyncLooks, Materialize, DirectoryInv, DirectoryTypeOK
  <1>4. CASE SyncLooks(m)
    <2>1. UNCHANGED entries
      BY <1>4 DEF SyncLooks
    <2> QED  BY <1>2, <1>3, <2>1, IndexStays
  <1>5. CASE Materialize(m)
    <2>1. RegisterMachinePigeon(m, Target) /\ Target \in Path
      BY <1>5, DirectoryAssumption DEF Materialize
    <2> QED  BY <1>2, <1>3, <2>1, RegisteringKeeps
  <1> QED  BY <1>4, <1>5

LEMMA DirectoryNextKeeps ==
    ASSUME DirectoryInv, [DirectoryNext]_dvars
    PROVE  DirectoryInv'
  <1>1. CASE UNCHANGED dvars
    <2>1. /\ UNCHANGED <<entries, removed, record, held, sync, session, deeds>>
      BY <1>1 DEF dvars
    <2> QED  BY <2>1 DEF DirectoryInv, DirectoryTypeOK, RemovedOrListed
  <1>2. CASE DirectoryNext
    <2>1. PICK m \in Machine :
             \/ \E p \in Path : \/ Watch(m, p) \/ Unwatch(m, p) \/ DropVanished(m, p)
                                \/ LaunchSession(m, p) \/ SessionOpen(m, p)
                                \/ StopSession(m, p)
             \/ TombstoneMachinePigeon(m) \/ Publish(m)
             \/ \E arrived \in SUBSET (Machine \ {m}) : SyncReads(m, arrived)
             \/ SyncDrops(m) \/ SyncLooks(m) \/ Materialize(m)
      BY <1>2 DEF DirectoryNext
    <2>2. CASE \E p \in Path : \/ Watch(m, p) \/ Unwatch(m, p) \/ DropVanished(m, p)
      BY <2>2, DeedsKeep
    <2>3. CASE \E p \in Path : \/ LaunchSession(m, p) \/ SessionOpen(m, p)
                               \/ StopSession(m, p)
      BY <2>3, SessionsKeep
    <2>4. CASE TombstoneMachinePigeon(m)
      BY <2>4, DeedsKeep, DirectoryAssumption
    <2>5. CASE Publish(m)
      BY <2>5, PublishKeeps
    <2>6. CASE \E arrived \in SUBSET (Machine \ {m}) : SyncReads(m, arrived)
      BY <2>6, SyncReadsKeeps
    <2>7. CASE SyncDrops(m)
      BY <2>7, SyncDropsKeeps
    <2>8. CASE SyncLooks(m) \/ Materialize(m)
      BY <2>8, SyncEndsKeep
    <2> QED  BY <2>1, <2>2, <2>3, <2>4, <2>5, <2>6, <2>7, <2>8
  <1> QED  BY <1>1, <1>2

\* The invariant holds, from which the theorems below follow.
THEOREM DirectoryInvariance == DirectorySpec => []DirectoryInv
  <1>1. DirectoryInv /\ [DirectoryNext]_dvars => DirectoryInv'
    BY DirectoryNextKeeps
  <1> QED  BY <1>1, DirectoryBegins, PTL DEF DirectorySpec

\* The indexes of a fleet keep their types, and list a path once, for any number of machines,
\* paths and deeds.
THEOREM DirectoryTypesHold == DirectorySpec => []DirectoryTypeOK
  <1>1. DirectoryInv => DirectoryTypeOK
    BY DEF DirectoryInv
  <1> QED  BY <1>1, DirectoryInvariance, PTL

\* No index keeps a repository that it says was removed, in any order of commands, sessions
\* and synchronisations that act on what they read earlier.
THEOREM RemovedIsNotListed == DirectorySpec => []RemovedOrListed
  <1>1. DirectoryInv => RemovedOrListed
    BY DEF DirectoryInv
  <1> QED  BY <1>1, DirectoryInvariance, PTL

-----------------------------------------------------------------------------
\* The indexes at rest: no removal has the time of an entry.

EntryTimes == {t \in Nat \ {0} : \E m \in Machine :
                  \E i \in DOMAIN entries[m] : t = entries[m][i].at}
\* The times of removals, wherever they are stated, and that of none.
RemovalTimes ==
    {t \in Nat : \/ t = 0
                 \/ \E n \in Machine : t = removed[n]
                 \/ \E n \in Machine : t = record[n].removed
                 \/ \E n, k \in Machine : t = held[n][k].removed
                 \/ \E n \in Machine : \E i \in DOMAIN sync[n].drops : t = sync[n].drops[i].at}
Apart ==
    /\ \A t \in EntryTimes : t <= Now + 1
    /\ \A t \in RemovalTimes : t <= Now /\ \E k \in Nat : t = 2 * k
    /\ EntryTimes \cap RemovalTimes = {}

\* What is stated somewhere is the time of a removal, and what is listed that of an entry.
LEMMA TimesAre ==
    ASSUME DirectoryInv, NEW n \in Machine
    PROVE  /\ removed[n] \in RemovalTimes /\ record[n].removed \in RemovalTimes
           /\ 0 \in RemovalTimes
           /\ \A k \in Machine : held[n][k].removed \in RemovalTimes
           /\ sync[n].drops \in Seq(Drop)
           /\ \A i \in DOMAIN sync[n].drops : sync[n].drops[i].at \in RemovalTimes
           /\ entries[n] \in Seq(Entry)
           /\ \A i \in DOMAIN entries[n] : entries[n][i].at \in EntryTimes
  <1>1. /\ removed[n] \in Nat /\ record[n].removed \in Nat
        /\ \A k \in Machine : held[n][k].removed \in Nat
        /\ sync[n].drops \in Seq(Drop) /\ entries[n] \in Seq(Entry)
    <2>1. record[n] \in Record /\ (\A k \in Machine : held[n][k] \in Record) /\ sync[n] \in Syncs
      BY DEF DirectoryInv, DirectoryTypeOK
    <2>2. sync[n].drops \in Seq([path : Path, at : Nat])
      BY <2>1 DEF Syncs
    <2>3. removed[n] \in Nat /\ entries[n] \in Seq(Entry)
      BY DEF DirectoryInv, DirectoryTypeOK
    <2> QED  BY <2>1, <2>2, <2>3 DEF Record, Drop
  <1>2. ASSUME NEW i \in DOMAIN sync[n].drops  PROVE sync[n].drops[i].at \in Nat
    <2>1. sync[n].drops[i] \in Drop
      BY <1>1
    <2> QED  BY <2>1 DEF Drop
  <1>3. ASSUME NEW i \in DOMAIN entries[n]  PROVE entries[n][i].at \in Nat \ {0}
    <2>1. entries[n][i] \in Entry
      BY <1>1
    <2> QED  BY <2>1 DEF Entry
  <1>4. removed[n] \in RemovalTimes /\ record[n].removed \in RemovalTimes
        /\ 0 \in RemovalTimes /\ \A k \in Machine : held[n][k].removed \in RemovalTimes
    BY <1>1 DEF RemovalTimes
  <1>5. \A i \in DOMAIN sync[n].drops : sync[n].drops[i].at \in RemovalTimes
    BY <1>2 DEF RemovalTimes
  <1>6. \A i \in DOMAIN entries[n] : entries[n][i].at \in EntryTimes
    BY <1>3 DEF EntryTimes
  <1> QED  BY <1>1, <1>4, <1>5, <1>6

\* An entry or a removal of this moment, or none.
LEMMA StaysApart ==
    ASSUME DirectoryInv, Apart, NEW made, NEW dropped,
           EntryTimes' \subseteq EntryTimes \cup made,
           RemovalTimes' \subseteq RemovalTimes \cup dropped,
           \/ made = {} /\ dropped = {} /\ deeds' \in {deeds, deeds + 1}
           \/ made = {Now + 1} /\ dropped = {} /\ deeds' = deeds
           \/ made = {Now + 2} /\ dropped = {} /\ deeds' = deeds + 1
           \/ made = {} /\ dropped = {Now + 2} /\ deeds' = deeds + 1
    PROVE  Apart'
  <1>1. deeds \in Nat /\ Now = 2 * deeds /\ Now' = 2 * deeds' /\ Now \in Nat
    BY DEF DirectoryInv, DirectoryTypeOK, Now
  <1>2. EntryTimes \subseteq Nat /\ RemovalTimes \subseteq Nat
    BY DEF EntryTimes, RemovalTimes
  <1>3. deeds' \in Nat /\ Now' \in {Now, Now + 2}
        /\ Now' \in Nat /\ Now <= Now'
        /\ \/ made \subseteq {Now + 1} /\ dropped = {}
           \/ made = {Now + 2} /\ dropped = {} /\ Now' = Now + 2
           \/ made = {} /\ dropped = {Now + 2} /\ Now' = Now + 2
    BY <1>1
  <1>0. \A t \in Nat : /\ t <= Now => t <= Now'
                       /\ t <= Now + 1 => t <= Now' + 1
    <2>1. Now \in Nat /\ Now' \in Nat /\ Now <= Now'
      BY <1>1, <1>3
    <2>2. \A a, b, t \in Nat : /\ t <= a /\ a <= b => t <= b
                               /\ t <= a + 1 /\ a <= b => t <= b + 1
      OBVIOUS
    <2> QED  BY <2>1, <2>2
  <1>4. ASSUME NEW t \in EntryTimes'  PROVE t <= Now' + 1
    <2>1. CASE t \in EntryTimes
      <3>1. t \in Nat /\ t <= Now + 1
        BY <1>2, <2>1 DEF Apart
      <3> QED  BY <1>0, <3>1
    <2>2. CASE t \in made
      BY <1>1, <1>3, <2>2
    <2> QED  BY <1>4, <2>1, <2>2
  <1>5. ASSUME NEW t \in RemovalTimes'  PROVE t <= Now' /\ \E k \in Nat : t = 2 * k
    <2>1. CASE t \in RemovalTimes
      <3>1. t \in Nat /\ t <= Now /\ \E k \in Nat : t = 2 * k
        BY <1>2, <2>1 DEF Apart
      <3> QED  BY <1>0, <3>1
    <2>2. CASE t \notin RemovalTimes
      <3>1. t = Now + 2 /\ Now' = Now + 2
        BY <1>3, <1>5, <2>2
      <3>2. t = 2 * (deeds + 1) /\ deeds + 1 \in Nat
        BY <1>1, <3>1
      <3> QED  BY <1>1, <3>1, <3>2
    <2> QED  BY <2>1, <2>2
  <1>6. ASSUME NEW t \in EntryTimes', t \in RemovalTimes'  PROVE FALSE
    <2>1. CASE t \in EntryTimes /\ t \in RemovalTimes
      BY <2>1 DEF Apart
    <2>2. CASE t \in EntryTimes /\ t \notin RemovalTimes
      BY <1>1, <1>2, <1>6, <2>2 DEF Apart
    <2>3. CASE t \notin EntryTimes
      <3>1. t \in made /\ t \in {Now + 1, Now + 2} /\ dropped = {}
        BY <1>6, <2>3
      <3>2. t \in RemovalTimes
        BY <1>6, <3>1
      <3> QED  BY <1>1, <3>1, <3>2 DEF Apart
    <2> QED  BY <2>1, <2>2, <2>3
  <1> QED  BY <1>4, <1>5, <1>6 DEF Apart

\* The removals that are stated, if they are those that were, and new ones.
LEMMA RemovalsMove ==
    ASSUME NEW dropped,
           \A n \in Machine :
              /\ removed'[n] \in RemovalTimes \cup dropped
              /\ record'[n].removed \in RemovalTimes \cup dropped
              /\ \A k \in Machine : held'[n][k].removed \in RemovalTimes \cup dropped
              /\ \A i \in DOMAIN sync'[n].drops :
                    sync'[n].drops[i].at \in RemovalTimes \cup dropped,
           0 \in RemovalTimes
    PROVE  RemovalTimes' \subseteq RemovalTimes \cup dropped
  <1> SUFFICES ASSUME NEW t \in RemovalTimes'  PROVE t \in RemovalTimes \cup dropped
    OBVIOUS
  <1>1. \/ t = 0
        \/ \E n \in Machine : t = removed'[n]
        \/ \E n \in Machine : t = record'[n].removed
        \/ \E n, k \in Machine : t = held'[n][k].removed
        \/ \E n \in Machine : \E i \in DOMAIN sync'[n].drops : t = sync'[n].drops[i].at
    BY DEF RemovalTimes
  <1> QED  BY <1>1

\* What a list of entries keeps of the times of another, and adds.
TimedFrom(new, old, made) ==
    \A i \in DOMAIN new : new[i].at \in made \/ \E j \in DOMAIN old : new[i].at = old[j].at

LEMMA EntriesMove ==
    ASSUME DirectoryInv, NEW m \in Machine, NEW list, NEW made,
           entries' = [entries EXCEPT ![m] = list], TimedFrom(list, entries[m], made)
    PROVE  EntryTimes' \subseteq EntryTimes \cup made
  <1> SUFFICES ASSUME NEW t \in EntryTimes'  PROVE t \in EntryTimes \cup made
    OBVIOUS
  <1>1. PICK n \in Machine : \E i \in DOMAIN entries'[n] : t = entries'[n][i].at
    BY DEF EntryTimes
  <1>2. t \in Nat \ {0}
    BY DEF EntryTimes
  <1>3. entries'[n] = IF n = m THEN list ELSE entries[n]
    BY DEF DirectoryInv, DirectoryTypeOK
  <1>4. CASE n = m
    BY <1>1, <1>2, <1>3, <1>4 DEF TimedFrom, EntryTimes
  <1>5. CASE n # m
    BY <1>1, <1>2, <1>3, <1>5 DEF EntryTimes
  <1> QED  BY <1>4, <1>5

LEMMA WithoutIsTimed ==
    ASSUME NEW list, IsIndex(list), NEW p
    PROVE  TimedFrom(Without(list, p), list, {})
  <1> DEFINE places == {i \in DOMAIN list : list[i].path # p}
             kept == Kept(list, places)
  <1>1. list \in Seq(Entry) /\ Without(list, p) = kept /\ places \subseteq DOMAIN list
    BY DEF IsIndex, Without
  <1> HIDE DEF places
  <1>2. PICK from \in [DOMAIN kept -> places] :
           \A k \in DOMAIN kept : kept[k] = list[from[k]]
    BY <1>1, KeptFrom
  <1> HIDE DEF kept
  <1>3. \A k \in DOMAIN kept : from[k] \in DOMAIN list
    BY <1>1, <1>2
  <1>4. \A k \in DOMAIN kept : \E j \in DOMAIN list : kept[k].at = list[j].at
    BY <1>2, <1>3
  <1> QED  BY <1>1, <1>4 DEF TimedFrom

LEMMA RegisteredIsTimed ==
    ASSUME NEW list, IsIndex(list), NEW p \in Path, NEW at \in Nat \ {0}, NEW made,
           at \in made \/ \E j \in DOMAIN list : at = list[j].at
    PROVE  TimedFrom(Append(Without(list, p), [path |-> p, at |-> at]), list, made)
  <1> DEFINE rest == Without(list, p)
             new == [path |-> p, at |-> at]
  <1>1. rest \in Seq(Entry) /\ TimedFrom(rest, list, {})
    BY WithoutIsIndex, WithoutIsTimed DEF IsIndex
  <1>2. new \in Entry /\ new.at = at
    BY DEF Entry
  <1> HIDE DEF rest, new
  <1> DEFINE more == Append(rest, new)
  <1>3. /\ DOMAIN more = 1..Len(rest) + 1 /\ Len(rest) \in Nat /\ DOMAIN rest = 1..Len(rest)
        /\ \A i \in DOMAIN rest : more[i] = rest[i]
        /\ more[Len(rest) + 1] = new
    BY <1>1, <1>2
  <1> HIDE DEF more
  <1>4. \A i \in DOMAIN more : i \in DOMAIN rest \/ i = Len(rest) + 1
    BY <1>3
  <1>5. \A i \in DOMAIN more : more[i].at \in made \/ \E j \in DOMAIN list : more[i].at = list[j].at
    BY <1>1, <1>2, <1>3, <1>4 DEF TimedFrom
  <1> QED  BY <1>5 DEF TimedFrom, more, rest, new

\* A synchronisation has no more to drop than before.
SyncsShrink ==
    \A n \in Machine : \A i \in DOMAIN sync'[n].drops :
       \E j \in DOMAIN sync[n].drops : sync'[n].drops[i].at = sync[n].drops[j].at

\* One machine changes its index.
LEMMA RemovalsOfIndex ==
    ASSUME DirectoryInv, NEW m \in Machine, NEW at, NEW dropped,
           UNCHANGED <<record, held>>, SyncsShrink,
           removed' = [removed EXCEPT ![m] = at], at \in RemovalTimes \cup dropped
    PROVE  RemovalTimes' \subseteq RemovalTimes \cup dropped
  <1>1. ASSUME NEW n \in Machine
        PROVE  /\ removed'[n] \in RemovalTimes \cup dropped
               /\ record'[n].removed \in RemovalTimes \cup dropped
               /\ \A k \in Machine : held'[n][k].removed \in RemovalTimes \cup dropped
    <2>1. removed'[n] = IF n = m THEN at ELSE removed[n]
      BY DEF DirectoryInv, DirectoryTypeOK
    <2> QED  BY <2>1, TimesAre
  <1>2. ASSUME NEW n \in Machine, NEW i \in DOMAIN sync'[n].drops
        PROVE  sync'[n].drops[i].at \in RemovalTimes \cup dropped
    <2>1. PICK j \in DOMAIN sync[n].drops : sync'[n].drops[i].at = sync[n].drops[j].at
      BY <1>2 DEF SyncsShrink
    <2> QED  BY <2>1, TimesAre
  <1>3. 0 \in RemovalTimes
    BY TimesAre
  <1> QED  BY <1>1, <1>2, <1>3, RemovalsMove

LEMMA RegisteringApart ==
    ASSUME DirectoryInv, Apart, NEW m \in Machine, NEW p \in Path,
           RegisterMachinePigeon(m, p), UNCHANGED <<removed, record, held, deeds>>, SyncsShrink
    PROVE  Apart'
  <1> DEFINE known == {i \in DOMAIN entries[m] : entries[m][i].path = p}
             at    == IF known = {} THEN Now + 1 ELSE entries[m][CHOOSE i \in known : TRUE].at
             list  == Append(Without(entries[m], p), [path |-> p, at |-> at])
  <1>1. RemovalTimes' \subseteq RemovalTimes \cup {}
    BY RemovalsOfIndex, IndexOf, TimesAre
  <1>2. CASE UNCHANGED entries
    <2>1. EntryTimes' = EntryTimes
      BY <1>2 DEF EntryTimes
    <2> QED  BY <1>1, <2>1, StaysApart
  <1>3. CASE entries' = [entries EXCEPT ![m] = list]
    <2>1. known = {} => at \in {Now + 1}
      OBVIOUS
    <2>2. known # {} => \E j \in DOMAIN entries[m] : at = entries[m][j].at
      OBVIOUS
    <2>3. at \in Nat \ {0}
      <3>1. \A i \in DOMAIN entries[m] : entries[m][i].at \in Nat \ {0}
        BY TimesAre DEF EntryTimes
      <3>2. Now + 1 \in Nat \ {0}
        BY IndexOf
      <3> HIDE DEF at
      <3> QED  BY <2>1, <2>2, <3>1, <3>2
    <2>4. IsIndex(entries[m])
      BY IndexOf
    <2> HIDE DEF at, known
    <2>5. TimedFrom(list, entries[m], {Now + 1})
      BY <2>1, <2>2, <2>3, <2>4, RegisteredIsTimed
    <2> HIDE DEF list
    <2>6. EntryTimes' \subseteq EntryTimes \cup {Now + 1}
      BY <1>3, <2>5, EntriesMove
    <2> QED  BY <1>1, <2>6, StaysApart
  <1> HIDE DEF list
  <1>4. RegisterMachinePigeon(m, p) =>
           IF removed[m] # 0 THEN UNCHANGED entries
                             ELSE entries' = [entries EXCEPT ![m] = list]
    BY DEF RegisterMachinePigeon, list
  <1> QED  BY <1>2, <1>3, <1>4

LEMMA UnregisteringApart ==
    ASSUME DirectoryInv, NEW m \in Machine, NEW p, NEW at, NEW dropped,
           UnregisterMachinePigeon(m, p, at), at \in RemovalTimes \cup dropped,
           UNCHANGED <<record, held>>, SyncsShrink
    PROVE  /\ EntryTimes' \subseteq EntryTimes \cup {}
           /\ RemovalTimes' \subseteq RemovalTimes \cup dropped
  <1>1. EntryTimes' \subseteq EntryTimes \cup {}
    <2>1. entries' = [entries EXCEPT ![m] = Without(entries[m], p)]
      BY DEF UnregisterMachinePigeon
    <2>2. TimedFrom(Without(entries[m], p), entries[m], {})
      BY IndexOf, WithoutIsTimed
    <2> QED  BY <2>1, <2>2, EntriesMove
  <1>2. PICK t \in RemovalTimes \cup dropped : removed' = [removed EXCEPT ![m] = t]
    <2>1. removed[m] \in RemovalTimes
      BY TimesAre
    <2> QED  BY <2>1 DEF UnregisterMachinePigeon
  <1>3. RemovalTimes' \subseteq RemovalTimes \cup dropped
    BY <1>2, RemovalsOfIndex
  <1> QED  BY <1>1, <1>3

LEMMA DeedsApart ==
    ASSUME DirectoryInv, Apart, NEW m \in Machine, NEW p \in Path,
           Watch(m, p) \/ Unwatch(m, p) \/ TombstoneMachinePigeon(m) \/ DropVanished(m, p)
    PROVE  Apart'
  <1>1. UNCHANGED <<record, held, sync>> /\ deeds' = deeds + 1
    BY DEF Watch, Unwatch, TombstoneMachinePigeon, DropVanished, Does
  <1>2. SyncsShrink
    BY <1>1 DEF SyncsShrink
  <1>3. CASE Watch(m, p)
    <2> DEFINE list == Append(Without(entries[m], p), [path |-> p, at |-> Now + 2])
    <2>1. TimedFrom(list, entries[m], {Now + 2})
      BY IndexOf, RegisteredIsTimed
    <2>2. entries' = [entries EXCEPT ![m] = list] /\ removed' = [removed EXCEPT ![m] = 0]
      BY <1>3 DEF Watch
    <2> HIDE DEF list
    <2>3. EntryTimes' \subseteq EntryTimes \cup {Now + 2}
      BY <2>1, <2>2, EntriesMove
    <2>4. RemovalTimes' \subseteq RemovalTimes \cup {}
      BY <1>1, <1>2, <2>2, RemovalsOfIndex, TimesAre
    <2> QED  BY <1>1, <2>3, <2>4, StaysApart
  <1>4. CASE Unwatch(m, p)
    <2>1. UnregisterMachinePigeon(m, p, Now + 2)
      BY <1>4 DEF Unwatch
    <2>2. /\ EntryTimes' \subseteq EntryTimes \cup {}
          /\ RemovalTimes' \subseteq RemovalTimes \cup {Now + 2}
      BY <1>1, <1>2, <2>1, UnregisteringApart
    <2> QED  BY <1>1, <2>2, StaysApart
  <1>5. CASE TombstoneMachinePigeon(m)
    <2>1. entries' = [entries EXCEPT ![m] = <<>>] /\ removed' = [removed EXCEPT ![m] = Now + 2]
      BY <1>5 DEF TombstoneMachinePigeon
    <2>2. TimedFrom(<<>>, entries[m], {})
      BY DEF TimedFrom
    <2>3. EntryTimes' \subseteq EntryTimes \cup {}
      BY <2>1, <2>2, EntriesMove
    <2>4. RemovalTimes' \subseteq RemovalTimes \cup {Now + 2}
      BY <1>1, <1>2, <2>1, RemovalsOfIndex
    <2> QED  BY <1>1, <2>3, <2>4, StaysApart
  <1>6. CASE DropVanished(m, p)
    <2>1. entries' = [entries EXCEPT ![m] = Without(entries[m], p)] /\ removed' = removed
      BY <1>6 DEF DropVanished
    <2>2. TimedFrom(Without(entries[m], p), entries[m], {})
      BY IndexOf, WithoutIsTimed
    <2>3. EntryTimes' \subseteq EntryTimes \cup {}
      BY <2>1, <2>2, EntriesMove
    <2>4. RemovalTimes' \subseteq RemovalTimes \cup {}
      BY <1>1, <1>2, <2>1, RemovalsOfIndex, IndexOf, TimesAre
    <2> QED  BY <1>1, <2>3, <2>4, StaysApart
  <1> QED  BY <1>3, <1>4, <1>5, <1>6

\* What the services do with the index, and with what they publish and read.
LEMMA ServicesApart ==
    ASSUME DirectoryInv, Apart, NEW m \in Machine,
           \/ \E p \in Path : LaunchSession(m, p) \/ SessionOpen(m, p) \/ StopSession(m, p)
           \/ Publish(m) \/ SyncDrops(m) \/ SyncLooks(m) \/ Materialize(m)
           \/ \E arrived \in SUBSET (Machine \ {m}) : SyncReads(m, arrived)
    PROVE  Apart'
  <1>0. deeds' = deeds
    BY DEF LaunchSession, SessionOpen, StopSession, Publish, SyncDrops, SyncLooks, Materialize,
           SyncReads
  <1>1. CASE \E p \in Path : LaunchSession(m, p) \/ SessionOpen(m, p) \/ StopSession(m, p)
    <2>1. PICK p \in Path : LaunchSession(m, p) \/ SessionOpen(m, p) \/ StopSession(m, p)
      BY <1>1
    <2>2. UNCHANGED <<removed, record, held, sync, deeds>>
      BY <2>1 DEF LaunchSession, SessionOpen, StopSession
    <2>3. SyncsShrink
      BY <2>2 DEF SyncsShrink
    <2>4. CASE RegisterMachinePigeon(m, p)
      BY <2>2, <2>3, <2>4, RegisteringApart
    <2>5. CASE UNCHANGED entries
      <3>1. EntryTimes' = EntryTimes /\ RemovalTimes' = RemovalTimes
        BY <2>2, <2>5 DEF EntryTimes, RemovalTimes
      <3> QED  BY <1>0, <3>1, StaysApart
    <2> QED  BY <2>1, <2>4, <2>5 DEF LaunchSession, SessionOpen, StopSession
  <1>2. CASE Publish(m)
    <2> DEFINE told == PublisherDirectoryValue(m)
    <2>1. told.removed \in RemovalTimes
      BY TimesAre DEF PublisherDirectoryValue
    <2>2. /\ record' = [record EXCEPT ![m] = told]
          /\ UNCHANGED <<entries, removed, held, sync>>
      BY <1>2 DEF Publish
    <2> HIDE DEF told
    <2>3. \A n \in Machine : record'[n] = IF n = m THEN told ELSE record[n]
      BY <2>2 DEF DirectoryInv, DirectoryTypeOK
    <2>4. RemovalTimes' \subseteq RemovalTimes \cup {}
      BY <2>1, <2>2, <2>3, TimesAre, RemovalsMove
    <2>5. EntryTimes' = EntryTimes
      BY <2>2 DEF EntryTimes
    <2> QED  BY <1>0, <2>4, <2>5, StaysApart
  <1>3. CASE SyncDrops(m)
    <2> DEFINE drops == sync[m].drops
    <2>1. /\ drops \in Seq(Drop) /\ drops # <<>>
          /\ sync' = [sync EXCEPT ![m] = [sync[m] EXCEPT !.drops = Tail(drops)]]
          /\ UnregisterMachinePigeon(m, Head(drops).path, Head(drops).at)
          /\ UNCHANGED <<record, held>>
      BY <1>3, TimesAre DEF SyncDrops
    <2>2. sync \in [Machine -> Syncs]
      BY DEF DirectoryInv, DirectoryTypeOK
    <2>3. sync'[m].drops = Tail(drops) /\ \A n \in Machine \ {m} : sync'[n] = sync[n]
      BY <2>1, <2>2 DEF Syncs
    <2>4. \A i \in DOMAIN Tail(drops) : i + 1 \in DOMAIN drops /\ Tail(drops)[i] = drops[i + 1]
      <3> HIDE DEF drops
      <3> QED  BY <2>1
    <2>5. SyncsShrink
      <3>1. ASSUME NEW n \in Machine, NEW i \in DOMAIN sync'[n].drops
            PROVE  \E j \in DOMAIN sync[n].drops : sync'[n].drops[i].at = sync[n].drops[j].at
        <4>1. CASE n = m
          <5>1. i \in DOMAIN Tail(drops) /\ sync'[n].drops[i] = Tail(drops)[i]
            BY <2>3, <3>1, <4>1
          <5>2. i + 1 \in DOMAIN sync[n].drops /\ sync'[n].drops[i].at = sync[n].drops[i + 1].at
            BY <2>4, <4>1, <5>1
          <5> QED  BY <5>2
        <4>2. CASE n # m
          BY <2>3, <3>1, <4>2
        <4> QED  BY <4>1, <4>2
      <3> QED  BY <3>1 DEF SyncsShrink
    <2>6. Head(drops) = drops[1] /\ 1 \in DOMAIN drops
      <3> HIDE DEF drops
      <3> QED  BY <2>1
    <2>7. Head(drops).at \in RemovalTimes \cup {}
      BY <2>6, TimesAre
    <2> HIDE DEF drops
    <2>8. /\ EntryTimes' \subseteq EntryTimes \cup {}
          /\ RemovalTimes' \subseteq RemovalTimes \cup {}
      BY <2>1, <2>5, <2>7, UnregisteringApart
    <2> QED  BY <1>0, <2>8, StaysApart
  <1>4. CASE SyncLooks(m) \/ Materialize(m)
    <2>1. UNCHANGED <<removed, record, held>>
      BY <1>4 DEF SyncLooks, Materialize
    <2>2. PICK s \in {Waiting, [Waiting EXCEPT !.phase = "clone"]} :
             sync' = [sync EXCEPT ![m] = s]
      BY <1>4 DEF SyncLooks, Materialize
    <2>3. s.drops = <<>>
      BY <2>2 DEF Waiting
    <2>4. SyncsShrink
      BY <2>2, <2>3 DEF SyncsShrink, DirectoryInv, DirectoryTypeOK
    <2>5. CASE Materialize(m)
      <3>1. RegisterMachinePigeon(m, Target) /\ Target \in Path
        BY <2>5, DirectoryAssumption DEF Materialize
      <3> QED  BY <1>0, <2>1, <2>4, <3>1, RegisteringApart
    <2>6. CASE UNCHANGED entries
      <3>1. EntryTimes' = EntryTimes
        BY <2>6 DEF EntryTimes
      <3>2. RemovalTimes' \subseteq RemovalTimes \cup {}
        BY <2>1, <2>4, RemovalsOfIndex, IndexOf, TimesAre
      <3> QED  BY <1>0, <3>1, <3>2, StaysApart
    <2> QED  BY <1>4, <2>5, <2>6 DEF SyncLooks
  <1>5. CASE \E arrived \in SUBSET (Machine \ {m}) : SyncReads(m, arrived)
    <2>1. PICK arrived \in SUBSET (Machine \ {m}) : SyncReads(m, arrived)
      BY <1>5
    <2> DEFINE known == [n \in Machine |-> IF n \in arrived THEN record[n] ELSE held[m][n]]
               drops == Drops(m, known)
               next  == [phase |-> "drop", drops |-> drops, alive |-> IsAlive(m, known)]
    <2>2. \A n \in Machine : known[n] \in Record /\ known[n].removed \in RemovalTimes
      BY TimesAre DEF DirectoryInv, DirectoryTypeOK
    <2>3. known \in [Machine -> Record]
      BY <2>2
    <2>4. /\ held' = [held EXCEPT ![m] = known] /\ sync' = [sync EXCEPT ![m] = next]
          /\ UNCHANGED <<entries, removed, record>>
      BY <2>1 DEF SyncReads
    <2> HIDE DEF known
    <2>5. RemovedElsewhere(m, known) \in RemovalTimes /\ removed[m] \in RemovalTimes
      BY <2>2, <2>3, LatestElsewhere, TimesAre
    <2>6. \A i \in DOMAIN drops : drops[i].at \in RemovalTimes
      BY <2>3, <2>5, DropsAre
    <2> HIDE DEF drops
    <2>7. ASSUME NEW n \in Machine
          PROVE  /\ held'[n] = IF n = m THEN known ELSE held[n]
                 /\ sync'[n].drops = IF n = m THEN drops ELSE sync[n].drops
      BY <2>4 DEF DirectoryInv, DirectoryTypeOK
    <2>8. ASSUME NEW n \in Machine
          PROVE  /\ \A k \in Machine : held'[n][k].removed \in RemovalTimes
                 /\ \A i \in DOMAIN sync'[n].drops : sync'[n].drops[i].at \in RemovalTimes
                 /\ removed'[n] \in RemovalTimes /\ record'[n].removed \in RemovalTimes
      BY <2>2, <2>4, <2>6, <2>7, TimesAre
    <2>9. 0 \in RemovalTimes
      BY TimesAre
    <2>10. RemovalTimes' \subseteq RemovalTimes \cup {}
      BY <2>8, <2>9, RemovalsMove
    <2>11. EntryTimes' = EntryTimes
      BY <2>4 DEF EntryTimes
    <2> QED  BY <1>0, <2>10, <2>11, StaysApart
  <1> QED  BY <1>1, <1>2, <1>3, <1>4, <1>5

LEMMA ApartKept ==
    ASSUME DirectoryInv, Apart, [DirectoryNext]_dvars
    PROVE  Apart'
  <1>1. CASE UNCHANGED dvars
    <2>1. EntryTimes' = EntryTimes /\ RemovalTimes' = RemovalTimes /\ deeds' = deeds
      BY <1>1 DEF dvars, EntryTimes, RemovalTimes
    <2> QED  BY <2>1, StaysApart
  <1>2. CASE DirectoryNext
    <2>1. PICK m \in Machine :
             \/ \E p \in Path : \/ Watch(m, p) \/ Unwatch(m, p) \/ DropVanished(m, p)
                                \/ LaunchSession(m, p) \/ SessionOpen(m, p)
                                \/ StopSession(m, p)
             \/ TombstoneMachinePigeon(m) \/ Publish(m)
             \/ \E arrived \in SUBSET (Machine \ {m}) : SyncReads(m, arrived)
             \/ SyncDrops(m) \/ SyncLooks(m) \/ Materialize(m)
      BY <1>2 DEF DirectoryNext
    <2>2. CASE \E p \in Path : \/ Watch(m, p) \/ Unwatch(m, p) \/ DropVanished(m, p)
                               \/ TombstoneMachinePigeon(m)
      BY <2>2, DeedsApart
    <2>3. CASE TombstoneMachinePigeon(m)
      BY <2>3, DeedsApart, DirectoryAssumption
    <2> QED  BY <2>1, <2>2, <2>3, ServicesApart
  <1> QED  BY <1>1, <1>2

LEMMA ApartBegins == DirectoryInit => Apart
  <1> SUFFICES ASSUME DirectoryInit  PROVE Apart
    OBVIOUS
  <1>1. EntryTimes = {}
    BY DEF DirectoryInit, EntryTimes
  <1>2. RemovalTimes = {0}
    BY DEF DirectoryInit, RemovalTimes, Unset, Waiting
  <1>3. Now = 0 /\ 0 = 2 * 0
    BY DEF DirectoryInit, Now
  <1> QED  BY <1>1, <1>2, <1>3 DEF Apart

LEMMA HeldAtRest ==
    ASSUME \A k \in Machine : DirectoryRests(k), NEW m \in Machine, NEW n \in Machine, n # m
    PROVE  /\ entries[n] = <<>> => held[m][n].removed = removed[n]
           /\ entries[n] # <<>> => held[m][n].at = entries[n][1].at /\ held[m][n].removed = 0
  <1>1. held[m][n] = record[n]
    BY DEF DirectoryRests
  <1>2. record[n] = PublisherDirectoryValue(n)
    BY DEF DirectoryRests
  <1> QED  BY <1>1, <1>2 DEF PublisherDirectoryValue

\* At rest: a removal that a machine recorded is stated to the others, none of which would
\* have kept an entry from before it.
LEMMA NewerThanRemovals ==
    ASSUME DirectoryInv, Apart, \A k \in Machine : DirectoryRests(k),
           NEW m \in Machine, NEW n \in Machine, entries[m] # <<>>
    PROVE  entries[m][1].at > removed[n]
  <1> DEFINE at == entries[m][1].at
  <1>1. at \in EntryTimes /\ at \in Nat \ {0} /\ removed[n] \in RemovalTimes /\ removed[n] \in Nat
    <2>1. 1 \in DOMAIN entries[m]
      BY TimesAre
    <2> QED  BY <2>1, TimesAre DEF EntryTimes, RemovalTimes
  <1>2. at # removed[n]
    BY <1>1 DEF Apart
  <1> HIDE DEF at
  <1>3. CASE removed[n] = 0
    BY <1>1, <1>3 DEF at
  <1>4. CASE removed[n] # 0
    <2>1. entries[n] = <<>> /\ n # m
      BY <1>4, IndexOf
    <2>2. held[m][n].removed = removed[n]
      BY <2>1, HeldAtRest
    <2>3. held[m] \in [Machine -> Record]
      BY DEF DirectoryInv, DirectoryTypeOK
    <2>4. /\ removed[n] <= RemovedElsewhere(m, held[m])
          /\ RemovedElsewhere(m, held[m]) \in Nat
      BY <2>1, <2>2, <2>3, LatestElsewhere
    <2>5. at >= RemovedElsewhere(m, held[m])
      BY <2>3, DropsAre DEF DirectoryRests, at
    <2>6. at > removed[n]
      BY <1>1, <1>2, <2>4, <2>5
    <2> QED  BY <2>6 DEF at
  <1> QED  BY <1>3, <1>4

LEMMA IndexesAgreeAtRest ==
    ASSUME DirectoryInv, Apart, \A k \in Machine : DirectoryRests(k),
           NEW m \in Machine, NEW n \in Machine, entries[m] # <<>>, removed[n] = 0
    PROVE  entries[n] # <<>>
  <1> SUFFICES ASSUME entries[n] = <<>>  PROVE FALSE
    OBVIOUS
  <1> DEFINE r == RemovedElsewhere(n, held[n])
             at == entries[m][1].at
  <1>1. held[n] \in [Machine -> Record] /\ n # m
    BY DEF DirectoryInv, DirectoryTypeOK
  <1>2. held[n][m].at = at
    BY <1>1, HeldAtRest
  <1>3. \A k \in Machine \ {n} : held[n][k].removed \in {0, removed[k]}
    BY HeldAtRest
  <1>4. at \in Nat /\ at > 0
    <2>1. 1 \in DOMAIN entries[m]
      BY TimesAre
    <2> QED  BY <2>1, TimesAre DEF EntryTimes
  <1>5. r \in Nat /\ (r = 0 \/ \E k \in Machine : r = removed[k])
    BY <1>1, <1>3, LatestElsewhere
  <1> HIDE DEF r
  <1>6. at > r
    BY <1>4, <1>5, NewerThanRemovals
  <1>7. Max({removed[n], r}) = r
    <2>1. r \in {removed[n], r} /\ \A y \in {removed[n], r} : r >= y
      BY <1>5
    <2>2. \A x \in {removed[n], r} : (\A y \in {removed[n], r} : x >= y) => x = r
      BY <1>5
    <2> QED  BY <2>1, <2>2 DEF Max
  <1>8. IsAlive(n, held[n])
    BY <1>1, <1>2, <1>6, <1>7 DEF IsAlive, r
  <1> QED  BY <1>8 DEF DirectoryRests

\* When the machines of a fleet have told each other what they know and have nothing left to
\* do, no entry that stands for a repository is older than a removal that any of them
\* recorded, and each that recorded none has the repository that another has, for any number
\* of machines, paths and deeds and in any order of commands, sessions and synchronisations.
THEOREM RestingIndexesAgreeAlways == DirectorySpec => []RestingIndexesAgree
  <1>1. DirectoryInv /\ Apart /\ [DirectoryNext]_dvars => (DirectoryInv /\ Apart)'
    BY DirectoryNextKeeps, ApartKept
  <1>2. DirectoryInit => DirectoryInv /\ Apart
    BY DirectoryBegins, ApartBegins
  <1>3. DirectoryInv /\ Apart => RestingIndexesAgree
    BY NewerThanRemovals, IndexesAgreeAtRest DEF RestingIndexesAgree
  <1> QED  BY <1>1, <1>2, <1>3, PTL DEF DirectorySpec

-----------------------------------------------------------------------------
\* TerminalHistory.

\* The lines that h has, has read or is writing.
LinesOf(h) == lines[h] \cup history[h].lines \cup UNION writing[h]
Timed(known) == \A k, l \in known : k.at = l.at => k = l

\* One line at most was typed at a time.
OneAtATime ==
    /\ \A h \in Host : \A l \in LinesOf(h) : l.at <= commands
    /\ \A g, h \in Host : \A k \in LinesOf(g), l \in LinesOf(h) : k.at = l.at => k = l
Records == [ver : Nat, by : Nat, lines : SUBSET Line]
HistoryMaps ==
    /\ lines \in [Host -> SUBSET Line] /\ history \in [Host -> Records]
    /\ upserts \in [Host -> Nat] /\ publishes \in [Host -> Nat]
    /\ writing \in [Host -> SUBSET SUBSET Line]
HistoryInv == HistoryTypeOK /\ HistoryMaps /\ OneAtATime

\* What merge keeps: lines that were known, and not more than the limit.
LEMMA NewestIsFew ==
    ASSUME NEW known \in SUBSET Line, Timed(known)
    PROVE  Newest(known) \in SUBSET known /\ Cardinality(Newest(known)) <= HistoryLimit
  <1> DEFINE N == Newest(known)
             at == [l \in known |-> l.at]
             Early == {0 - l.at : l \in N}
  <1>1. N \in SUBSET known
    BY DEF Newest
  <1>2. MaxCommands \in Nat /\ HistoryLimit \in Nat \ {0}
    BY HistoryAssumption
  <1>3. \A l \in known : l.at \in 1 .. MaxCommands
    BY DEF Line
  <1>4. IsFiniteSet(known)
    <2>1. at \in Injection(known, 1 .. MaxCommands)
      BY <1>3 DEF Timed, Injection, IsInjective
    <2>2. IsFiniteSet(1 .. MaxCommands)
      BY <1>2, FS_Interval
    <2> HIDE DEF at
    <2> QED  BY <2>1, <2>2, FS_Injection
  <1>5. IsFiniteSet(N) /\ Cardinality(N) \in Nat
    BY <1>1, <1>4, FS_Subset, FS_CardinalityType
  <1>6. CASE N = {}
    BY <1>1, <1>2, <1>6, FS_EmptySet
  <1>7. CASE N # {}
    <2>1. Early \subseteq (0 - MaxCommands) .. 0 /\ Early # {} /\ Early \subseteq Int
      BY <1>1, <1>2, <1>3, <1>7
    <2>2. IsFiniteSet(Early)
      <3>1. 0 - MaxCommands \in Int
        BY <1>2
      <3>2. IsFiniteSet((0 - MaxCommands) .. 0)
        BY <3>1, FS_Interval
      <3> HIDE DEF Early
      <3> QED  BY <2>1, <3>2, FS_Subset
    <2>3. PICK e \in Early : \A f \in Early : f <= e
      BY <2>1, <2>2, GreatestExists
    <2>4. PICK m \in N : e = 0 - m.at
      BY <2>3
    <2>5. \A l \in N : m.at <= l.at
      <3> SUFFICES ASSUME NEW l \in N  PROVE m.at <= l.at
        OBVIOUS
      <3>1. 0 - l.at <= 0 - m.at
        BY <2>3, <2>4
      <3>2. l.at \in Int /\ m.at \in Int
        BY <1>1, <1>3
      <3> QED  BY <3>1, <3>2
    <2> DEFINE Later == {l \in known : l.at > m.at}
    <2>6. N \ {m} \in SUBSET Later
      <3> SUFFICES ASSUME NEW l \in N, l # m  PROVE l.at > m.at
        BY <1>1
      <3>1. l.at # m.at /\ l.at \in Int /\ m.at \in Int
        BY <1>1, <1>3 DEF Timed
      <3> QED  BY <2>5, <3>1
    <2>7. IsFiniteSet(Later) /\ Cardinality(Later) \in Nat
      BY <1>4, FS_Subset, FS_CardinalityType
    <2>8. Cardinality(Later) < HistoryLimit
      BY DEF Newest
    <2> HIDE DEF Later, N
    <2>9. Cardinality(N \ {m}) <= Cardinality(Later)
      BY <2>6, <2>7, FS_Subset
    <2>10. Cardinality(N \ {m}) = Cardinality(N) - 1
      BY <1>5, <2>4, FS_RemoveElement
    <2> QED  BY <1>1, <1>2, <1>5, <2>7, <2>8, <2>9, <2>10 DEF N
  <1> QED  BY <1>6, <1>7

\* What one host has, has read or is writing was typed at times of its own.
LEMMA OwnLinesAreTimed ==
    ASSUME HistoryInv, NEW h \in Host, NEW known \in SUBSET LinesOf(h)
    PROVE  Timed(known) /\ known \in SUBSET Line
  <1>1. Timed(known)
    BY DEF HistoryInv, OneAtATime, Timed
  <1>2. history[h].lines \in SUBSET Line
    BY DEF HistoryInv, HistoryMaps, Records
  <1> QED  BY <1>1, <1>2 DEF HistoryInv, HistoryMaps, LinesOf

LEMMA HistoryBegins == HistoryInit => HistoryInv
  <1> SUFFICES ASSUME HistoryInit  PROVE HistoryInv
    OBVIOUS
  <1>1. HistoryMaps
    BY DEF HistoryInit, HistoryMaps, Records
  <1>2. \A h \in Host : LinesOf(h) = {} /\ lines[h] = {} /\ writing[h] = {}
    BY DEF HistoryInit, LinesOf
  <1>3. HistoryTypeOK
    BY <1>1, <1>2, HistoryAssumption, FS_EmptySet DEF HistoryInit, HistoryTypeOK, HistoryMaps,
       Records
  <1> QED  BY <1>1, <1>2, <1>3 DEF HistoryInv, OneAtATime

\* A step of h leaves h such tables, with no line but those that a host had and new ones.
Leaves(h, mine, copy, puts, reads, due) ==
    /\ lines' = [lines EXCEPT ![h] = mine] /\ history' = [history EXCEPT ![h] = copy]
    /\ writing' = [writing EXCEPT ![h] = puts] /\ upserts' = [upserts EXCEPT ![h] = reads]
    /\ publishes' = [publishes EXCEPT ![h] = due]
    /\ mine \in SUBSET Line /\ copy \in Records /\ puts \in SUBSET SUBSET Line
    /\ reads \in Nat /\ due \in Nat
    /\ Cardinality(mine) <= HistoryLimit
    /\ Cardinality(puts) <= 1 /\ (puts # {} => due > 0)
Adds(new, mine, copy, puts) ==
    /\ commands' \in 0 .. MaxCommands /\ commands <= commands' /\ restarts' \in 0 .. MaxRestarts
    /\ new \in SUBSET Line /\ Timed(new)
    /\ \A l \in new : l.at = commands' /\ l.at > commands
    /\ \A l \in mine \cup copy.lines \cup UNION puts :
           l \in new \/ \E g \in Host : l \in LinesOf(g)

LEMMA HistoryStepKeeps ==
    ASSUME HistoryInv, NEW h \in Host, NEW mine, NEW copy, NEW puts, NEW reads, NEW due, NEW new,
           Leaves(h, mine, copy, puts, reads, due), Adds(new, mine, copy, puts)
    PROVE  HistoryInv'
  <1> USE DEF Leaves, Adds
  <1>1. HistoryMaps'
    BY DEF HistoryInv, HistoryMaps
  <1>2. /\ lines'[h] = mine /\ history'[h] = copy /\ writing'[h] = puts
        /\ upserts'[h] = reads /\ publishes'[h] = due
        /\ \A g \in Host : g # h =>
              /\ lines'[g] = lines[g] /\ history'[g] = history[g] /\ writing'[g] = writing[g]
              /\ upserts'[g] = upserts[g] /\ publishes'[g] = publishes[g]
    BY DEF HistoryInv, HistoryMaps
  <1>3. HistoryTypeOK'
    <2> SUFFICES ASSUME NEW g \in Host
                 PROVE  /\ lines'[g] \subseteq Line /\ Cardinality(lines'[g]) <= HistoryLimit
                        /\ history'[g] \in Records
                        /\ upserts'[g] \in Nat /\ publishes'[g] \in Nat
                        /\ writing'[g] \subseteq SUBSET Line
                        /\ Cardinality(writing'[g]) <= 1
                        /\ writing'[g] # {} => publishes'[g] > 0
      BY DEF HistoryTypeOK, Records
    <2>1. CASE g = h
      BY <1>2, <2>1
    <2>2. CASE g # h
      BY <1>2, <2>2 DEF HistoryInv, HistoryTypeOK, Records
    <2> QED  BY <2>1, <2>2
  <1>4. \A g \in Host : \A l \in LinesOf(g)' : l \in new \/ \E f \in Host : l \in LinesOf(f)
    <2> SUFFICES ASSUME NEW g \in Host, NEW l \in LinesOf(g)'
                 PROVE  l \in new \/ \E f \in Host : l \in LinesOf(f)
      OBVIOUS
    <2>1. CASE g = h
      BY <1>2, <2>1 DEF LinesOf
    <2>2. CASE g # h
      BY <1>2, <2>2 DEF LinesOf
    <2> QED  BY <2>1, <2>2
  <1>5. \A f \in Host : \A l \in LinesOf(f) : l \in Line
    BY OwnLinesAreTimed
  <1>6. commands \in Nat /\ commands' \in Nat /\ \A l \in Line : l.at \in Nat
    BY HistoryAssumption DEF HistoryInv, HistoryTypeOK, Line
  <1>7. ASSUME NEW g \in Host, NEW l \in LinesOf(g)'  PROVE l.at <= commands'
    <2>1. CASE l \in new
      BY <1>6, <2>1
    <2>2. CASE \E f \in Host : l \in LinesOf(f)
      <3>1. l.at <= commands /\ l.at \in Nat
        BY <1>5, <1>6, <2>2 DEF HistoryInv, OneAtATime
      <3> QED  BY <1>6, <3>1
    <2> QED  BY <1>4, <2>1, <2>2
  <1>8. ASSUME NEW f \in Host, NEW g \in Host, NEW k \in LinesOf(f)', NEW l \in LinesOf(g)',
               k.at = l.at
        PROVE  k = l
    <2>1. \A m : (\E e \in Host : m \in LinesOf(e)) => m.at <= commands /\ m.at \in Nat
      BY <1>5, <1>6 DEF HistoryInv, OneAtATime
    <2>2. \/ k \in new /\ l \in new
          \/ (\E e \in Host : k \in LinesOf(e)) /\ (\E e \in Host : l \in LinesOf(e))
      <3>1. \A m \in new : m.at > commands  OBVIOUS
      <3> QED  BY <1>4, <1>6, <1>8, <2>1, <3>1
    <2> QED  BY <1>8, <2>2 DEF Timed, HistoryInv, OneAtATime
  <1> QED  BY <1>1, <1>3, <1>7, <1>8 DEF HistoryInv, OneAtATime

\* What h keeps of its lines and of what it has read.
LEMMA MergedIs ==
    ASSUME HistoryInv, NEW h \in Host
    PROVE  /\ Merged(h, history[h]) \in SUBSET Line
           /\ Merged(h, history[h]) \subseteq LinesOf(h)
           /\ Cardinality(Merged(h, history[h])) <= HistoryLimit
  <1> DEFINE known == lines[h] \cup history[h].lines
  <1>1. known \in SUBSET LinesOf(h)
    BY DEF LinesOf
  <1>2. Timed(known) /\ known \in SUBSET Line
    BY <1>1, OwnLinesAreTimed
  <1>3. Newest(known) \in SUBSET known /\ Cardinality(Newest(known)) <= HistoryLimit
    BY <1>2, NewestIsFew
  <1> QED  BY <1>1, <1>2, <1>3 DEF Merged

\* What a host has, for the steps that leave it.
LEMMA HistoryIs ==
    ASSUME HistoryInv, NEW h \in Host
    PROVE  /\ lines[h] \in SUBSET Line /\ lines = [lines EXCEPT ![h] = lines[h]]
           /\ history[h] \in Records /\ history = [history EXCEPT ![h] = history[h]]
           /\ writing[h] \in SUBSET SUBSET Line /\ writing = [writing EXCEPT ![h] = writing[h]]
           /\ upserts[h] \in Nat /\ upserts = [upserts EXCEPT ![h] = upserts[h]]
           /\ publishes[h] \in Nat /\ publishes = [publishes EXCEPT ![h] = publishes[h]]
           /\ commands \in 0 .. MaxCommands /\ commands \in Nat /\ restarts \in 0 .. MaxRestarts
           /\ Cardinality(lines[h]) <= HistoryLimit /\ Cardinality(writing[h]) <= 1
           /\ writing[h] # {} => publishes[h] > 0
           /\ Cardinality({}) = 0 /\ HistoryLimit \in Nat \ {0}
           /\ \A l \in lines[h] \cup history[h].lines \cup UNION writing[h] : l \in LinesOf(h)
  <1>1. \A S, f : f \in [Host -> S] => f[h] \in S /\ f = [f EXCEPT ![h] = f[h]]
    OBVIOUS
  <1>2. \A l \in lines[h] \cup history[h].lines \cup UNION writing[h] : l \in LinesOf(h)
    BY DEF LinesOf
  <1>3. commands \in Nat
    BY HistoryAssumption DEF HistoryInv, HistoryTypeOK
  <1> QED  BY <1>1, <1>2, <1>3, HistoryAssumption, FS_EmptySet
           DEF HistoryInv, HistoryTypeOK, HistoryMaps

LEMMA TypingKeeps ==
    ASSUME HistoryInv, NEW h \in Host, NEW c \in Command, TypeCommand(h, c)
    PROVE  HistoryInv'
  <1>1. /\ commands' = commands + 1 /\ commands' \in 0 .. MaxCommands /\ commands <= commands'
        /\ UNCHANGED <<history, upserts, writing, restarts>>
    BY HistoryIs, HistoryAssumption DEF TypeCommand
  <1>2. CASE UNCHANGED <<lines, publishes>>
    <2>1. Leaves(h, lines[h], history[h], writing[h], upserts[h], publishes[h])
      BY <1>1, <1>2, HistoryIs DEF Leaves
    <2>2. Adds({}, lines[h], history[h], writing[h])
      BY <1>1, HistoryIs DEF Adds, Timed
    <2> QED  BY <2>1, <2>2, HistoryStepKeeps
  <1> DEFINE line == [at |-> commands + 1, host |-> h, command |-> c]
             known == lines[h] \cup {line}
             mine == Newest(known)
  <1>3. CASE /\ lines' = [lines EXCEPT ![h] = mine]
             /\ publishes' = [publishes EXCEPT ![h] = publishes[h] + 1]
    <2>1. line \in Line /\ line.at = commands' /\ line.at > commands
      BY <1>1, HistoryIs, HistoryAssumption DEF Line
    <2> HIDE DEF line
    <2>2. \A l \in lines[h] : l \in LinesOf(h) /\ l.at <= commands /\ l.at \in Nat /\ l \in Line
      BY HistoryIs, HistoryAssumption DEF HistoryInv, OneAtATime, Line
    <2>3. Timed({line}) /\ Timed(lines[h])
      BY <2>2, OwnLinesAreTimed DEF Timed
    <2>4. \A l \in lines[h] : l.at # line.at
      BY <2>1, <2>2, HistoryIs
    <2>5. Timed(known) /\ known \in SUBSET Line
      BY <2>1, <2>2, <2>3, <2>4 DEF Timed
    <2>6. mine \in SUBSET known /\ Cardinality(mine) <= HistoryLimit
      BY <2>5, NewestIsFew
    <2> HIDE DEF mine
    <2>7. \A l \in mine : l \in {line} \/ l \in LinesOf(h)
      BY <2>2, <2>6
    <2>8. mine \in SUBSET Line /\ publishes[h] + 1 \in Nat /\ publishes[h] + 1 > 0
      BY <2>5, <2>6, HistoryIs
    <2>9. Leaves(h, mine, history[h], writing[h], upserts[h], publishes[h] + 1)
      BY <1>1, <1>3, <2>6, <2>8, HistoryIs DEF Leaves
    <2>10. Adds({line}, mine, history[h], writing[h])
      BY <1>1, <2>1, <2>3, <2>7, HistoryIs DEF Adds
    <2> QED  BY <2>9, <2>10, HistoryStepKeeps
  <1> QED  BY <1>2, <1>3 DEF TypeCommand

\* The other steps of a host, and a record that spreads, make no line.
LEMMA HistoryStepsKeep ==
    ASSUME HistoryInv, NEW h \in Host,
           \/ ReadToPublish(h) \/ Published(h) \/ MergeReplica(h) \/ RestartHistory(h)
           \/ \E g \in Host : Spread(g, h)
    PROVE  HistoryInv'
  <1>0. Timed({}) /\ {} \in SUBSET Line /\ {} \in SUBSET SUBSET Line /\ commands <= commands
    BY HistoryIs DEF Timed
  <1> DEFINE merged == Merged(h, history[h])
  <1>1. /\ merged \in SUBSET Line /\ Cardinality(merged) <= HistoryLimit
        /\ \A l \in merged : l \in LinesOf(h)
    BY MergedIs
  <1> HIDE DEF merged
  <1>2. CASE ReadToPublish(h)
    <2> DEFINE puts == {merged}
    <2>1. /\ lines' = [lines EXCEPT ![h] = merged] /\ writing' = [writing EXCEPT ![h] = puts]
          /\ publishes[h] > 0 /\ UNCHANGED <<commands, history, upserts, publishes, restarts>>
      BY <1>2 DEF ReadToPublish, merged
    <2>2. puts \in SUBSET SUBSET Line /\ Cardinality(puts) <= 1 /\ UNION puts = merged
      BY <1>1, FS_Singleton
    <2> HIDE DEF puts
    <2>3. Leaves(h, merged, history[h], puts, upserts[h], publishes[h])
      BY <1>1, <2>1, <2>2, HistoryIs DEF Leaves
    <2>4. Adds({}, merged, history[h], puts)
      BY <1>0, <1>1, <2>1, <2>2, HistoryIs DEF Adds
    <2> QED  BY <2>3, <2>4, HistoryStepKeeps
  <1>3. CASE Published(h)
    <2> PICK written \in writing[h] : history' = [history EXCEPT
                 ![h] = [ver |-> history[h].ver + 1, by |-> h, lines |-> written]]
      BY <1>3 DEF Published
    <2> DEFINE copy == [ver |-> history[h].ver + 1, by |-> h, lines |-> written]
    <2>1. copy \in Records /\ copy.lines = written
      BY HistoryIs, HistoryAssumption DEF Records
    <2>2. history' = [history EXCEPT ![h] = copy]
      OBVIOUS
    <2> HIDE DEF copy
    <2>3. /\ writing' = [writing EXCEPT ![h] = {}]
          /\ publishes' = [publishes EXCEPT ![h] = publishes[h] - 1]
          /\ UNCHANGED <<commands, lines, upserts, restarts>>
      BY <1>3 DEF Published
    <2>4. publishes[h] - 1 \in Nat
      <3>1. publishes[h] \in Nat /\ publishes[h] > 0
        BY HistoryIs
      <3> QED  BY <3>1
    <2> DEFINE due == publishes[h] - 1
    <2>5. Leaves(h, lines[h], copy, {}, upserts[h], due)
      <3>1. /\ lines' = [lines EXCEPT ![h] = lines[h]] /\ upserts' = [upserts EXCEPT ![h] = upserts[h]]
            /\ lines[h] \in SUBSET Line /\ upserts[h] \in Nat
            /\ Cardinality(lines[h]) <= HistoryLimit /\ Cardinality({}) <= 1
        BY <2>3, HistoryIs
      <3>2. publishes' = [publishes EXCEPT ![h] = due] /\ due \in Nat
        BY <2>3, <2>4
      <3> HIDE DEF due
      <3> QED  BY <1>0, <2>1, <2>2, <2>3, <3>1, <3>2 DEF Leaves
    <2>6. Adds({}, lines[h], copy, {})
      BY <1>0, <2>1, <2>3, HistoryIs DEF Adds
    <2> QED  BY <2>5, <2>6, HistoryStepKeeps
  <1>4. CASE MergeReplica(h)
    <2>1. /\ lines' = [lines EXCEPT ![h] = merged]
          /\ upserts' = [upserts EXCEPT ![h] = upserts[h] - 1] /\ upserts[h] > 0
          /\ UNCHANGED <<commands, history, publishes, writing, restarts>>
      BY <1>4 DEF MergeReplica, merged
    <2>2. upserts[h] - 1 \in Nat
      BY <2>1, HistoryIs
    <2>3. Leaves(h, merged, history[h], writing[h], upserts[h] - 1, publishes[h])
      BY <1>1, <2>1, <2>2, HistoryIs DEF Leaves
    <2>4. Adds({}, merged, history[h], writing[h])
      BY <1>0, <1>1, <2>1, HistoryIs DEF Adds
    <2> QED  BY <2>3, <2>4, HistoryStepKeeps
  <1>5. CASE RestartHistory(h)
    <2>1. /\ lines' = [lines EXCEPT ![h] = {}] /\ upserts' = [upserts EXCEPT ![h] = 1]
          /\ publishes' = [publishes EXCEPT ![h] = 0] /\ writing' = [writing EXCEPT ![h] = {}]
          /\ restarts' \in 0 .. MaxRestarts /\ UNCHANGED <<commands, history>>
      BY <1>5, HistoryIs, HistoryAssumption DEF RestartHistory
    <2>2. Leaves(h, {}, history[h], {}, 1, 0)
      BY <1>0, <2>1, HistoryIs DEF Leaves
    <2>3. Adds({}, {}, history[h], {})
      BY <1>0, <2>1, HistoryIs DEF Adds
    <2> QED  BY <2>2, <2>3, HistoryStepKeeps
  <1>6. CASE \E g \in Host : Spread(g, h)
    <2> PICK g \in Host : Spread(g, h)
      BY <1>6
    <2>1. /\ history' = [history EXCEPT ![h] = history[g]]
          /\ upserts' = [upserts EXCEPT ![h] = upserts[h] + 1]
          /\ UNCHANGED <<commands, lines, publishes, writing, restarts>>
      BY DEF Spread
    <2>2. upserts[h] + 1 \in Nat /\ history[g] \in Records
      BY HistoryIs
    <2>3. Leaves(h, lines[h], history[g], writing[h], upserts[h] + 1, publishes[h])
      BY <2>1, <2>2, HistoryIs DEF Leaves
    <2>4. \A l \in history[g].lines : l \in LinesOf(g)
      BY DEF LinesOf
    <2>5. Adds({}, lines[h], history[g], writing[h])
      BY <1>0, <2>1, <2>4, HistoryIs DEF Adds
    <2> QED  BY <2>3, <2>5, HistoryStepKeeps
  <1> QED  BY <1>2, <1>3, <1>4, <1>5, <1>6

LEMMA HistoryInvKept == HistoryInv /\ [HistoryNext]_hvars => HistoryInv'
  <1>1. ASSUME HistoryInv, HistoryNext  PROVE HistoryInv'
    BY <1>1, TypingKeeps, HistoryStepsKeep DEF HistoryNext
  <1>2. ASSUME HistoryInv, UNCHANGED hvars  PROVE HistoryInv'
    <2>1. UNCHANGED <<commands, lines, history, upserts, publishes, writing, restarts>>
      BY <1>2 DEF hvars
    <2>2. HistoryTypeOK' /\ HistoryMaps'
      BY <1>2, <2>1 DEF HistoryInv, HistoryTypeOK, HistoryMaps
    <2>3. OneAtATime'
      BY <1>2, <2>1 DEF HistoryInv, OneAtATime, LinesOf
    <2> QED  BY <2>2, <2>3 DEF HistoryInv
  <1> QED  BY <1>1, <1>2

\* Lines of which no two were typed at one time are finitely many.
LEMMA TimedAreFinite ==
    ASSUME NEW known \in SUBSET Line, Timed(known)
    PROVE  IsFiniteSet(known)
  <1> DEFINE at == [l \in known |-> l.at]
  <1>1. MaxCommands \in Nat /\ \A l \in known : l.at \in 1 .. MaxCommands
    BY HistoryAssumption DEF Line
  <1>2. at \in Injection(known, 1 .. MaxCommands)
    BY <1>1 DEF Timed, Injection, IsInjective
  <1>3. IsFiniteSet(1 .. MaxCommands)
    BY <1>1, FS_Interval
  <1> HIDE DEF at
  <1> QED  BY <1>2, <1>3, FS_Injection

\* Of enough lines, enough are kept.
LEMMA EnoughAreKept ==
    ASSUME NEW T \in SUBSET Line, IsFiniteSet(T), Cardinality(T) >= HistoryLimit
    PROVE  Cardinality(Newest(T)) >= HistoryLimit
  <1> DEFINE Rest == T \ Newest(T)
             Times == {l.at : l \in Rest}
  <1>1. HistoryLimit \in Nat /\ \A l \in T : l.at \in Int
    BY HistoryAssumption DEF Line
  <1>2. Newest(T) \in SUBSET T /\ IsFiniteSet(Newest(T)) /\ Cardinality(Newest(T)) \in Nat
    BY FS_Subset, FS_CardinalityType DEF Newest
  <1>3. CASE Rest = {}
    <2>1. Newest(T) = T
      BY <1>2, <1>3
    <2> QED  BY <2>1
  <1>4. CASE Rest # {}
    <2>1. IsFiniteSet(Rest)
      BY FS_Subset
    <2>2. Times \subseteq Int /\ Times # {}
      BY <1>1, <1>4
    <2>3. IsFiniteSet(Times)
      <3> DEFINE at == [l \in Rest |-> l.at]
      <3>1. at \in Surjection(Rest, Times)
        BY DEF Surjection
      <3> HIDE DEF at, Rest, Times
      <3> QED  BY <2>1, <3>1, FS_Surjection
    <2>4. PICK t \in Times : \A u \in Times : u <= t
      BY <2>2, <2>3, GreatestExists
    <2>5. PICK z \in Rest : z.at = t
      BY <2>4
    <2> DEFINE Later == {l \in T : l.at > z.at}
    <2>6. Later \in SUBSET Newest(T)
      <3> SUFFICES ASSUME NEW l \in T, l.at > z.at, l \notin Newest(T)  PROVE FALSE
        OBVIOUS
      <3>1. l.at \in Times
        OBVIOUS
      <3> QED  BY <1>1, <2>4, <2>5, <3>1
    <2>7. Cardinality(Later) \in Nat /\ ~(Cardinality(Later) < HistoryLimit)
      <3>1. IsFiniteSet(Later)
        BY FS_Subset
      <3> QED  BY <3>1, <2>5, FS_CardinalityType DEF Newest
    <2> HIDE DEF Later
    <2>8. Cardinality(Later) <= Cardinality(Newest(T))
      BY <1>2, <2>6, FS_Subset
    <2> QED  BY <1>1, <1>2, <2>7, <2>8
  <1> QED  BY <1>3, <1>4

\* Merging what was merged: what an earlier merge has left out, a later one leaves out.
LEMMA Absorbs ==
    ASSUME NEW A \in SUBSET Line, NEW B \in SUBSET Line, IsFiniteSet(A), IsFiniteSet(B)
    PROVE  Newest(Newest(A) \cup B) = Newest(A \cup B)
  <1> DEFINE S == A \cup B
             N == Newest(A) \cup B
             After(X, l) == {k \in X : k.at > l.at}
  <1>1. HistoryLimit \in Nat /\ \A l \in S : l.at \in Int
    BY HistoryAssumption DEF Line
  <1>2. N \in SUBSET S /\ S \in SUBSET Line /\ IsFiniteSet(S) /\ IsFiniteSet(N)
    <2>1. IsFiniteSet(S)
      BY FS_Union
    <2>2. N \in SUBSET S
      BY DEF Newest
    <2> QED  BY <2>1, <2>2, FS_Subset
  <1>3. \A X \in SUBSET S : \A l : /\ After(X, l) \in SUBSET S /\ IsFiniteSet(After(X, l))
                                   /\ Cardinality(After(X, l)) \in Nat
    <2> SUFFICES ASSUME NEW X \in SUBSET S, NEW l
                 PROVE  After(X, l) \in SUBSET S /\ IsFiniteSet(After(X, l))
                        /\ Cardinality(After(X, l)) \in Nat
      OBVIOUS
    <2>1. After(X, l) \in SUBSET S
      OBVIOUS
    <2> HIDE DEF After, S
    <2> QED  BY <1>2, <2>1, FS_Subset, FS_CardinalityType
  <1>4. \A X, Y \in SUBSET S : X \subseteq Y =>
            \A l : Cardinality(After(X, l)) <= Cardinality(After(Y, l))
    <2> SUFFICES ASSUME NEW X \in SUBSET S, NEW Y \in SUBSET S, X \subseteq Y, NEW l
                 PROVE  Cardinality(After(X, l)) <= Cardinality(After(Y, l))
      OBVIOUS
    <2>1. After(X, l) \in SUBSET After(Y, l)
      OBVIOUS
    <2>2. IsFiniteSet(After(Y, l))
      BY <1>3
    <2> HIDE DEF After, S
    <2> QED  BY <2>1, <2>2, FS_Subset
  <1>5. \A X : Newest(X) = {l \in X : Cardinality(After(X, l)) < HistoryLimit}
    BY DEF Newest
  <1>6. A \in SUBSET S /\ N \in SUBSET S /\ A \subseteq S /\ N \subseteq S
    BY <1>2
  <1>7. ASSUME NEW l \in Newest(S)  PROVE l \in Newest(N)
    <2>1. l \in S /\ Cardinality(After(S, l)) < HistoryLimit
      BY <1>5
    <2>2. Cardinality(After(A, l)) <= Cardinality(After(S, l))
          /\ Cardinality(After(N, l)) <= Cardinality(After(S, l))
          /\ Cardinality(After(A, l)) \in Nat /\ Cardinality(After(N, l)) \in Nat
          /\ Cardinality(After(S, l)) \in Nat
      BY <1>3, <1>4, <1>6
    <2>3. Cardinality(After(A, l)) < HistoryLimit /\ Cardinality(After(N, l)) < HistoryLimit
      BY <1>1, <2>1, <2>2
    <2>4. l \in N
      BY <1>5, <2>1, <2>3
    <2> QED  BY <1>5, <2>3, <2>4
  <1>8. ASSUME NEW l \in Newest(N)  PROVE l \in Newest(S)
    <2>1. l \in N /\ Cardinality(After(N, l)) < HistoryLimit
      BY <1>5
    <2> DEFINE T == After(S, l)
    <2>2. SUFFICES ASSUME ~(Cardinality(T) < HistoryLimit)  PROVE FALSE
      BY <1>5, <1>6, <2>1
    <2>3. T \in SUBSET Line /\ IsFiniteSet(T) /\ Cardinality(T) >= HistoryLimit
      <3>1. T \in SUBSET S /\ IsFiniteSet(T) /\ Cardinality(T) \in Nat
        BY <1>3
      <3> HIDE DEF T
      <3> QED  BY <1>1, <1>2, <2>2, <3>1
    <2>4. Cardinality(Newest(T)) >= HistoryLimit
      BY <2>3, EnoughAreKept
    <2>5. Newest(T) \in SUBSET After(N, l)
      <3> SUFFICES ASSUME NEW k \in Newest(T)  PROVE k \in After(N, l)
        OBVIOUS
      <3>1. k \in S /\ k.at > l.at /\ Cardinality(After(T, k)) < HistoryLimit
        BY <1>5
      <3>2. After(T, k) = After(S, k)
        <4> SUFFICES ASSUME NEW j \in S, j.at > k.at  PROVE j.at > l.at
          OBVIOUS
        <4>1. j.at \in Int /\ k.at \in Int /\ l.at \in Int
          BY <1>1, <1>6, <2>1, <3>1
        <4> QED  BY <3>1, <4>1
      <3>3. k \in Newest(S)
        BY <1>5, <3>1, <3>2
      <3>4. k \in N
        BY <1>5, <1>7, <3>3
      <3> QED  BY <3>1, <3>4
    <2>6. IsFiniteSet(After(N, l)) /\ Cardinality(After(N, l)) \in Nat
      BY <1>3, <1>6
    <2> HIDE DEF T, After
    <2>7. Cardinality(Newest(T)) <= Cardinality(After(N, l)) /\ Cardinality(Newest(T)) \in Nat
      BY <2>5, <2>6, FS_Subset, FS_CardinalityType
    <2> QED  BY <1>1, <2>1, <2>4, <2>6, <2>7
  <1> QED  BY <1>7, <1>8

\* Whoever has L has merged R.
Has(L, R) == Newest(L \cup R) = L

LEMMA HavingMore ==
    ASSUME NEW L \in SUBSET Line, NEW R \in SUBSET Line, NEW S \in SUBSET Line,
           IsFiniteSet(L), IsFiniteSet(R), IsFiniteSet(S)
    PROVE  /\ Has(Newest(L \cup S), S)
           /\ Has(Newest(L \cup S), Newest(L \cup S))
           /\ Has(L, R) => Has(Newest(L \cup S), R)
  <1> DEFINE LS == L \cup S
             LR == L \cup R
  <1>1. LS \in SUBSET Line /\ LR \in SUBSET Line /\ IsFiniteSet(LS) /\ IsFiniteSet(LR)
    BY FS_Union
  <1>2. Newest(LS) \in SUBSET LS /\ Newest(LS) \in SUBSET Line /\ IsFiniteSet(Newest(LS))
    <2>1. Newest(LS) \in SUBSET LS
      BY DEF Newest
    <2> HIDE DEF LS
    <2> QED  BY <1>1, <2>1, FS_Subset
  <1>3. Newest(Newest(LS) \cup S) = Newest(LS \cup S) /\ LS \cup S = LS
    BY <1>1, Absorbs
  <1>4. Newest(Newest(LS) \cup Newest(LS)) = Newest(LS \cup Newest(LS))
        /\ LS \cup Newest(LS) = LS
    BY <1>1, <1>2, Absorbs
  <1>5. Newest(Newest(LS) \cup R) = Newest(LS \cup R)
        /\ Newest(Newest(LR) \cup S) = Newest(LR \cup S) /\ LS \cup R = LR \cup S
    BY <1>1, Absorbs
  <1> QED  BY <1>3, <1>4, <1>5 DEF Has

\* A stamp of the record is given once, by whom it names.
Stamped ==
    /\ \A g, h \in Host : history[g].by = h /\ history[g].ver > 0
                            => history[g].ver <= history[h].ver
    /\ \A g, h \in Host : history[g].ver = history[h].ver /\ history[g].by = history[h].by
                            => history[g] = history[h]
\* With no read due a host has merged its replica, and it has merged what it is putting.
CaughtUp(h) ==
    /\ upserts[h] = 0 => Has(lines[h], history[h].lines)
    /\ \A written \in writing[h] : Has(lines[h], written)
RecallInv == HistoryInv /\ Stamped /\ \A h \in Host : CaughtUp(h)

\* What a host has is finite.
LEMMA FiniteLines ==
    ASSUME HistoryInv, NEW h \in Host
    PROVE  /\ IsFiniteSet(lines[h]) /\ lines[h] \in SUBSET Line
           /\ IsFiniteSet(history[h].lines) /\ history[h].lines \in SUBSET Line
           /\ \A written \in writing[h] : IsFiniteSet(written) /\ written \in SUBSET Line
  <1>1. lines[h] \in SUBSET LinesOf(h) /\ history[h].lines \in SUBSET LinesOf(h)
        /\ \A written \in writing[h] : written \in SUBSET LinesOf(h)
    BY DEF LinesOf
  <1>2. \A known \in SUBSET LinesOf(h) : IsFiniteSet(known) /\ known \in SUBSET Line
    BY OwnLinesAreTimed, TimedAreFinite
  <1> QED  BY <1>1, <1>2

LEMMA StampsKept ==
    ASSUME HistoryInv, Stamped, [HistoryNext]_hvars
    PROVE  Stamped'
  <1>1. history \in [Host -> Records] /\ \A g \in Host : history[g].ver \in Nat
    BY DEF HistoryInv, HistoryMaps, Records
  <1>2. CASE UNCHANGED history
    BY <1>2 DEF Stamped
  <1>3. CASE \E h \in Host : Published(h)
    <2>0. PICK h \in Host : Published(h)
      BY <1>3
    <2>1. PICK written : history' = [history EXCEPT
                 ![h] = [ver |-> history[h].ver + 1, by |-> h, lines |-> written]]
      BY <2>0 DEF Published
    <2> DEFINE copy == [ver |-> history[h].ver + 1, by |-> h, lines |-> written]
    <2>2. history'[h] = copy /\ \A g \in Host \ {h} : history'[g] = history[g]
      BY <1>1, <2>1
    <2>3. copy.ver = history[h].ver + 1 /\ copy.by = h /\ history[h].ver \in Nat
      BY <1>1
    <2> HIDE DEF copy
    <2>4. \A g \in Host \ {h} : ~(history[g].ver = copy.ver /\ history[g].by = copy.by)
      BY <1>1, <2>3 DEF Stamped
    <2>5. ASSUME NEW f \in Host, NEW g \in Host, history'[f].by = g, history'[f].ver > 0
          PROVE  history'[f].ver <= history'[g].ver
      <3>1. CASE f = h
        BY <2>2, <2>3, <2>5, <3>1
      <3>2. CASE f # h
        <4>1. history[f].ver <= history[g].ver
          BY <2>2, <2>5, <3>2 DEF Stamped
        <4>2. history[g].ver <= history'[g].ver /\ history'[g].ver \in Nat
          BY <1>1, <2>2, <2>3
        <4> QED  BY <1>1, <2>2, <3>2, <4>1, <4>2
      <3> QED  BY <3>1, <3>2
    <2>6. ASSUME NEW f \in Host, NEW g \in Host,
                 history'[f].ver = history'[g].ver, history'[f].by = history'[g].by
          PROVE  history'[f] = history'[g]
      BY <2>2, <2>4, <2>6 DEF Stamped
    <2> QED  BY <2>5, <2>6 DEF Stamped
  <1>4. CASE \E g, h \in Host : Spread(g, h)
    <2>1. PICK e \in Host, h \in Host : NewerHistory(history[e], history[h])
                                        /\ history' = [history EXCEPT ![h] = history[e]]
      BY <1>4 DEF Spread
    <2>2. history'[h] = history[e] /\ \A g \in Host \ {h} : history'[g] = history[g]
      BY <1>1, <2>1
    <2>3. history[h].ver <= history[e].ver
      BY <1>1, <2>1 DEF NewerHistory
    <2>4. \A g \in Host : history[g].ver <= history'[g].ver /\ history'[g].ver \in Nat
      BY <1>1, <2>2, <2>3
    <2>5. \A f \in Host : \E g \in Host : history'[f] = history[g]
      BY <2>2
    <2>6. ASSUME NEW f \in Host, NEW g \in Host, history'[f].by = g, history'[f].ver > 0
          PROVE  history'[f].ver <= history'[g].ver
      <3>1. history'[f].ver <= history[g].ver
        BY <2>5, <2>6 DEF Stamped
      <3> QED  BY <1>1, <2>4, <3>1
    <2>7. ASSUME NEW f \in Host, NEW g \in Host,
                 history'[f].ver = history'[g].ver, history'[f].by = history'[g].by
          PROVE  history'[f] = history'[g]
      BY <2>5, <2>7 DEF Stamped
    <2> QED  BY <2>6, <2>7 DEF Stamped
  <1> QED  BY <1>2, <1>3, <1>4
           DEF HistoryNext, hvars, TypeCommand, ReadToPublish, MergeReplica, RestartHistory

\* A host that does nothing has what it had.
LEMMA StaysCaughtUp ==
    ASSUME NEW h \in Host, CaughtUp(h), lines'[h] = lines[h], history'[h] = history[h],
           upserts'[h] = upserts[h], writing'[h] = writing[h]
    PROVE  CaughtUp(h)'
  BY DEF CaughtUp, Has, Newest

LEMMA CatchesUp ==
    ASSUME HistoryInv, NEW h \in Host, CaughtUp(h),
           \/ \E command \in Command : TypeCommand(h, command)
           \/ ReadToPublish(h) \/ Published(h) \/ MergeReplica(h) \/ RestartHistory(h)
           \/ \E g \in Host : Spread(g, h)
    PROVE  CaughtUp(h)'
  <1> DEFINE L == lines[h]
             R == history[h].lines
  <1>1. /\ L \in SUBSET Line /\ IsFiniteSet(L) /\ R \in SUBSET Line /\ IsFiniteSet(R)
        /\ \A W \in writing[h] : W \in SUBSET Line /\ IsFiniteSet(W)
        /\ upserts[h] \in Nat
    BY FiniteLines DEF HistoryInv, HistoryMaps
  <1>2. /\ lines \in [Host -> SUBSET Line] /\ history \in [Host -> Records]
        /\ upserts \in [Host -> Nat] /\ writing \in [Host -> SUBSET SUBSET Line]
    BY DEF HistoryInv, HistoryMaps
  <1>3. CASE \E command \in Command : TypeCommand(h, command)
    <2>1. PICK c \in Command : TypeCommand(h, c)
      BY <1>3
    <2>2. history' = history /\ upserts' = upserts /\ writing' = writing
      BY <2>1 DEF TypeCommand
    <2>3. CASE lines' = lines
      BY <2>2, <2>3, StaysCaughtUp
    <2> DEFINE new == {[at |-> commands + 1, host |-> h, command |-> c]}
    <2>4. CASE lines' = [lines EXCEPT ![h] = Newest(lines[h] \cup new)] /\ commands < MaxCommands
      <3>1. new \in SUBSET Line /\ IsFiniteSet(new)
        <4>1. commands + 1 \in 1 .. MaxCommands
          BY <2>4, HistoryAssumption DEF HistoryInv, HistoryTypeOK
        <4>2. [at |-> commands + 1, host |-> h, command |-> c] \in Line
          BY <4>1 DEF Line
        <4> QED  BY <4>2, FS_Singleton
      <3> HIDE DEF new
      <3>2. lines'[h] = Newest(L \cup new)
        BY <1>2, <2>4
      <3>3. Has(L, R) => Has(Newest(L \cup new), R)
        BY <1>1, <3>1, HavingMore
      <3>4. \A W \in writing[h] : Has(L, W) => Has(Newest(L \cup new), W)
        BY <1>1, <3>1, HavingMore
      <3> QED  BY <2>2, <3>2, <3>3, <3>4 DEF CaughtUp, Has, Newest
    <2> QED  BY <2>1, <2>3, <2>4 DEF TypeCommand
  <1>4. CASE ReadToPublish(h)
    <2> DEFINE M == Newest(L \cup R)
    <2>1. /\ lines'[h] = M /\ writing'[h] = {M} /\ history' = history /\ upserts' = upserts
      BY <1>2, <1>4 DEF ReadToPublish, Merged
    <2>2. Has(M, R) /\ Has(M, M)
      BY <1>1, HavingMore
    <2> HIDE DEF M
    <2> QED  BY <2>1, <2>2 DEF CaughtUp, Has, Newest
  <1>5. CASE Published(h)
    <2>1. PICK written \in writing[h] : history' = [history EXCEPT
                 ![h] = [ver |-> history[h].ver + 1, by |-> h, lines |-> written]]
      BY <1>5 DEF Published
    <2>2. history'[h].lines = written /\ writing'[h] = {} /\ lines' = lines
      BY <1>2, <1>5, <2>1 DEF Published
    <2> QED  BY <2>2 DEF CaughtUp, Has, Newest
  <1>6. CASE MergeReplica(h)
    <2> DEFINE M == Newest(L \cup R)
    <2>1. lines'[h] = M /\ writing' = writing /\ history' = history
      BY <1>2, <1>6 DEF MergeReplica, Merged
    <2>2. Has(M, R) /\ \A W \in writing[h] : Has(L, W) => Has(M, W)
      BY <1>1, HavingMore
    <2> HIDE DEF M
    <2> QED  BY <2>1, <2>2 DEF CaughtUp, Has, Newest
  <1>7. CASE RestartHistory(h)
    <2>1. upserts'[h] = 1 /\ writing'[h] = {}
      BY <1>2, <1>7 DEF RestartHistory
    <2> QED  BY <2>1 DEF CaughtUp
  <1>8. CASE \E g \in Host : Spread(g, h)
    <2>1. upserts'[h] = upserts[h] + 1 /\ lines' = lines /\ writing' = writing
      BY <1>2, <1>8 DEF Spread
    <2>2. upserts'[h] # 0
      BY <1>1, <2>1
    <2> QED  BY <2>1, <2>2 DEF CaughtUp, Has, Newest
  <1> QED  BY <1>3, <1>4, <1>5, <1>6, <1>7, <1>8

LEMMA RecallInvKept == RecallInv /\ [HistoryNext]_hvars => RecallInv'
  <1> SUFFICES ASSUME RecallInv, [HistoryNext]_hvars  PROVE RecallInv'
    OBVIOUS
  <1>1. HistoryInv' /\ Stamped'
    BY HistoryInvKept, StampsKept DEF RecallInv
  <1> SUFFICES ASSUME NEW f \in Host  PROVE CaughtUp(f)'
    BY <1>1 DEF RecallInv
  <1>2. CASE UNCHANGED hvars
    BY <1>2, StaysCaughtUp DEF hvars, RecallInv
  <1>3. CASE HistoryNext
    <2>1. PICK h \in Host :
            \/ \E command \in Command : TypeCommand(h, command)
            \/ ReadToPublish(h) \/ Published(h) \/ MergeReplica(h) \/ RestartHistory(h)
            \/ \E g \in Host : Spread(g, h)
      BY <1>3 DEF HistoryNext
    <2>2. CASE f = h
      BY <2>1, <2>2, CatchesUp DEF RecallInv
    <2>3. CASE f # h
      <3>1. /\ lines \in [Host -> SUBSET Line] /\ history \in [Host -> Records]
            /\ upserts \in [Host -> Nat] /\ writing \in [Host -> SUBSET SUBSET Line]
        BY DEF RecallInv, HistoryInv, HistoryMaps
      <3>2. /\ lines'[f] = lines[f] /\ history'[f] = history[f]
            /\ upserts'[f] = upserts[f] /\ writing'[f] = writing[f]
        BY <2>1, <2>3, <3>1
           DEF TypeCommand, ReadToPublish, Published, MergeReplica, RestartHistory, Spread
      <3> QED  BY <3>2, StaysCaughtUp DEF RecallInv
    <2> QED  BY <2>2, <2>3
  <1> QED  BY <1>2, <1>3

LEMMA RecallBegins == HistoryInit => RecallInv
  <1> SUFFICES ASSUME HistoryInit  PROVE RecallInv
    OBVIOUS
  <1>1. Stamped
    BY DEF HistoryInit, Stamped
  <1>2. ASSUME NEW h \in Host  PROVE CaughtUp(h)
    BY DEF HistoryInit, CaughtUp, Has, Newest
  <1> QED  BY <1>1, <1>2, HistoryBegins DEF RecallInv

LEMMA RecalledAtRest == RecallInv => RestingHistoriesAgree
  <1> SUFFICES ASSUME RecallInv, \A h \in Host : HistoryRests(h), NEW g \in Host, NEW h \in Host
               PROVE  history[g] = history[h] /\ lines[h] = Merged(h, history[g])
    BY DEF RestingHistoriesAgree
  <1>1. history[g] \in Records /\ history[h] \in Records
    BY DEF RecallInv, HistoryInv, HistoryMaps
  <1>2. ~NewerHistory(history[g], history[h]) /\ ~NewerHistory(history[h], history[g])
    BY DEF HistoryRests
  <1>3. history[g].ver = history[h].ver /\ history[g].by = history[h].by
    BY <1>1, <1>2 DEF NewerHistory, Records
  <1>4. history[g] = history[h]
    BY <1>3 DEF RecallInv, Stamped
  <1>5. Has(lines[h], history[h].lines)
    BY DEF RecallInv, CaughtUp, HistoryRests
  <1> QED  BY <1>4, <1>5 DEF Has, Merged

\* The safety that RecordIsRecalled comes down to: when nothing is on its way to a host, the
\* replicas are one and every host has merged it, for any hosts, commands, limit and
\* restarts, and whatever puts were refused, overtaken or made of older reads
\* (terminal-history.js, load, merge and publish).
THEOREM RestingHistoriesAgreeAlways == HistorySpec => []RestingHistoriesAgree
  <1> QED  BY RecallBegins, RecallInvKept, RecalledAtRest, PTL DEF HistorySpec

-----------------------------------------------------------------------------
\* MCMachines.

MachineInv == SchedulerInv /\ StoreInv /\ DirectoryInv /\ HistoryInv

LEMMA MachineMoves ==
    [MCNext]_<<part, vars, storeVars, dvars, hvars>> =>
        [Next]_vars /\ [StoreNext]_storeVars /\ [DirectoryNext]_dvars /\ [HistoryNext]_hvars
  BY DEF MCNext

\* The scheduler, the store, the index and the history keep their types side by side; among
\* them, that no host has more lines than HISTORY_LIMIT (terminal-history.js, merge).
THEOREM MachineTypesHold == MCSpec => []TypesOK
  <1>1. MCInit => MachineInv
    BY SchedulerBegins, StoreBegins, DirectoryBegins, HistoryBegins DEF MCInit, MachineInv
  <1>2. MachineInv /\ [MCNext]_<<part, vars, storeVars, dvars, hvars>> => MachineInv'
    <2> SUFFICES ASSUME MachineInv, [MCNext]_<<part, vars, storeVars, dvars, hvars>>
                 PROVE  MachineInv'
      OBVIOUS
    <2>1. SchedulerInv'  BY MachineMoves, SchedulerNextKeeps DEF MachineInv
    <2>2. StoreInv'  BY MachineMoves, StoreNextKeeps DEF MachineInv
    <2>3. DirectoryInv'  BY MachineMoves, DirectoryNextKeeps DEF MachineInv
    <2>4. HistoryInv'  BY MachineMoves, HistoryInvKept DEF MachineInv
    <2> QED  BY <2>1, <2>2, <2>3, <2>4 DEF MachineInv
  <1>3. MachineInv => TypesOK
    BY DEF MachineInv, SchedulerInv, StoreInv, DirectoryInv, HistoryInv, TypesOK
  <1> QED  BY <1>1, <1>2, <1>3, PTL DEF MCSpec
=============================================================================
