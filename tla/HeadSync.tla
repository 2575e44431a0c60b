------------------------------ MODULE HeadSync ------------------------------
(***************************************************************************)
(* How one device's newest snapshot reaches the others: the head record of  *)
(* src/src/protocol.js (RepositorySynchronizer).  Every device has a head   *)
(* record of its own, so this module follows one of them: the Owner's,      *)
(* which the Owner publishes and every other device imports.                *)
(*                                                                          *)
(* At the Owner three activities write the record: publishLocal(), which    *)
(* runs beside the queue; reconcileOwnHead(), called by start() and         *)
(* refresh(); and the `work` queue, when an event of the own key arrives.   *)
(* At the others, events of the queue and a direct refresh both call        *)
(* #acceptHead, which handles one head at a time.  A step is what runs      *)
(* between two awaits that others can observe.                              *)
(*                                                                          *)
(* A snapshot is content addressed: it stands for the manifest and all its  *)
(* chunks, and for the content digest.  The PeerPigeon store is external;   *)
(* pruning is the subject of SnapshotCache, applying that of LiveOverlay.   *)
(***************************************************************************)
EXTENDS Naturals, Sequences

CONSTANTS
    Device,       \* the devices of one repository
    Owner,        \* the one whose head this is
    Snapshot,     \* contents the Owner's repository may have, as positive numbers
    Crashable,    \* the devices that may be killed at any moment
    MaxInbox,     \* bound: head events waiting in one queue
    MaxEdits,     \* bound: changes of the Owner's content
    MaxCrashes,   \* bound: kills, in all
    MaxFailures   \* bound: imports that fail although the snapshot is offered

ASSUME DeviceAssumption == Owner \in Device /\ Crashable \subseteq Device
ASSUME SnapshotAssumption == Snapshot \subseteq Nat \ {0}
ASSUME BoundAssumption ==
    MaxInbox \in Nat /\ MaxEdits \in Nat /\ MaxCrashes \in Nat /\ MaxFailures \in Nat

None == 0
Importer == Device \ {Owner}

VARIABLES
    content,    \* what the Owner's repository contains
    edits,      \* how often it has changed
    mode,       \* where a device is between start() and a kill
    store,      \* each device's replica of the head record (external)
    flushed,    \* the replica as last written to disk
    heads,      \* this.state.heads[Owner]
    imported,   \* this.state.imported[Owner]
    saved,      \* the two, as the state file has them
    saving,     \* the two, as a save on behalf of another head took them
    have,       \* the snapshots complete in the disk cache
    offered,    \* the snapshots a device answers requests for (in memory)
    inbox,      \* this.work: head events waiting for the queue
    work,       \* what the queue is doing
    direct,     \* what start() or refresh() is doing
    desired,    \* reconcileOwnHead: the head taken before the retrieve
    pub,        \* what publishLocal() is doing, and with which snapshot
    puts,       \* the Owner's calls of put not yet carried out
    accepts,    \* this.acceptingHeads: the calls of #acceptHead, in order
    importing,  \* is the first of them past the head, at the import?
    backoff,    \* this.importBackoff: the snapshot not to be tried again yet
    crashes,    \* how many kills there were
    failures    \* how many imports failed

ownerVars == <<content, edits, desired, pub, puts>>
diskVars == <<flushed, saved, saving>>
importVars == <<imported, accepts, importing, backoff, failures>>
vars == <<content, edits, mode, store, flushed, heads, imported, saved, saving,
          have, offered, inbox, work, direct, desired, pub, puts, accepts,
          importing, backoff, crashes, failures>>

Known == Snapshot \cup {None}
Record == [ver : Nat, snap : Known]
NoRecord == [ver |-> 0, snap |-> None]
State == [head : Known, imported : Known]
Call == [by : {"work", "direct", "publish"}, snap : Known]

TypeOK ==
    /\ content \in Snapshot
    /\ edits \in Nat /\ crashes \in Nat /\ failures \in Nat
    /\ mode \in [Device -> {"down", "first", "again", "publish", "started"}]
    /\ store \in [Device -> Record]
    /\ flushed \in [Device -> Record]
    /\ heads \in [Device -> Known]
    /\ imported \in [Device -> Known]
    /\ saved \in [Device -> State]
    /\ saving \in [Device -> SUBSET State]
    /\ have \in [Device -> SUBSET Known]
    /\ offered \in [Device -> SUBSET Known]
    /\ inbox \in [Device -> Seq(Known)]
    /\ work \in [Device -> {"idle", "busy"}]
    /\ direct \in [Device -> {"idle", "reconcile", "observe", "busy", "retrieve"}]
    /\ desired \in Known
    /\ pub \in [phase : {"idle", "seed", "put", "stored"}, snap : Known]
    /\ puts \in Seq(Call)
    /\ accepts \in [Device -> Seq(Call)]
    /\ importing \in [Device -> BOOLEAN]
    /\ backoff \in [Device -> Known]

Idle == [phase |-> "idle", snap |-> None]
NoState == [head |-> None, imported |-> None]

Init ==
    /\ content \in Snapshot
    /\ edits = 0 /\ crashes = 0 /\ failures = 0
    /\ mode = [d \in Device |-> "down"]
    /\ store = [d \in Device |-> NoRecord]
    /\ flushed = [d \in Device |-> NoRecord]
    /\ heads = [d \in Device |-> None]
    /\ imported = [d \in Device |-> None]
    /\ saved = [d \in Device |-> NoState]
    /\ saving = [d \in Device |-> {}]
    /\ have = [d \in Device |-> {}]
    /\ offered = [d \in Device |-> {}]
    /\ inbox = [d \in Device |-> <<>>]
    /\ work = [d \in Device |-> "idle"]
    /\ direct = [d \in Device |-> "idle"]
    /\ desired = None
    /\ pub = Idle
    /\ puts = <<>>
    /\ accepts = [d \in Device |-> <<>>]
    /\ importing = [d \in Device |-> FALSE]
    /\ backoff = [d \in Device |-> None]

-----------------------------------------------------------------------------
(***************************************************************************)
(* Helpers.                                                                 *)
(***************************************************************************)

Up(d) == mode[d] # "down"

\* Mutant of SaveState: the import is saved as done when the head is recorded.
SaveStateEarly(d) ==
    saved' = [saved EXCEPT ![d] = [head |-> heads'[d], imported |-> heads'[d]]]

\* Mutant of SaveState: only the head is saved.
SaveHeadOnly(d) == saved' = [saved EXCEPT ![d] = [head |-> heads'[d]]]

\* cache.saveState: the state of this moment reaches the state file.
SaveState(d) ==
    saved' = [saved EXCEPT ![d] = [head |-> heads'[d], imported |-> imported'[d]]]

\* retrieveMutable: the record held; else the one a device that is up answers
\* with, which is then held; else, when nobody answers in time, nothing.
Retrieve(d) ==
    \/ /\ store[d].ver > 0
       /\ UNCHANGED store
    \/ /\ store[d].ver = 0
       /\ \/ UNCHANGED store
          \/ \E s \in Device :
                /\ Up(s) /\ store[s].ver > 0
                /\ store' = [store EXCEPT ![d] = store[s]]

\* The order of two versions of the record.  A version can be used twice, by an
\* Owner whose replica lost it; the store then prefers one of the two in a fixed
\* way.  As contents are chosen freely, either may be the one.
Newer(r, q) == r.ver > q.ver \/ (r.ver = q.ver /\ r.snap > q.snap)

\* The first of the calls of #acceptHead is done.
AcceptDone(d) ==
    /\ accepts' = [accepts EXCEPT ![d] = Tail(@)]
    /\ importing' = [importing EXCEPT ![d] = FALSE]
    /\ \/ /\ Head(accepts[d]).by = "work"
          /\ work' = [work EXCEPT ![d] = "idle"]
          /\ UNCHANGED direct
       \/ /\ Head(accepts[d]).by = "direct"
          /\ direct' = [direct EXCEPT ![d] = "idle"]
          /\ UNCHANGED work

-----------------------------------------------------------------------------
(***************************************************************************)
(* The Owner.                                                               *)
(***************************************************************************)

\* Somebody edits the repository.
Edit(c) ==
    /\ edits < MaxEdits
    /\ c # content
    /\ content' = c
    /\ edits' = edits + 1
    /\ UNCHANGED <<mode, store, diskVars, heads, importVars, have, offered, inbox,
                   work, direct, desired, pub, puts, crashes>>

\* start(), up to reconcileOwnHead: the state file is read, and the snapshots
\* of its heads are offered again.
StartOwner ==
    /\ mode[Owner] = "down"
    /\ mode' = [mode EXCEPT ![Owner] = "first"]
    /\ heads' = [heads EXCEPT ![Owner] = saved[Owner].head]
    /\ imported' = [imported EXCEPT ![Owner] = saved[Owner].imported]
    /\ offered' = [offered EXCEPT ![Owner] = {saved[Owner].head} \cap have[Owner]]
    /\ direct' = [direct EXCEPT ![Owner] = "reconcile"]
    /\ UNCHANGED <<store, diskVars, ownerVars, accepts, importing, backoff,
                   failures, have, inbox, work, crashes>>

\* refresh(), when a peer connects.
RefreshOwner ==
    /\ mode[Owner] = "started"
    /\ direct[Owner] = "idle"
    /\ direct' = [direct EXCEPT ![Owner] = "reconcile"]
    /\ UNCHANGED <<mode, store, diskVars, heads, ownerVars, importVars, have,
                   offered, inbox, work, crashes>>

\* reconcileOwnHead takes the head it wants the record to name ...
ReconcileOwnHead ==
    /\ direct[Owner] = "reconcile"
    /\ desired' = heads[Owner]
    /\ direct' = [direct EXCEPT ![Owner] = "observe"]
    /\ UNCHANGED <<mode, store, diskVars, heads, content, edits, pub, puts,
                   importVars, have, offered, inbox, work, crashes>>

\* reconcileOwnHead is done: start() calls it twice and then publishes.
ReconcileDone ==
    /\ desired' = None
    /\ \/ /\ mode[Owner] = "first"
          /\ mode' = [mode EXCEPT ![Owner] = "again"]
          /\ direct' = [direct EXCEPT ![Owner] = "reconcile"]
       \/ /\ mode[Owner] = "again"
          /\ mode' = [mode EXCEPT ![Owner] = "publish"]
          /\ direct' = [direct EXCEPT ![Owner] = "idle"]
       \/ /\ mode[Owner] = "started"
          /\ direct' = [direct EXCEPT ![Owner] = "idle"]
          /\ UNCHANGED mode

\* ... then retrieves the record, and adopts it, leaves it, or writes over it.
ObserveOwnHead ==
    /\ direct[Owner] = "observe"
    /\ Retrieve(Owner)
    /\ UNCHANGED imported
    /\ LET observed == store'[Owner].snap
       IN  \/ /\ desired = None
              /\ IF observed = None
                 THEN UNCHANGED <<heads, saved>>
                 ELSE /\ heads' = [heads EXCEPT ![Owner] = observed]
                      /\ SaveState(Owner)
              /\ ReconcileDone
              /\ UNCHANGED puts
           \/ /\ desired # None /\ observed = desired
              /\ ReconcileDone
              /\ UNCHANGED <<heads, saved, puts>>
           \/ /\ desired # None /\ observed # desired
              /\ puts' = Append(puts, [by |-> "direct", snap |-> desired])
              /\ direct' = [direct EXCEPT ![Owner] = "busy"]
              /\ UNCHANGED <<mode, heads, saved, desired>>
    /\ UNCHANGED <<flushed, saving, content, edits, pub, accepts, importing,
                   backoff, failures, have, offered, inbox, work, crashes>>

\* publishLocal with nothing new.  Only the first, inside start(), is a step.
NothingToPublish ==
    /\ mode[Owner] = "publish"
    /\ pub = Idle
    /\ heads[Owner] = content /\ content \in have[Owner]
    /\ mode' = [mode EXCEPT ![Owner] = "started"]
    /\ UNCHANGED <<store, diskVars, heads, ownerVars, importVars, have, offered,
                   inbox, work, direct, crashes>>

\* publishLocal reads the content, which is not what its head names, or whose
\* manifest is gone.
PublishLocal ==
    /\ mode[Owner] \in {"publish", "started"}
    /\ pub = Idle
    /\ ~ (heads[Owner] = content /\ content \in have[Owner])
    /\ pub' = [phase |-> "seed", snap |-> content]
    /\ UNCHANGED <<mode, store, diskVars, heads, content, edits, desired, puts,
                   importVars, have, offered, inbox, work, direct, crashes>>

\* Chunks and manifest are cached and seeded; then the head is put.
SeedManifest ==
    /\ pub.phase = "seed"
    /\ have' = [have EXCEPT ![Owner] = @ \cup {pub.snap}]
    /\ offered' = [offered EXCEPT ![Owner] = @ \cup {pub.snap}]
    /\ puts' = Append(puts, [by |-> "publish", snap |-> pub.snap])
    /\ pub' = [pub EXCEPT !.phase = "put"]
    /\ UNCHANGED <<mode, store, diskVars, heads, content, edits, desired,
                   importVars, inbox, work, direct, crashes>>

\* The store carries out a put, and the caller goes on.
Put ==
    /\ puts # <<>>
    /\ store' = [store EXCEPT ![Owner] = [ver  |-> store[Owner].ver + 1,
                                          snap |-> Head(puts).snap]]
    /\ puts' = Tail(puts)
    /\ \/ /\ Head(puts).by = "publish"
          /\ pub' = [phase |-> "stored", snap |-> Head(puts).snap]
          /\ UNCHANGED <<mode, work, direct, desired>>
       \/ /\ Head(puts).by = "direct"
          /\ ReconcileDone
          /\ UNCHANGED <<pub, work>>
       \/ /\ Head(puts).by = "work"
          /\ work' = [work EXCEPT ![Owner] = "idle"]
          /\ UNCHANGED <<mode, pub, direct, desired>>
    /\ UNCHANGED <<diskVars, heads, content, edits, importVars, have, offered,
                   inbox, crashes>>

\* After the pause that #put makes, publishLocal records the head and saves it.
RecordHead ==
    /\ pub.phase = "stored"
    /\ heads' = [heads EXCEPT ![Owner] = pub.snap]
    /\ UNCHANGED imported
    /\ SaveState(Owner)
    /\ pub' = Idle
    /\ mode' = [mode EXCEPT ![Owner] = "started"]
    /\ UNCHANGED <<store, flushed, saving, content, edits, desired, puts,
                   accepts, importing, backoff, failures, have, offered, inbox,
                   work, direct, crashes>>

\* The queue reaches an event of the own key: another head is written over,
\* or, when there is no head yet, adopted.
AcceptOwnHead ==
    /\ work[Owner] = "idle"
    /\ inbox[Owner] # <<>>
    /\ inbox' = [inbox EXCEPT ![Owner] = Tail(@)]
    /\ UNCHANGED imported
    /\ LET observed == Head(inbox[Owner])
       IN  IF heads[Owner] \notin {None, observed}
           THEN /\ puts' = Append(puts, [by |-> "work", snap |-> heads[Owner]])
                /\ work' = [work EXCEPT ![Owner] = "busy"]
                /\ UNCHANGED <<heads, saved>>
           ELSE /\ heads' = [heads EXCEPT ![Owner] = observed]
                /\ SaveState(Owner)
                /\ UNCHANGED <<puts, work>>
    /\ UNCHANGED <<mode, store, flushed, saving, content, edits, desired, pub,
                   accepts, importing, backoff, failures, have, offered, direct,
                   crashes>>

-----------------------------------------------------------------------------
(***************************************************************************)
(* The others.                                                              *)
(***************************************************************************)

StartImporter(d) ==
    /\ mode[d] = "down"
    /\ mode' = [mode EXCEPT ![d] = "started"]
    /\ heads' = [heads EXCEPT ![d] = saved[d].head]
    /\ imported' = [imported EXCEPT ![d] = saved[d].imported]
    /\ offered' = [offered EXCEPT ![d] = {saved[d].head} \cap have[d]]
    /\ direct' = [direct EXCEPT ![d] = "retrieve"]
    /\ UNCHANGED <<store, diskVars, ownerVars, accepts, importing, backoff,
                   failures, have, inbox, work, crashes>>

RefreshImporter(d) ==
    /\ mode[d] = "started"
    /\ direct[d] = "idle"
    /\ direct' = [direct EXCEPT ![d] = "retrieve"]
    /\ UNCHANGED <<mode, store, diskVars, heads, ownerVars, importVars, have,
                   offered, inbox, work, crashes>>

\* #refreshHead: the record, if there is one, goes to #acceptHead.
RefreshHead(d) ==
    /\ direct[d] = "retrieve"
    /\ Retrieve(d)
    /\ LET r == store'[d]
       IN  IF r.ver = 0
           THEN /\ direct' = [direct EXCEPT ![d] = "idle"]
                /\ UNCHANGED accepts
           ELSE /\ direct' = [direct EXCEPT ![d] = "busy"]
                /\ accepts' = [accepts EXCEPT
                      ![d] = Append(@, [by |-> "direct", snap |-> r.snap])]
    /\ UNCHANGED <<mode, diskVars, heads, ownerVars, imported, importing, backoff,
                   failures, have, offered, inbox, work, crashes>>

\* Mutant of HandleEvent: an event is dropped while a refresh is at #acceptHead.
HandleEventUnlessBusy(d) ==
    /\ work[d] = "idle"
    /\ inbox[d] # <<>>
    /\ inbox' = [inbox EXCEPT ![d] = Tail(@)]
    /\ IF direct[d] = "busy"
       THEN UNCHANGED <<work, accepts>>
       ELSE /\ work' = [work EXCEPT ![d] = "busy"]
            /\ accepts' = [accepts EXCEPT
                  ![d] = Append(@, [by |-> "work", snap |-> Head(inbox[d])])]
    /\ UNCHANGED <<mode, store, diskVars, heads, ownerVars, imported, importing,
                   backoff, failures, have, offered, direct, crashes>>

\* The queue reaches an event: the head it carried goes to #acceptHead.
HandleEvent(d) ==
    /\ work[d] = "idle"
    /\ inbox[d] # <<>>
    /\ inbox' = [inbox EXCEPT ![d] = Tail(@)]
    /\ work' = [work EXCEPT ![d] = "busy"]
    /\ accepts' = [accepts EXCEPT
          ![d] = Append(@, [by |-> "work", snap |-> Head(inbox[d])])]
    /\ UNCHANGED <<mode, store, diskVars, heads, ownerVars, imported, importing,
                   backoff, failures, have, offered, direct, crashes>>

\* Mutant of ImportDue: a head that is known already is not imported.
ImportDueOnce(d, s) == s # heads[d]

\* A head is imported unless it was before, or failed a moment ago.
ImportDue(d, s) == s \notin {imported[d], backoff[d]}

\* #acceptValidatedHead: the head is recorded and saved, and the import begins.
AcceptHead(d) ==
    /\ accepts[d] # <<>>
    /\ ~importing[d]
    /\ LET s == Head(accepts[d]).snap
       IN  /\ heads' = [heads EXCEPT ![d] = s]
           /\ UNCHANGED imported
           /\ SaveState(d)
           /\ IF ImportDue(d, s)
              THEN /\ importing' = [importing EXCEPT ![d] = TRUE]
                   /\ UNCHANGED <<accepts, work, direct>>
              ELSE AcceptDone(d)
    /\ UNCHANGED <<mode, store, flushed, saving, ownerVars, backoff, failures,
                   have, offered, inbox, crashes>>

\* Can the device get the manifest and all chunks?
Available(d, s) == s \in have[d] \/ \E e \in Device : Up(e) /\ s \in offered[e]

\* What is retrieved is cached, and answered for by this device from now on.
Fetched(d, s) ==
    /\ have' = [have EXCEPT ![d] = @ \cup {s}]
    /\ offered' = IF s \in have[d] THEN offered
                                   ELSE [offered EXCEPT ![d] = @ \cup {s}]

\* Manifest and chunks arrive, the snapshot is applied, and that is saved.
Import(d) ==
    /\ importing[d]
    /\ LET s == Head(accepts[d]).snap
       IN  /\ Available(d, s)
           /\ Fetched(d, s)
           /\ imported' = [imported EXCEPT ![d] = s]
           /\ UNCHANGED heads
           /\ SaveState(d)
           /\ backoff' = IF backoff[d] = s THEN [backoff EXCEPT ![d] = None] ELSE backoff
    /\ AcceptDone(d)
    /\ UNCHANGED <<mode, store, flushed, saving, ownerVars, failures, inbox,
                   crashes>>

\* deferImport: the snapshot is not tried again for a while.
DeferImport(d) ==
    /\ backoff' = [backoff EXCEPT ![d] = Head(accepts[d]).snap]
    /\ AcceptDone(d)

\* The manifest or a chunk cannot be had, or does not arrive in time.
ImportUnavailable(d) ==
    /\ importing[d]
    /\ \/ /\ ~Available(d, Head(accepts[d]).snap)
          /\ UNCHANGED failures
       \/ /\ Head(accepts[d]).snap \notin have[d]
          /\ failures < MaxFailures
          /\ failures' = failures + 1
    /\ DeferImport(d)
    /\ UNCHANGED <<mode, store, diskVars, heads, ownerVars, imported, have,
                   offered, inbox, crashes>>

\* All is there, but the working tree is not clean.
ImportRefused(d) ==
    /\ importing[d]
    /\ failures < MaxFailures
    /\ failures' = failures + 1
    /\ Available(d, Head(accepts[d]).snap)
    /\ Fetched(d, Head(accepts[d]).snap)
    /\ DeferImport(d)
    /\ UNCHANGED <<mode, store, diskVars, heads, ownerVars, imported, inbox,
                   crashes>>

BackoffEnds(d) ==
    /\ backoff[d] # None
    /\ backoff' = [backoff EXCEPT ![d] = None]
    /\ UNCHANGED <<mode, store, diskVars, heads, ownerVars, imported, accepts,
                   importing, failures, have, offered, inbox, work, direct, crashes>>

-----------------------------------------------------------------------------
(***************************************************************************)
(* What surrounds both.                                                     *)
(***************************************************************************)

\* A newer record reaches a replica, and #onStorageChange queues its value.
Replicate(s, d) ==
    /\ Up(s) /\ Up(d)
    /\ Newer(store[s], store[d])
    /\ Len(inbox[d]) < MaxInbox
    /\ store' = [store EXCEPT ![d] = store[s]]
    /\ inbox' = [inbox EXCEPT ![d] = Append(@, store[s].snap)]
    /\ UNCHANGED <<mode, diskVars, heads, ownerVars, importVars, have, offered,
                   work, direct, crashes>>

\* Where it matters: before a kill.
CanCrash(d) == d \in Crashable /\ crashes < MaxCrashes /\ Up(d)

\* The head of some other device is accepted, and the state saved for it: the
\* state is taken when the save begins and lands when the rename is done.
SaveForAnotherHead(d) ==
    /\ CanCrash(d)
    /\ saving[d] = {}
    /\ saving' = [saving EXCEPT
          ![d] = {[head |-> heads[d], imported |-> imported[d]]}]
    /\ UNCHANGED <<mode, store, flushed, saved, heads, ownerVars, importVars, have,
                   offered, inbox, work, direct, crashes>>

SaveLands(d) ==
    /\ \E state \in saving[d] : saved' = [saved EXCEPT ![d] = state]
    /\ saving' = [saving EXCEPT ![d] = {}]
    /\ UNCHANGED <<mode, store, flushed, heads, ownerVars, importVars, have,
                   offered, inbox, work, direct, crashes>>

\* The debounced flush of native-storage.js.
Flush(d) ==
    /\ CanCrash(d)
    /\ flushed[d] # store[d]
    /\ flushed' = [flushed EXCEPT ![d] = store[d]]
    /\ UNCHANGED <<mode, store, saved, saving, heads, ownerVars, importVars, have,
                   offered, inbox, work, direct, crashes>>

\* The process is killed.  The next start reads what is on disk.
Crash(d) ==
    /\ CanCrash(d)
    /\ crashes' = crashes + 1
    /\ mode' = [mode EXCEPT ![d] = "down"]
    /\ store' = [store EXCEPT ![d] = flushed[d]]
    /\ heads' = [heads EXCEPT ![d] = None]
    /\ imported' = [imported EXCEPT ![d] = None]
    /\ saving' = [saving EXCEPT ![d] = {}]
    /\ offered' = [offered EXCEPT ![d] = {}]
    /\ inbox' = [inbox EXCEPT ![d] = <<>>]
    /\ work' = [work EXCEPT ![d] = "idle"]
    /\ direct' = [direct EXCEPT ![d] = "idle"]
    /\ accepts' = [accepts EXCEPT ![d] = <<>>]
    /\ importing' = [importing EXCEPT ![d] = FALSE]
    /\ backoff' = [backoff EXCEPT ![d] = None]
    /\ IF d = Owner THEN desired' = None /\ pub' = Idle /\ puts' = <<>>
                    ELSE UNCHANGED <<desired, pub, puts>>
    /\ UNCHANGED <<content, edits, flushed, saved, have, failures>>

OwnerNext ==
    \/ \E c \in Snapshot : Edit(c)
    \/ StartOwner \/ RefreshOwner \/ ReconcileOwnHead \/ ObserveOwnHead
    \/ NothingToPublish \/ PublishLocal \/ SeedManifest \/ Put \/ RecordHead
    \/ AcceptOwnHead

ImporterNext(d) ==
    \/ StartImporter(d) \/ RefreshImporter(d) \/ RefreshHead(d) \/ HandleEvent(d)
    \/ AcceptHead(d) \/ Import(d) \/ ImportUnavailable(d) \/ ImportRefused(d)
    \/ BackoffEnds(d)

Next ==
    \/ OwnerNext
    \/ \E d \in Importer : ImporterNext(d)
    \/ \E d \in Device :
          \/ \E s \in Device : Replicate(s, d)
          \/ SaveForAnotherHead(d) \/ SaveLands(d) \/ Flush(d) \/ Crash(d)

Spec == Init /\ [][Next]_vars

\* What was begun goes on: awaited calls return, the queue and the timers run,
\* replicas of devices that are up exchange what is newer, the watcher notices
\* a change (the subject of PublishScheduler), and a device is started again.
Fairness ==
    /\ WF_vars(StartOwner)
    /\ WF_vars(ReconcileOwnHead) /\ WF_vars(ObserveOwnHead)
    /\ WF_vars(NothingToPublish) /\ WF_vars(PublishLocal)
    /\ WF_vars(SeedManifest) /\ WF_vars(Put) /\ WF_vars(RecordHead)
    /\ WF_vars(AcceptOwnHead)
    /\ \A d \in Importer :
          /\ WF_vars(StartImporter(d))
          /\ WF_vars(RefreshHead(d)) /\ WF_vars(HandleEvent(d)) /\ WF_vars(AcceptHead(d))
          /\ WF_vars(Import(d) \/ ImportUnavailable(d) \/ ImportRefused(d))
          /\ WF_vars(BackoffEnds(d))
    /\ \A d, s \in Device : WF_vars(Replicate(s, d))

\* ... and peers go on connecting, which is what makes a device refresh.
Reconnects ==
    /\ WF_vars(RefreshOwner)
    /\ \A d \in Importer : WF_vars(RefreshImporter(d))
ReconnectSpec == Spec /\ Fairness /\ Reconnects

-----------------------------------------------------------------------------
(***************************************************************************)
(* Properties.                                                              *)
(***************************************************************************)

\* What SnapshotDelivery promises: no device knows or applies a snapshot the
\* Owner has not stored completely (publishLocal puts the head last, and so
\* does every restart), it applies only the one it knows, and a restart finds
\* the head and the import of one and the same moment.
Delivery == INSTANCE SnapshotDelivery
              WITH stored <- have[Owner], known <- heads, applied <- imported,
                   kept <- [d \in Device |-> saving[d] \cup {saved[d]}]
DeliversSnapshots == Delivery!Spec

\* Whatever was in flight together, an event handled late, a refresh that
\* overtook it, a restart: a device with nothing left to do takes for the
\* Owner's newest snapshot the one its replica names (#onStorageChange,
\* #refreshHead and #acceptHead).
Quiet(d) ==
    /\ mode[d] = "started"
    /\ work[d] = "idle" /\ direct[d] = "idle"
    /\ inbox[d] = <<>>
HeadFollowsReplica ==
    \A d \in Importer :
        Quiet(d) /\ store[d].ver > 0 => heads[d] = store[d].snap

\* README.md:388: the "head record points to each device's newest immutable
\* manifest".  An Owner that has nothing left to do has a record that names
\* the snapshot it published last.
\* Known not to hold (README): the reconcile of a refresh crosses a publication.
RecordNamesNewest ==
    Quiet(Owner) /\ pub = Idle => store[Owner].snap = heads[Owner]

\* README.md:394: the cache "re-seeds PeerPigeon's in-memory Node storage when
\* the watcher restarts".  A started Owner offers the snapshot of its head.
\* Known not to hold (README): an Owner killed between put and save.
HeadIsOffered ==
    mode[Owner] = "started" => heads[Owner] \in offered[Owner]

\* The comment in reconcileOwnHead: a restart preserves "the locally cached Git
\* head across process restarts".  While nothing is being published or saved,
\* the state file holds the head that was published last.
\* Known not to hold (README): a save of another head lands late.
HeadIsSaved ==
    Quiet(Owner) /\ pub = Idle /\ saving[Owner] = {}
        => saved[Owner].head = heads[Owner]

\* Once the repository changes no more, every device that stays up ends with
\* its content: heads overtaken by others, imports that failed and replicas
\* that lost a write all come right while peers go on connecting.
EverybodyCatchesUp ==
    <>[](\A d \in Device : heads[d] = content /\ (d # Owner => imported[d] = content))

=============================================================================
