--------------------------- MODULE DeviceRegistry ---------------------------
(***************************************************************************)
(* How the devices of one repository learn of each other: the registry      *)
(* record of src/src/protocol.js (RepositorySynchronizer), one public key   *)
(* that every device reads, unions with what it knows and writes back.      *)
(*                                                                          *)
(* Two activities of one device touch the registry: the `work` queue, which *)
(* handles a remote write when its turn comes, with the value the event     *)
(* carried; and a direct call, start() or refresh(), which runs beside the  *)
(* queue.  Each awaits between reading, comparing and writing, so both are  *)
(* split where the code awaits.                                             *)
(*                                                                          *)
(* The PeerPigeon store is external.  Each device holds a replica of the    *)
(* record; a put raises the version of the replica it finds; a replica      *)
(* takes a record only when it is newer, and tells the subscriber.          *)
(***************************************************************************)
EXTENDS Naturals, Sequences

CONSTANTS
    Device,      \* device ids, as numbers: the store breaks version ties by them
    Killable,    \* the devices that may end, also with a flush of the replica due
    MaxInbox,    \* bound: registry events waiting in one queue
    MaxCrashes   \* bound: how often a device may crash, in all

ASSUME DeviceAssumption == Device \subseteq Nat /\ Killable \subseteq Device
ASSUME BoundAssumption == MaxInbox \in Nat /\ MaxCrashes \in Nat

VARIABLES
    up,               \* is the device's synchronizer started?
    store,            \* each device's replica of the registry record (external)
    flushed,          \* the replica as last flushed to disk, where that matters
    devices,          \* this.devices
    registryDevices,  \* this.registryDevices: the registry as last seen or written
    saved,            \* the devices whose head is in the state file
    inbox,            \* this.work: registry values waiting for the queue
    pc,               \* where each activity of a device is
    value,            \* the set an activity is writing
    puts,             \* calls of put the store has not carried out, in order
    starting,         \* the direct call is start(), which compares twice
    crashes           \* how many crashes there were

vars == <<up, store, flushed, devices, registryDevices, saved, inbox, pc, value,
          puts, starting, crashes>>

Activity == {"work", "direct"}
Phase == {"idle", "retrieve", "putting", "stored", "again"}

NoRecord == [ver |-> 0, by |-> 0, devs |-> {}]
Record == [ver : Nat, by : Nat, devs : SUBSET Device]

\* The order of two versions of one key: the version, then the writer.
Newer(r, q) == r.ver > q.ver \/ (r.ver = q.ver /\ r.by > q.by)

Idle == [w \in Activity |-> "idle"]
Nobody == [w \in Activity |-> {}]

TypeOK ==
    /\ up \in [Device -> BOOLEAN]
    /\ store \in [Device -> Record]
    /\ flushed \in [Device -> Record]
    /\ devices \in [Device -> SUBSET Device]
    /\ registryDevices \in [Device -> SUBSET Device]
    /\ saved \in [Device -> SUBSET Device]
    /\ inbox \in [Device -> Seq(SUBSET Device)]
    /\ pc \in [Device -> [Activity -> Phase]]
    /\ value \in [Device -> [Activity -> SUBSET Device]]
    /\ puts \in [Device -> Seq(Activity)]
    /\ starting \in [Device -> BOOLEAN]
    /\ crashes \in Nat

Init ==
    /\ up = [d \in Device |-> FALSE]
    /\ store = [d \in Device |-> NoRecord]
    /\ flushed = [d \in Device |-> NoRecord]
    /\ devices = [d \in Device |-> {}]
    /\ registryDevices = [d \in Device |-> {}]
    /\ saved = [d \in Device |-> {}]
    /\ inbox = [d \in Device |-> <<>>]
    /\ pc = [d \in Device |-> Idle]
    /\ value = [d \in Device |-> Nobody]
    /\ puts = [d \in Device |-> <<>>]
    /\ starting = [d \in Device |-> FALSE]
    /\ crashes = 0

-----------------------------------------------------------------------------
\* start(): the devices of the saved heads are known again, the registry key
\* is subscribed, and the registry is retrieved.
Start(d) ==
    /\ ~up[d]
    /\ up' = [up EXCEPT ![d] = TRUE]
    /\ devices' = [devices EXCEPT ![d] = {d} \cup saved[d]]
    /\ pc' = [pc EXCEPT ![d]["direct"] = "retrieve"]
    /\ starting' = [starting EXCEPT ![d] = TRUE]
    /\ UNCHANGED <<store, flushed, registryDevices, saved, inbox, value, puts,
                   crashes>>

\* refresh(), which the service calls when a peer connects.
Refresh(d) ==
    /\ up[d]
    /\ pc[d]["direct"] = "idle"
    /\ pc' = [pc EXCEPT ![d]["direct"] = "retrieve"]
    /\ UNCHANGED <<up, store, flushed, devices, registryDevices, saved, inbox,
                   value, puts, starting, crashes>>

\* Mutant of Finish: the activity does not come to rest.
FinishForGood(d, w) ==
    /\ pc' = [pc EXCEPT ![d][w] =
                 IF w = "direct" /\ starting[d] THEN "again" ELSE "done"]
    /\ starting' = IF w = "direct" THEN [starting EXCEPT ![d] = FALSE]
                                   ELSE starting

\* The activity is done.  start() looks at the registry once more.
Finish(d, w) ==
    /\ pc' = [pc EXCEPT ![d][w] =
                 IF w = "direct" /\ starting[d] THEN "again" ELSE "idle"]
    /\ starting' = IF w = "direct" THEN [starting EXCEPT ![d] = FALSE]
                                   ELSE starting

\* Mutant of PublishRegistryIfNeeded: a device takes itself for announced.
PublishRegistryOfOthers(d, w) ==
    \/ /\ devices'[d] \subseteq registryDevices'[d] \cup {d}
       /\ Finish(d, w)
       /\ UNCHANGED <<value, puts>>
    \/ /\ ~(devices'[d] \subseteq registryDevices'[d] \cup {d})
       /\ value' = [value EXCEPT ![d][w] = devices'[d]]
       /\ puts' = [puts EXCEPT ![d] = Append(@, w)]
       /\ pc' = [pc EXCEPT ![d][w] = "putting"]
       /\ UNCHANGED starting

\* #publishRegistryIfNeeded, up to the call of put, which gets the set of
\* this moment.
PublishRegistryIfNeeded(d, w) ==
    \/ /\ devices'[d] = registryDevices'[d]
       /\ Finish(d, w)
       /\ UNCHANGED <<value, puts>>
    \/ /\ devices'[d] # registryDevices'[d]
       /\ value' = [value EXCEPT ![d][w] = devices'[d]]
       /\ puts' = [puts EXCEPT ![d] = Append(@, w)]
       /\ pc' = [pc EXCEPT ![d][w] = "putting"]
       /\ UNCHANGED starting

\* #acceptRegistry: the value becomes the registry as last seen, its devices
\* are known from now on, and the union is written back when it differs.
\* #subscribeKnownHeads, in between, waits for nothing.
AcceptRegistry(d, w, devs) ==
    /\ registryDevices' = [registryDevices EXCEPT ![d] = devs]
    /\ devices' = [devices EXCEPT ![d] = @ \cup devs \cup {d}]
    /\ PublishRegistryIfNeeded(d, w)

\* #retrieveMutable finds a record: a held record is never asked for again.
RetrieveHeld(d) ==
    /\ pc[d]["direct"] = "retrieve"
    /\ store[d].ver > 0
    /\ AcceptRegistry(d, "direct", store[d].devs)
    /\ UNCHANGED <<up, store, flushed, saved, inbox, crashes>>

\* No record is held, and a device that is up answers with its own.
RetrieveAsked(d, s) ==
    /\ pc[d]["direct"] = "retrieve"
    /\ store[d].ver = 0
    /\ up[s]
    /\ store[s].ver > 0
    /\ store' = [store EXCEPT ![d] = store[s]]
    /\ AcceptRegistry(d, "direct", store[s].devs)
    /\ UNCHANGED <<up, flushed, saved, inbox, crashes>>

\* Nobody answered in time, or the key was asked for less than a minute ago.
RetrieveNothing(d) ==
    /\ pc[d]["direct"] = "retrieve"
    /\ store[d].ver = 0
    /\ devices' = [devices EXCEPT ![d] = @ \cup {d}]
    /\ UNCHANGED registryDevices
    /\ PublishRegistryIfNeeded(d, "direct")
    /\ UNCHANGED <<up, store, flushed, saved, inbox, crashes>>

\* The queue reaches a registry event: the value is the one the event carried.
HandleEvent(d) ==
    /\ pc[d]["work"] = "idle"
    /\ inbox[d] # <<>>
    /\ AcceptRegistry(d, "work", Head(inbox[d]))
    /\ inbox' = [inbox EXCEPT ![d] = Tail(@)]
    /\ UNCHANGED <<up, store, flushed, saved, crashes>>

\* The second comparison of start().
CompareAgain(d) ==
    /\ pc[d]["direct"] = "again"
    /\ UNCHANGED <<devices, registryDevices>>
    /\ PublishRegistryIfNeeded(d, "direct")
    /\ UNCHANGED <<up, store, flushed, saved, inbox, crashes>>

\* Mutant of Put: a device's second write does not raise the version.
PutUnversioned(d, w) ==
    /\ puts[d] # <<>> /\ w = Head(puts[d])
    /\ puts' = [puts EXCEPT ![d] = Tail(@)]
    /\ store' = [store EXCEPT
          ![d] = [ver  |-> IF store[d].by = d THEN store[d].ver ELSE store[d].ver + 1,
                  by   |-> d,
                  devs |-> value[d][w]]]
    /\ pc' = [pc EXCEPT ![d][w] = "stored"]
    /\ UNCHANGED <<up, flushed, devices, registryDevices, saved, inbox, value,
                   starting, crashes>>

\* The store carries out its calls in order: the set is written over whatever
\* the replica holds by now.
Put(d, w) ==
    /\ puts[d] # <<>> /\ w = Head(puts[d])
    /\ puts' = [puts EXCEPT ![d] = Tail(@)]
    /\ store' = [store EXCEPT ![d] = [ver  |-> store[d].ver + 1,
                                      by   |-> d,
                                      devs |-> value[d][w]]]
    /\ pc' = [pc EXCEPT ![d][w] = "stored"]
    /\ UNCHANGED <<up, flushed, devices, registryDevices, saved, inbox, value,
                   starting, crashes>>

\* put returns: what was written is the registry as last seen.
PutReturns(d, w) ==
    /\ pc[d][w] = "stored"
    /\ registryDevices' = [registryDevices EXCEPT ![d] = value[d][w]]
    /\ value' = [value EXCEPT ![d][w] = {}]
    /\ Finish(d, w)
    /\ UNCHANGED <<up, store, flushed, devices, saved, inbox, puts, crashes>>

\* A head of a known device is accepted: the state file now names the device.
\* Only a later start reads it, so it is left out where no crash can follow.
SaveHead(d, o) ==
    /\ d \in Killable
    /\ up[d]
    /\ crashes < MaxCrashes
    /\ o \in devices[d] \ (saved[d] \cup {d})
    /\ saved' = [saved EXCEPT ![d] = @ \cup {o}]
    /\ UNCHANGED <<up, store, flushed, devices, registryDevices, inbox, pc,
                   value, puts, starting, crashes>>

\* A newer record reaches a replica, and #onStorageChange queues its value.
Replicate(s, d) ==
    /\ up[s] /\ up[d]
    /\ Newer(store[s], store[d])
    /\ Len(inbox[d]) < MaxInbox
    /\ store' = [store EXCEPT ![d] = store[s]]
    /\ inbox' = [inbox EXCEPT ![d] = Append(@, store[s].devs)]
    /\ UNCHANGED <<up, flushed, devices, registryDevices, saved, pc, value,
                   puts, starting, crashes>>

\* The debounced flush of native-storage.js writes the replica to disk, and so does a
\* shutdown.  It is followed only where the process may end.
Flush(d) ==
    /\ d \in Killable
    /\ crashes < MaxCrashes
    /\ up[d]
    /\ flushed[d] # store[d]
    /\ flushed' = [flushed EXCEPT ![d] = store[d]]
    /\ UNCHANGED <<up, store, devices, registryDevices, saved, inbox, pc, value,
                   puts, starting, crashes>>

\* The process ends.  Memory is gone, and with it what was not flushed.
Crash(d) ==
    /\ d \in Killable
    /\ up[d]
    /\ crashes < MaxCrashes
    /\ crashes' = crashes + 1
    /\ up' = [up EXCEPT ![d] = FALSE]
    /\ store' = [store EXCEPT ![d] = flushed[d]]
    /\ devices' = [devices EXCEPT ![d] = {}]
    /\ registryDevices' = [registryDevices EXCEPT ![d] = {}]
    /\ inbox' = [inbox EXCEPT ![d] = <<>>]
    /\ pc' = [pc EXCEPT ![d] = Idle]
    /\ value' = [value EXCEPT ![d] = Nobody]
    /\ puts' = [puts EXCEPT ![d] = <<>>]
    /\ starting' = [starting EXCEPT ![d] = FALSE]
    /\ UNCHANGED <<flushed, saved>>

Retrieve(d) ==
    RetrieveHeld(d) \/ RetrieveNothing(d) \/ \E s \in Device : RetrieveAsked(d, s)

Next ==
    \E d \in Device :
        \/ Start(d) \/ Refresh(d) \/ Flush(d) \/ Crash(d)
        \/ RetrieveHeld(d) \/ RetrieveNothing(d)
        \/ HandleEvent(d) \/ CompareAgain(d)
        \/ \E w \in Activity : Put(d, w) \/ PutReturns(d, w)
        \/ \E s \in Device : SaveHead(d, s) \/ RetrieveAsked(d, s) \/ Replicate(s, d)

Spec == Init /\ [][Next]_vars

\* Started calls go on, queued events are handled, and replicas of devices
\* that are up exchange what is newer.
Fairness ==
    \A d \in Device :
        /\ WF_vars(Start(d))
        /\ WF_vars(Retrieve(d))
        /\ WF_vars(HandleEvent(d))
        /\ WF_vars(CompareAgain(d))
        /\ \A w \in Activity : WF_vars(Put(d, w)) /\ WF_vars(PutReturns(d, w))
        /\ \A s \in Device : WF_vars(Replicate(s, d))

\* ... and peers go on connecting, which is what makes the service refresh.
ReconnectSpec ==
    Spec /\ Fairness /\ \A d \in Device : WF_vars(Refresh(d))

-----------------------------------------------------------------------------
(***************************************************************************)
(* Properties.                                                              *)
(***************************************************************************)

Quiet(d) ==
    /\ up[d]
    /\ inbox[d] = <<>>
    /\ pc[d] = Idle

\* A version and its writer name one value: two replicas that carry the same
\* stamp of a writer that was never killed hold the same registry, so
\* refusing the record that is not newer never hides a difference.  What
\* storage versions are for in #put and native-storage.js.
StampsAgree ==
    \A d, e \in Device :
        /\ store[d].ver = store[e].ver
        /\ store[d].by = store[e].by
        /\ store[d].by \notin Killable
        => store[d].devs = store[e].devs

\* A device that has nothing left to do has announced every device it knows:
\* what docs/PROTOCOL.md says of the registry ("unions that set with its
\* locally known IDs and republishes only when the union differs").
\* Known not to hold (README): three devices, no crash.
KnownIsAnnounced ==
    \A d \in Device : Quiet(d) => devices[d] \subseteq store[d].devs

\* Whatever writes were lost to each other on the way, the registry ends up
\* naming every device in every replica, and every device knows all others,
\* while peers go on connecting (start, #acceptRegistry, refresh).
RegistryConverges ==
    <>[](\A d \in Device : store[d].devs = Device /\ devices[d] = Device)

=============================================================================
