-------------------------- MODULE SnapshotDelivery --------------------------
(***************************************************************************)
(* What the head protocol of src/src/protocol.js promises about one owner's *)
(* snapshots, without records, queues, retries or flushes: a device learns  *)
(* only of a snapshot that the owner has stored completely, it applies only *)
(* the snapshot it has last learned of, and a restart takes it back to a    *)
(* point it was at and kept.                                                *)
(***************************************************************************)
EXTENDS Naturals

CONSTANTS
    Device,      \* the devices of one repository
    Snapshot     \* the snapshots the owner may publish, as positive numbers

None == 0

VARIABLES
    stored,      \* the snapshots the owner has stored completely
    known,       \* the snapshot each device takes for the owner's newest
    applied,     \* the snapshot each device has applied last
    kept         \* what a restart of the device may find of the two

vars == <<stored, known, applied, kept>>

Point(k, a) == [head |-> k, imported |-> a]

Init ==
    /\ stored = {}
    /\ known = [d \in Device |-> None]
    /\ applied = [d \in Device |-> None]
    /\ kept = [d \in Device |-> {Point(None, None)}]

\* The point a device is at after the step may be kept, and any be dropped.
Keeps(d) ==
    /\ kept'[d] \subseteq kept[d] \cup {Point(known'[d], applied'[d])}
    /\ \A e \in Device \ {d} : kept'[e] = kept[e]

\* The owner stores a snapshot: chunks, then the manifest.
StoreAll(s) ==
    /\ stored' = stored \cup {s}
    /\ UNCHANGED <<known, applied, kept>>

\* A device learns of a snapshot.
Learn(d, s) ==
    /\ s \in stored
    /\ known' = [known EXCEPT ![d] = s]
    /\ Keeps(d)
    /\ UNCHANGED <<stored, applied>>

\* A device applies the snapshot it knows.
Apply(d) ==
    /\ applied' = [applied EXCEPT ![d] = known[d]]
    /\ Keeps(d)
    /\ UNCHANGED <<stored, known>>

\* What a restart will find changes.
Save(d) ==
    /\ Keeps(d)
    /\ UNCHANGED <<stored, known, applied>>

\* A device is killed, and later started again with what was kept.
Kill(d) ==
    /\ known' = [known EXCEPT ![d] = None]
    /\ applied' = [applied EXCEPT ![d] = None]
    /\ kept'[d] \subseteq kept[d]
    /\ \A e \in Device \ {d} : kept'[e] = kept[e]
    /\ UNCHANGED stored

Restart(d) ==
    /\ known[d] = None /\ applied[d] = None
    /\ \E p \in kept[d] :
          /\ known' = [known EXCEPT ![d] = p.head]
          /\ applied' = [applied EXCEPT ![d] = p.imported]
    /\ UNCHANGED <<stored, kept>>

Next ==
    \/ \E s \in Snapshot : StoreAll(s)
    \/ \E d \in Device :
          \/ \E s \in Snapshot : Learn(d, s)
          \/ Apply(d) \/ Save(d) \/ Kill(d) \/ Restart(d)

Spec == Init /\ [][Next]_vars

=============================================================================
