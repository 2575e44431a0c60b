-------------------------- MODULE MCRepositoryData --------------------------
(***************************************************************************)
(* For TLC: the store of snapshots, and a file that is edited live.  They      *)
(* share no state here: a behaviour follows the store, or one aspect of the   *)
(* file, `part`:                                                              *)
(*   seeds   nobody edits; copies differ, watchers and browsers come back,    *)
(*   types   browsers type, and the copies begin the same,                    *)
(*   disk    the copy of the first watcher is edited on its disk, and the      *)
(*           browser only asks.                                               *)
(* Snapshots 1 and 2 are of one commit with different edits, 2 has a file in  *)
(* its trash, and 3 is the other device's, whose edit is that of 1.           *)
(***************************************************************************)
EXTENDS SnapshotCache, RealtimeDocument

VARIABLE part

SomeBundles == [s \in Snapshot |-> IF s \in {1, 2} THEN {"bundle"} ELSE {"other bundle"}]
SomeFiles == [s \in Snapshot |-> IF s = 2 THEN {"file"} ELSE {"edited file"}]
NoTrash == [s \in Snapshot |-> {}]
StandardTwo == [r \in {"standard", "transient"} |-> IF r = "standard" THEN 2 ELSE 1]

MCInit ==
    /\ part \in {"store", "seeds", "types", "disk"}
    /\ Init /\ RealtimeInit
    /\ part # "seeds" => \A v, w \in Watcher : file[v] = file[w]
    /\ part \in {"store", "disk"} => file = [w \in Watcher |-> {{0}}]
Aspect ==
    /\ part = "seeds" => UNCHANGED pieces
    /\ part = "types" => file' = file \/ writing' # writing
    /\ part = "disk" => /\ UNCHANGED tab
                        /\ \A w \in Watcher :
                             \/ file'[w] = file[w] \/ writing' # writing
                             \/ w = 1 /\ UNION file[w] \subseteq UNION file'[w]
MCNext ==
    /\ part' = part
    /\ \/ part = "store" /\ Next /\ UNCHANGED rvars
       \/ part # "store" /\ RealtimeNext /\ Aspect /\ UNCHANGED vars
MCSpec == MCInit /\ [][MCNext]_<<part, vars, rvars>>

\* The variables of both keep their types.
TypesOK == TypeOK /\ RealtimeTypeOK
=============================================================================
