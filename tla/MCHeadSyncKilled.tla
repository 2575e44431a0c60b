-------------------------- MODULE MCHeadSyncKilled --------------------------
(***************************************************************************)
(* HeadSync for TLC with kills: one device of Crashable is the one that may  *)
(* be killed in a behaviour.  Only it refreshes once it is started (the      *)
(* others do in MCHeadSync), an Owner not after the kill, and imports fail   *)
(* only beside the Importer's kills.                                         *)
(***************************************************************************)
EXTENDS HeadSync

VARIABLE killable

MCInit == killable \in Crashable /\ Init
MCNext ==
    /\ killable' = killable
    /\ Next
    /\ \A d \in Device \ {killable} :
          /\ saving'[d] = saving[d] /\ flushed'[d] = flushed[d]
          /\ mode'[d] = "down" => mode[d] = "down"
          /\ mode[d] = "started" /\ direct[d] = "idle" => direct'[d] = "idle"
    /\ killable = Owner =>
          /\ failures' = failures
          /\ crashes > 0 /\ mode[Owner] = "started" /\ direct[Owner] = "idle"
                => direct'[Owner] = "idle"
MCSpec == MCInit /\ [][MCNext]_<<killable, vars>>
=============================================================================
