------------------------------- MODULE MCFleet -------------------------------
(***************************************************************************)
(* What the watchers of a fleet do with each other, for TLC.  The parts share *)
(* no state here: each behaviour follows one of them, `part`, and the others   *)
(* stay as they begin.                                                        *)
(***************************************************************************)
EXTENDS PeerUpdate, FleetReunion

VARIABLE part

MCFingerprint == [s \in 1..4 |-> <<3, 1, 4, 2>>[s]]

MCInit ==
    /\ part \in {"update", "reunion"}
    /\ PeerInit /\ (part # "update" => \A p \in Peer : peer[p] = [version |-> 1, route |-> TRUE])
    /\ FleetInit
MCNext ==
    /\ part' = part
    /\ \/ part = "update" /\ PeerNext /\ UNCHANGED fvars
       \/ part = "reunion" /\ FleetNext /\ UNCHANGED pvars

Updates == part = "update" /\ installed = 0
Reunites == part = "reunion"
MCSpec ==
    /\ MCInit /\ [][MCNext]_<<part, pvars, fvars>>
    /\ WF_pvars(Updates /\ AskAgain) /\ WF_pvars(Updates /\ Stalls)
    /\ WF_pvars(Updates /\ AbandonRemoves) /\ WF_pvars(Updates /\ AbandonDone)
    /\ WF_pvars(Updates /\ Begins) /\ WF_pvars(Updates /\ Reads)
    /\ WF_pvars(Updates /\ Lands) /\ WF_pvars(Updates /\ Finishes)
    /\ \A p \in Peer : WF_pvars(Updates /\ Offer(p)) /\ SF_pvars(Updates /\ ForgetUnroutable(p))
    /\ \A m \in Machine : WF_fvars(Reunites /\ Announce(m))
    /\ \A m, n \in Machine : WF_fvars(Reunites /\ Heard(m, n)) /\ WF_fvars(Reunites /\ Sealed(m, n))

\* The variables of the parts keep their types: an index always names a secret that was
\* minted, and a fetch never claims a slice past the end of the executable.
TypesOK == PeerTypeOK /\ FleetTypeOK
=============================================================================
