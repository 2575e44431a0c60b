---------------------------- MODULE MCLiveOverlay ----------------------------
(***************************************************************************)
(* LiveOverlay for TLC.  The devices are alike; a behaviour has either a     *)
(* crash or what its users take back, not both.                             *)
(***************************************************************************)
EXTENDS LiveOverlay

Alike == Permutations(Device)

MCNext == Next /\ (undos' = 0 \/ crashes' = 0)
MCSpec == Init /\ [][MCNext]_vars
=============================================================================
