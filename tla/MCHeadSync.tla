----------------------------- MODULE MCHeadSync -----------------------------
(***************************************************************************)
(* HeadSync for TLC without kills, which are the subject of                  *)
(* MCHeadSyncKilled: a device is started once, and stays up.                 *)
(***************************************************************************)
EXTENDS HeadSync

MCNext == Next /\ UNCHANGED <<crashes, saving, flushed>>
MCSpec == Init /\ [][MCNext]_vars /\ Fairness /\ Reconnects
=============================================================================
