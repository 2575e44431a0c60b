----------------------------- MODULE MCMachines -----------------------------
(***************************************************************************)
(* For TLC: what a session does on its own machine (PublishScheduler,        *)
(* NativeStorage), and what machines record for each other (FleetDirectory,   *)
(* TerminalHistory).  They share no state, so a behaviour follows one of      *)
(* them, `part`, and the others stay as they begin.                          *)
(***************************************************************************)
EXTENDS NativeStorage, PublishScheduler, FleetDirectory, TerminalHistory

VARIABLE part

MCInit ==
    /\ part \in {"scheduler", "store", "directory", "history"}
    /\ Init /\ StoreInit /\ DirectoryInit /\ HistoryInit
MCNext ==
    /\ part' = part
    /\ \/ part = "scheduler" /\ Next /\ UNCHANGED <<storeVars, dvars, hvars>>
       \/ part = "store" /\ StoreNext /\ UNCHANGED <<vars, dvars, hvars>>
       \/ part = "directory" /\ DirectoryNext /\ UNCHANGED <<vars, storeVars, hvars>>
       \/ part = "history" /\ HistoryNext /\ UNCHANGED <<vars, storeVars, dvars>>

Schedules == part = "scheduler"
Stores == part = "store"
Indexes == part = "directory"
Recalls == part = "history"
\* Timers fire, the watcher tells what it has seen, awaited calls return, a write ends;
\* the synchronisation of a machine goes on, and often enough reads what the others have
\* published; the record of the store spreads.
MCSpec ==
    /\ MCInit /\ [][MCNext]_<<part, vars, storeVars, dvars, hvars>>
    /\ WF_vars(Schedules /\ Activate) /\ WF_vars(Schedules /\ (StartPublishes \/ StartThrows))
    /\ WF_vars(Schedules /\ ReadStartDigest) /\ WF_vars(Schedules /\ StartDone)
    /\ WF_vars(Schedules /\ FilesystemChanged) /\ WF_vars(Schedules /\ TimerFires)
    /\ WF_vars(Schedules /\ PollFires) /\ WF_vars(Schedules /\ ReadDigest)
    /\ WF_vars(Schedules /\ (PublishLocal \/ PublishFails))
    /\ WF_vars(Schedules /\ RecordDigest) /\ WF_vars(Schedules /\ ShareDone)
    /\ WF_storeVars(Stores /\ FlushTimerFires)
    /\ WF_storeVars(Stores /\ \E w \in writes : WriteLands(w) \/ WriteFails(w))
    /\ \A m \in Machine :
          /\ WF_dvars(Indexes /\ Publish(m)) /\ SF_dvars(Indexes /\ SyncReads(m, Machine \ {m}))
          /\ WF_dvars(Indexes /\ SyncDrops(m)) /\ WF_dvars(Indexes /\ SyncLooks(m))
          /\ WF_dvars(Indexes /\ Materialize(m))
    /\ \A h \in Host :
          /\ WF_hvars(Recalls /\ ReadToPublish(h)) /\ WF_hvars(Recalls /\ Published(h))
          /\ WF_hvars(Recalls /\ MergeReplica(h))
          /\ \A g \in Host : WF_hvars(Recalls /\ Spread(g, h))

\* The variables of the parts keep their types.
TypesOK == TypeOK /\ StoreTypeOK /\ DirectoryTypeOK /\ HistoryTypeOK
=============================================================================
