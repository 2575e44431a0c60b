--------------------------- MODULE WatcherService ---------------------------
(***************************************************************************)
(* The machine-wide watcher as a process (src/src/daemon.js, runWatchService *)
(* and the start, stop and restart commands of src/src/cli.js, the launchd   *)
(* agent of src/src/native-install.js).  Processes meet in four files: the   *)
(* start lock, the state (who serves, is it ready, its heartbeat), a command *)
(* for one service, and the installed update.                                *)
(*                                                                           *)
(* A start takes the lock, looks at the state, terminates every watcher it   *)
(* can list, spawns one and waits until that is ready.  A service that has   *)
(* installed an update is such a starter itself, after its own teardown.     *)
(***************************************************************************)
EXTENDS Naturals, FiniteSets

CONSTANTS
    Service,     \* processes of the service
    Caller,      \* git pigeon commands, and the supervision agent
    Command,     \* what each of them may run: start, stop, restart
    Watchdog,    \* the callers that are started again and again while it is loaded
    CallerVersion, \* which build each of them is
    MaxVersion,  \* bound: versions that are released
    Broken,      \* versions that verify and then do not become ready
    MaxReplaced, \* bound: services that stop for an update or a rotation
    MaxCrashes,  \* bound: services killed
    MaxKills,    \* bound: commands killed
    MaxStalls,   \* bound: services that miss heartbeats, or holders that are slow
    MaxSlow      \* bound: services that take longer than a start waits

Starter == Caller \cup Service
Version == 1..MaxVersion
None == "none"

ASSUME NoneAssumption == None \notin Starter /\ Service \cap Caller = {}
ASSUME CommandAssumption ==
    /\ Command \in [Caller -> SUBSET {"start", "stop", "restart"}]
    /\ Watchdog \subseteq Caller /\ \A c \in Watchdog : Command[c] = {"start"}
    /\ CallerVersion \in [Caller -> Version]
ASSUME BoundAssumption ==
    /\ MaxVersion \in Nat \ {0} /\ Broken \subseteq Version
    /\ MaxReplaced \in Nat /\ MaxCrashes \in Nat /\ MaxKills \in Nat /\ MaxStalls \in Nat /\ MaxSlow \in Nat

VARIABLES
    svc,        \* the processes of the service
    act,        \* what each starter is doing
    lock,       \* service-start.lock: who wrote it, is it older than 30 s, who gave up on it
    state,      \* service.json: of whom, ready, heartbeat at most 10 s old
    command,    \* service-command.json: the service that is to stop
    installed,  \* updates/current.json: the version, 0 for none
    watchdog,   \* the supervision agent: none on this platform, loaded or not
    late,       \* was the state file written by a service that had closed? (history)
    stolen,     \* was a lock removed while its holder lived? (history)
    replaced, crashes, kills, stalls, slow

files == <<lock, state, command, installed, watchdog>>
bounds == <<replaced, crashes, kills, stalls, slow>>
history == <<late, stolen>>
vars == <<svc, act, files, history, bounds>>

-----------------------------------------------------------------------------
Dead == [phase |-> "none", version |-> 1, ready |-> FALSE, stopping |-> FALSE,
         handler |-> TRUE, again |-> 0]
Idle == [pc |-> "idle", kind |-> "start", child |-> None, targets |-> {}, attempt |-> 1]
NoLock == [by |-> None, old |-> FALSE, missed |-> {}]
NoState == [by |-> None, ready |-> FALSE, fresh |-> FALSE]

Phases == {"none", "spawned", "starting", "ready", "serving", "closing", "teardown",
           "restarting"}
Holding == {"check", "list", "kill", "spawn", "await"}
Stopping == {"stop", "stopwait", "stopkill", "sweep", "sweepwait"}

TypeOK ==
    /\ svc \in [Service -> [phase : Phases, version : Version, ready : BOOLEAN,
                            stopping : BOOLEAN, handler : BOOLEAN,
                            again : {0} \cup Version]]
    /\ act \in [Starter -> [pc : {"idle", "lock", "steal", "done"} \cup Holding \cup Stopping,
                            kind : {"start", "stop", "restart"},
                            child : Service \cup {None}, targets : SUBSET Service,
                            attempt : {1, 2}]]
    /\ lock \in [by : Starter \cup {None}, old : BOOLEAN, missed : SUBSET Starter]
    /\ state \in [by : Service \cup {None}, ready : BOOLEAN, fresh : BOOLEAN]
    /\ command \in Service \cup {None}
    /\ installed \in Version \cup {0}
    /\ watchdog \in {None, "loaded", "unloaded"}
    /\ late \in BOOLEAN /\ stolen \in BOOLEAN
    /\ replaced \in 0..MaxReplaced /\ crashes \in 0..MaxCrashes /\ kills \in 0..MaxKills
    /\ stalls \in 0..MaxStalls /\ slow \in 0..MaxSlow

\* A machine whose service was never started, or runs since long; a start that was
\* killed may have left the lock.
Init ==
    /\ \/ svc = [s \in Service |-> Dead] /\ state = NoState /\ watchdog \in {None, "unloaded"}
       \/ \E s \in Service :
            /\ svc = [t \in Service |->
                        IF t = s THEN [Dead EXCEPT !.phase = "serving", !.ready = TRUE] ELSE Dead]
            /\ state = [by |-> s, ready |-> TRUE, fresh |-> TRUE]
            /\ watchdog \in {None, "loaded"}
    /\ act = [a \in Starter |-> Idle]
    /\ lock \in {NoLock} \cup {[NoLock EXCEPT !.by = c] : c \in Caller}
    /\ command = None /\ installed = 0
    /\ late = FALSE /\ stolen = FALSE
    /\ replaced = 0 /\ crashes = 0 /\ kills \in 0..MaxKills /\ stalls = 0 /\ slow = 0

Alive(s) == svc[s].phase # "none"
Polls(s) == svc[s].phase \in {"starting", "ready", "serving"}
Serves(s) == svc[s].phase \in {"ready", "serving"}
Active(a) == act[a].pc \notin {"idle", "done"} /\ (a \in Service => svc[a].phase = "restarting")
Holds(a) == Active(a) /\ act[a].pc \in Holding

\* watchServiceStatus: the process lives and its heartbeat is fresh.
Running == state.by # None /\ state.fresh /\ Alive(state.by)

\* What SIGTERM does: the handler is there from the first lines of runWatchService
\* to the middle of its finally, and serves once.
Signalled(s) ==
    IF svc[s].phase \in {"starting", "ready", "serving", "closing"} /\ svc[s].handler
    THEN [svc[s] EXCEPT !.handler = FALSE, !.stopping = TRUE]
    ELSE Dead
Terminate(S) == svc' = [s \in Service |-> IF s \in S THEN Signalled(s) ELSE svc[s]]
Kill(S) == svc' = [s \in Service |-> IF s \in S THEN Dead ELSE svc[s]]

Goto(a, pc) == act' = [act EXCEPT ![a].pc = pc]

-----------------------------------------------------------------------------
(* Starting: startWatchService under withServiceStartLock                    *)

\* open 'wx'.
TakeLock(a) ==
    /\ Active(a) /\ act[a].pc = "lock"
    /\ lock = NoLock
    /\ lock' = [NoLock EXCEPT !.by = a]
    /\ Goto(a, "check")
    /\ UNCHANGED <<svc, state, command, installed, watchdog, history, bounds>>

\* Mutant of SeesOldLock: only a lock one has waited for in vain.
SeesMissedLock(a) ==
    /\ Active(a) /\ act[a].pc = "lock"
    /\ lock.old /\ a \in lock.missed
    /\ Goto(a, "steal")
    /\ UNCHANGED <<svc, files, history, bounds>>

\* The lock is somebody's, and stat says it is old ...
SeesOldLock(a) ==
    /\ Active(a) /\ act[a].pc = "lock"
    /\ lock.old
    /\ Goto(a, "steal")
    /\ UNCHANGED <<svc, files, history, bounds>>

\* ... and rm takes away the lock that is there by now.
RemoveOldLock(a) ==
    /\ Active(a) /\ act[a].pc = "steal"
    /\ stolen' = (stolen \/ (lock.by # None /\ Holds(lock.by)))
    /\ lock' = NoLock
    /\ Goto(a, "lock")
    /\ UNCHANGED <<svc, state, command, installed, watchdog, late, bounds>>

Ended(a) == IF a \in Caller \ Watchdog
            THEN [Idle EXCEPT !.pc = "done", !.kind = act[a].kind] ELSE Idle

Updates(s) == svc[s].again > svc[s].version

\* Mutant of AfterFailure: the update is taken back, and nothing started.
OnlyTakesBack(a) ==
    /\ act' = [act EXCEPT ![a] = Ended(a)]
    /\ svc' = IF a \in Service THEN [svc EXCEPT ![a] = Dead] ELSE svc
    /\ installed' = IF a \in Service /\ Updates(a) THEN 0 ELSE installed

\* Where a starter goes when its start has failed.  A service tries again with its own
\* build, and takes the update back if that is still the one installed; without an
\* update, or the second time, it ends.
AfterFailure(a) ==
    IF a \in Service /\ Updates(a) /\ act[a].attempt = 1
    THEN /\ act' = [act EXCEPT ![a] = [Idle EXCEPT !.pc = "lock", !.attempt = 2]]
         /\ installed' = 0
         /\ svc' = svc
    ELSE /\ act' = [act EXCEPT ![a] = Ended(a)]
         /\ svc' = IF a \in Service THEN [svc EXCEPT ![a] = Dead] ELSE svc
         /\ installed' = installed

AfterSuccess(a) ==
    /\ act' = [act EXCEPT ![a] = Ended(a)]
    /\ svc' = IF a \in Service THEN [svc EXCEPT ![a] = Dead] ELSE svc

\* 20 s of looking at a lock that is not yet 30 s old.  Nobody does that twice with one.
LockTimesOut(a) ==
    /\ Active(a) /\ act[a].pc = "lock"
    /\ lock.by # None /\ ~lock.old /\ a \notin lock.missed
    /\ lock' = [lock EXCEPT !.missed = @ \cup {a}]
    /\ AfterFailure(a)
    /\ UNCHANGED <<state, command, watchdog, history, bounds>>

BuildOf(a) == IF a \in Service THEN svc[a].version ELSE CallerVersion[a]

\* A service that runs a build at least as new is left alone.
FindsRunning(a) ==
    /\ Active(a) /\ act[a].pc = "check"
    /\ Running /\ svc[state.by].version >= BuildOf(a)
    /\ lock' = NoLock
    /\ AfterSuccess(a)
    /\ UNCHANGED <<state, command, installed, watchdog, history, bounds>>

FindsNone(a) ==
    /\ Active(a) /\ act[a].pc = "check"
    /\ ~(Running /\ svc[state.by].version >= BuildOf(a))
    /\ Goto(a, "list")
    /\ UNCHANGED <<svc, files, history, bounds>>

\* Mutant of TerminateWatchers: only the service that the state names.
TerminateKnown(a) ==
    /\ Active(a) /\ act[a].pc = "list"
    /\ LET found == {s \in Service : Alive(s) /\ s = state.by} \ {a}
       IN  /\ Terminate(found)
           /\ act' = [act EXCEPT ![a].pc = "kill", ![a].targets = found]
    /\ UNCHANGED <<files, history, bounds>>

\* findWatcherPids, and SIGTERM to each but oneself.
TerminateWatchers(a) ==
    /\ Active(a) /\ act[a].pc = "list"
    /\ LET found == {s \in Service : Alive(s)} \ {a}
       IN  /\ Terminate(found)
           /\ act' = [act EXCEPT ![a].pc = "kill", ![a].targets = found]
    /\ UNCHANGED <<files, history, bounds>>

\* They are gone, or killed after 5 s.
WatchersGone(a) ==
    /\ Active(a) /\ act[a].pc = "kill"
    /\ Kill(act[a].targets)
    /\ act' = [act EXCEPT ![a].pc = "spawn", ![a].targets = {}]
    /\ UNCHANGED <<files, history, bounds>>

\* The state and the command go, and the installed build (on a second attempt one's
\* own) is spawned.  A process number that a file or a starter still names is not free.
Named == {state.by, command, lock.by} \cup {act[a].child : a \in Starter}
            \cup UNION {act[a].targets : a \in Starter}
Free == {s \in Service : ~Alive(s) /\ s \notin Named}
SpawnService(a) ==
    /\ Active(a) /\ act[a].pc = "spawn"
    /\ Free # {}
    /\ state' = NoState /\ command' = None
    /\ LET s == CHOOSE f \in Free : TRUE
       IN  /\ svc' = [svc EXCEPT ![s] = [Dead EXCEPT !.phase = "spawned",
                   !.version = IF installed # 0 /\ act[a].attempt = 1 THEN installed ELSE BuildOf(a)]]
           /\ act' = [act EXCEPT ![a].pc = "await", ![a].child = s, ![s] = Idle]
    /\ UNCHANGED <<lock, installed, watchdog, history, bounds>>

ServiceIsReady(a) ==
    /\ Active(a) /\ act[a].pc = "await"
    /\ state.by = act[a].child /\ state.ready /\ Running
    /\ lock' = NoLock
    /\ AfterSuccess(a)
    /\ UNCHANGED <<state, command, installed, watchdog, history, bounds>>

ServiceExited(a) ==
    /\ Active(a) /\ act[a].pc = "await"
    /\ ~Alive(act[a].child)
    /\ lock' = NoLock
    /\ AfterFailure(a)
    /\ UNCHANGED <<state, command, watchdog, history, bounds>>

\* 20 s without a ready state: the process takes long, or is ending.  It is left alone.
StartTimesOut(a) ==
    /\ Active(a) /\ act[a].pc = "await"
    /\ IF svc[act[a].child].phase \in {"closing", "teardown", "restarting"}
       THEN slow' = slow
       ELSE slow < MaxSlow /\ slow' = slow + 1
    /\ lock' = NoLock
    /\ AfterFailure(a)
    /\ UNCHANGED <<state, command, watchdog, history, replaced, crashes, kills, stalls>>

-----------------------------------------------------------------------------
(* Stopping: stopWatchService, and commandStop around it                     *)

\* A command begins.  commandStop first unloads the agent, which ends the start it runs.
Begin(c, kind) ==
    /\ act[c].pc = "idle"
    /\ kind \in Command[c]
    /\ c \in Watchdog => watchdog = "loaded"
    /\ act' = [a \in Starter |->
                IF a = c THEN [Idle EXCEPT !.kind = kind,
                                           !.pc = IF kind = "start" THEN "lock" ELSE "stop"]
                ELSE IF kind = "stop" /\ a \in Watchdog THEN Idle ELSE act[a]]
    /\ watchdog' = IF kind = "stop" /\ watchdog = "loaded" THEN "unloaded" ELSE watchdog
    /\ UNCHANGED <<svc, lock, state, command, installed, history, bounds>>

AfterStop(c) == IF act[c].kind = "stop" THEN "sweep" ELSE "lock"

\* Nobody is there, or only a file that nobody refreshes.
StopFindsNone(c) ==
    /\ act[c].pc = "stop"
    /\ ~Running
    /\ state' = NoState
    /\ command' = IF state = NoState THEN command ELSE None
    /\ Goto(c, AfterStop(c))
    /\ UNCHANGED <<svc, lock, installed, watchdog, history, bounds>>

StopAsks(c) ==
    /\ act[c].pc = "stop"
    /\ Running
    /\ command' = state.by
    /\ act' = [act EXCEPT ![c].pc = "stopwait", ![c].targets = {state.by}]
    /\ UNCHANGED <<svc, lock, state, installed, watchdog, history, bounds>>

StopSeesItGone(c) ==
    /\ act[c].pc = "stopwait"
    /\ state.by = None
    /\ act' = [act EXCEPT ![c].pc = AfterStop(c), ![c].targets = {}]
    /\ UNCHANGED <<svc, files, history, bounds>>

StopTimesOut(c) ==
    /\ act[c].pc = "stopwait"
    /\ state.by # None
    /\ Terminate(act[c].targets)
    /\ Goto(c, "stopkill")
    /\ UNCHANGED <<files, history, bounds>>

\* Then the files are removed, whoever wrote them.
StopKills(c) ==
    /\ act[c].pc = "stopkill"
    /\ Kill(act[c].targets)
    /\ state' = NoState /\ command' = None
    /\ act' = [act EXCEPT ![c].pc = AfterStop(c), ![c].targets = {}]
    /\ UNCHANGED <<lock, installed, watchdog, history, bounds>>

\* commandStop ends every watcher that is left.
Sweep(c) ==
    /\ act[c].pc = "sweep"
    /\ LET found == {s \in Service : Alive(s)}
       IN  /\ Terminate(found)
           /\ act' = [act EXCEPT ![c].pc = "sweepwait", ![c].targets = found]
    /\ UNCHANGED <<files, history, bounds>>

SweepDone(c) ==
    /\ act[c].pc = "sweepwait"
    /\ Kill(act[c].targets)
    /\ act' = [act EXCEPT ![c].pc = "done", ![c].targets = {}]
    /\ UNCHANGED <<files, history, bounds>>

-----------------------------------------------------------------------------
(* The service: runWatchService and its control                              *)

Set(s, phase) == svc' = [svc EXCEPT ![s].phase = phase]
Written(s) == [by |-> s, ready |-> svc[s].ready, fresh |-> TRUE]

\* createWatchServiceControl: gives way to one that runs, else writes the state.
CreateControl(s) ==
    /\ svc[s].phase = "spawned"
    /\ IF Running
       THEN svc' = [svc EXCEPT ![s] = Dead] /\ state' = state
       ELSE Set(s, "starting") /\ state' = Written(s)
    /\ UNCHANGED <<act, lock, command, installed, watchdog, history, bounds>>

\* control.ready().
Ready(s) ==
    /\ svc[s].phase = "starting"
    /\ svc[s].version \notin Broken
    /\ svc' = [svc EXCEPT ![s].phase = "ready", ![s].ready = TRUE]
    /\ state' = [by |-> s, ready |-> TRUE, fresh |-> TRUE]
    /\ UNCHANGED <<act, lock, command, installed, watchdog, history, bounds>>

\* Something before that throws, and the finally runs.
StartFails(s) ==
    /\ svc[s].phase = "starting"
    /\ svc[s].version \in Broken
    /\ Set(s, "closing")
    /\ state' = IF state.by = s THEN NoState ELSE state
    /\ command' = None
    /\ UNCHANGED <<act, lock, installed, watchdog, history, bounds>>

\* ensureServiceWatchdog, asked to stop or not.
EnsureWatchdog(s) ==
    /\ svc[s].phase = "ready"
    /\ Set(s, "serving")
    /\ watchdog' = IF watchdog = None THEN None ELSE "loaded"
    /\ UNCHANGED <<act, lock, state, command, installed, history, bounds>>

\* Mutant of Poll: a stop is answered when it is read.
PollAnswers(s) ==
    /\ Polls(s)
    /\ state # Written(s) \/ command = s
    /\ state' = IF command = s THEN NoState ELSE Written(s)
    /\ command' = IF command = s /\ ~svc[s].stopping THEN None ELSE command
    /\ svc' = IF command = s THEN [svc EXCEPT ![s].stopping = TRUE] ELSE svc
    /\ UNCHANGED <<act, lock, installed, watchdog, history, bounds>>

\* The heartbeat writes the state and reads the command.
Poll(s) ==
    /\ Polls(s)
    /\ state # Written(s) \/ command = s
    /\ state' = Written(s)
    /\ command' = IF command = s /\ ~svc[s].stopping THEN None ELSE command
    /\ svc' = IF command = s THEN [svc EXCEPT ![s].stopping = TRUE] ELSE svc
    /\ UNCHANGED <<act, lock, installed, watchdog, history, bounds>>

\* Mutant of InstallUpdate: the version after the one that was compared.
InstallUpdateAfter(s, v) ==
    /\ svc[s].phase = "serving"
    /\ ~Updates(s) /\ v > svc[s].version
    /\ installed' = v + 1
    /\ svc' = [svc EXCEPT ![s].again = v, ![s].stopping = TRUE]
    /\ replaced < MaxReplaced /\ replaced' = replaced + 1
    /\ UNCHANGED <<act, lock, state, command, watchdog, history, crashes, kills, stalls, slow>>

\* An update was downloaded or fetched from a peer, or the index secret rotated.
InstallUpdate(s, v) ==
    /\ svc[s].phase = "serving"
    /\ ~Updates(s) /\ v > svc[s].version
    /\ installed' = v
    /\ svc' = [svc EXCEPT ![s].again = v, ![s].stopping = TRUE]
    /\ replaced < MaxReplaced /\ replaced' = replaced + 1
    /\ UNCHANGED <<act, lock, state, command, watchdog, history, crashes, kills, stalls, slow>>

Rotate(s) ==
    /\ svc[s].phase = "serving" /\ svc[s].again = 0
    /\ svc' = [svc EXCEPT ![s].again = svc[s].version, ![s].stopping = TRUE]
    /\ replaced < MaxReplaced /\ replaced' = replaced + 1
    /\ UNCHANGED <<act, files, history, crashes, kills, stalls, slow>>

\* control.close(), first in the finally: its own state goes, and any command.
Close(s) ==
    /\ svc[s].phase = "serving" /\ svc[s].stopping
    /\ Set(s, "closing")
    /\ state' = IF state.by = s THEN NoState ELSE state
    /\ command' = None
    /\ UNCHANGED <<act, lock, installed, watchdog, history, bounds>>

\* updateState does not look at `closed`: the mesh timer, a reconcile that is still
\* running and sessions that close write the state once more.
WriteStateLate(s) ==
    /\ svc[s].phase \in {"closing", "teardown"}
    /\ state # Written(s)
    /\ state' = Written(s)
    /\ late' = TRUE
    /\ UNCHANGED <<svc, act, lock, command, installed, watchdog, stolen, bounds>>

\* process.off: from here on SIGTERM kills.
DropHandlers(s) ==
    /\ svc[s].phase = "closing"
    /\ Set(s, "teardown")
    /\ UNCHANGED <<act, files, history, bounds>>

\* Everything is closed: the process ends, or becomes the starter of its successor.
TornDown(s) ==
    /\ svc[s].phase = "teardown"
    /\ IF svc[s].again = 0
       THEN svc' = [svc EXCEPT ![s] = Dead] /\ act' = act
       ELSE Set(s, "restarting") /\ act' = [act EXCEPT ![s] = [Idle EXCEPT !.pc = "lock"]]
    /\ UNCHANGED <<files, history, bounds>>

-----------------------------------------------------------------------------
(* Time and failures                                                         *)

\* 10 s without a heartbeat: of one that does not beat any more, or stalls.
HeartbeatAges ==
    /\ state.by # None /\ state.fresh
    /\ IF Polls(state.by)
       THEN stalls < MaxStalls /\ stalls' = stalls + 1
       ELSE stalls' = stalls
    /\ state' = [state EXCEPT !.fresh = FALSE]
    /\ UNCHANGED <<svc, act, lock, command, installed, watchdog, history, replaced, crashes, kills, slow>>

\* 30 s with one lock: its holder is dead, or takes long.
LockAges ==
    /\ lock.by # None /\ ~lock.old
    /\ IF Holds(lock.by)
       THEN stalls < MaxStalls /\ stalls' = stalls + 1
       ELSE stalls' = stalls
    /\ lock' = [lock EXCEPT !.old = TRUE]
    /\ UNCHANGED <<svc, act, state, command, installed, watchdog, history, replaced, crashes, kills, slow>>

CrashService(s) ==
    /\ Alive(s) /\ crashes < MaxCrashes
    /\ svc' = [svc EXCEPT ![s] = Dead]
    /\ crashes' = crashes + 1
    /\ UNCHANGED <<act, files, history, replaced, kills, stalls, slow>>

KillCaller(c) ==
    /\ Active(c) /\ kills < MaxKills
    /\ act' = [act EXCEPT ![c] = Ended(c)]
    /\ kills' = kills + 1
    /\ UNCHANGED <<svc, files, history, replaced, crashes, stalls, slow>>

-----------------------------------------------------------------------------
StartStep(a) ==
    \/ TakeLock(a) \/ SeesOldLock(a) \/ RemoveOldLock(a)
    \/ FindsRunning(a) \/ FindsNone(a) \/ TerminateWatchers(a) \/ WatchersGone(a)
    \/ SpawnService(a) \/ ServiceIsReady(a) \/ ServiceExited(a)

StopStep(c) ==
    \/ StopFindsNone(c) \/ StopAsks(c) \/ StopSeesItGone(c) \/ StopTimesOut(c)
    \/ StopKills(c) \/ Sweep(c) \/ SweepDone(c)

ServiceStep(s) ==
    \/ CreateControl(s) \/ Ready(s) \/ StartFails(s) \/ EnsureWatchdog(s)
    \/ Close(s) \/ DropHandlers(s) \/ TornDown(s)

Next ==
    \/ \E a \in Starter : StartStep(a) \/ LockTimesOut(a) \/ StartTimesOut(a)
    \/ \E c \in Caller :
        \/ \E kind \in Command[c] : Begin(c, kind)
        \/ StopStep(c) \/ KillCaller(c)
    \/ \E s \in Service :
        \/ ServiceStep(s) \/ Poll(s) \/ Rotate(s) \/ WriteStateLate(s) \/ CrashService(s)
        \/ \E v \in Version : InstallUpdate(s, v)
    \/ HeartbeatAges \/ LockAges

Spec == Init /\ [][Next]_vars

\* What was begun goes on: callbacks run, timers fire, the agent is started again
\* every minute.  Nobody has to call, to install, to rotate, to write late or to die.
Fairness ==
    /\ \A a \in Starter : WF_vars(StartStep(a) \/ (StartTimesOut(a) /\ slow' = slow))
    /\ \A c \in Caller : WF_vars(StopStep(c))
    /\ \A c \in Watchdog : WF_vars(Begin(c, "start"))
    /\ \A s \in Service : WF_vars(ServiceStep(s)) /\ WF_vars(Poll(s))
    /\ WF_vars(HeartbeatAges /\ stalls' = stalls)
    /\ WF_vars(LockAges /\ stalls' = stalls)
FairSpec == Spec /\ Fairness

-----------------------------------------------------------------------------
\* There is one watcher on a machine: whatever commands and updates run at once, as
\* long as no start lock is removed from under a start that holds it, no two services
\* are ready at the same time (startWatchService: lock, terminate, spawn; test "creates
\* exactly one machine-wide watcher service").
OneServes ==
    stolen \/ \A s, t \in Service : Serves(s) /\ Serves(t) => s = t

Excused ==
    \/ crashes + stalls + slow > 0 \/ late \/ stolen
    \/ \E c \in Caller : act[c].kind # "start"

\* When a stop is answered, by the state file that is gone, the service it asked is past
\* serving, and its successor, if there is one by then, is another (stopWatchService,
\* and the close of a service that goes first in its finally).  Excused is a start whose
\* lock was removed; two commands that stop at once may remove the file for each other.
StopReachesItsService ==
    [][\A c \in Caller :
        act[c].pc = "stopwait" /\ act'[c].pc = AfterStop(c)
            => stolen \/ \A s \in act[c].targets : ~Polls(s)]_vars

\* A service that stops for an update is replaced, by the update or, when that does not
\* become ready, by its own build; the second attempt outlives a lock that a killed start
\* has left behind, if no more are killed (cli.js:1675-1683).  Excused are services that
\* die or take too long, a user who stops, a state file that a closed service has written
\* again, and another start, which terminates this one while a broken update is installed.
BeginsRestart(s) == svc[s].phase = "restarting" /\ Updates(s) /\ act[s].attempt = 1
ReplacedAfterUpdate ==
    \A s \in Service :
        BeginsRestart(s) /\ kills = MaxKills
            ~> \/ \E t \in Service : Serves(t)
               \/ Excused
               \/ ~Alive(s) /\ installed \in Broken

\* Where launchd starts the watcher every minute, it comes back from everything: dead
\* services and starters and their locks, late state files, stalls.  Only an update that
\* never becomes ready keeps it down (native-install.js:165-170).
SupervisedComesBack ==
    watchdog = "loaded" ~> \/ \E t \in Service : Serves(t)
                          \/ watchdog = "unloaded"
                          \/ installed \in Broken

\* Known not to hold (README): a start that finds a service running finds one that
\* will go on to serve, not one that is tearing down.  daemon.js:309-311 promises that
\* of a detached restart "whatever the dying service does".
StartFindsAService ==
    [][\A a \in Starter : FindsRunning(a) => svc[state.by].phase \notin {"closing", "teardown", "restarting"}]_vars

\* Known not to hold (README): after `git pigeon stop` nothing starts the service again
\* (native-install.js:226).
StopMeansStopped ==
    \A c \in Caller : act[c].kind = "stop" /\ act[c].pc = "done" => watchdog # "loaded"
=============================================================================
