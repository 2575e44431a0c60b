--------------------------- MODULE TerminalHistory ---------------------------
(***************************************************************************)
(* The commands typed in the terminals of a fleet (terminal-history.js): one  *)
(* record of PeerPigeon's replicated store, that every host reads, merges     *)
(* with the lines it knows and writes back.                                   *)
(*                                                                            *)
(* The store is external, as in DeviceRegistry.  The n-th command is typed at *)
(* time n.  The file of the lines (spoolPath) is left out: the service        *)
(* creates its history without one (cli.js:1330).                             *)
(***************************************************************************)
EXTENDS Naturals, FiniteSets

CONSTANTS
    Host,           \* the machines with terminals, as numbers: the store breaks ties by them
    Command,        \* what may be typed
    HistoryLimit,   \* HISTORY_LIMIT
    MaxCommands,    \* bound: commands typed, in all
    MaxRestarts     \* bound: restarts of services

ASSUME HistoryAssumption ==
    /\ Host \subseteq Nat
    /\ HistoryLimit \in Nat \ {0} /\ MaxCommands \in Nat /\ MaxRestarts \in Nat

VARIABLES
    commands,   \* how many commands were typed: the clock
    lines,      \* entries, with the same members as seen
    history,    \* each host's replica of the record (external)
    upserts,    \* reads of the replica that are due, on an event or at the start
    publishes,  \* putQueue: publishes that wait or are under way
    writing,    \* what the publish under way is writing: one set, or none
    restarts

hvars == <<commands, lines, history, upserts, publishes, writing, restarts>>

Line == [at : 1 .. MaxCommands, host : Host, command : Command]
NewerHistory(r, q) == r.ver > q.ver \/ (r.ver = q.ver /\ r.by > q.by)

HistoryTypeOK ==
    /\ commands \in 0 .. MaxCommands /\ restarts \in 0 .. MaxRestarts
    /\ \A h \in Host :
          /\ lines[h] \subseteq Line /\ Cardinality(lines[h]) <= HistoryLimit
          /\ history[h] \in [ver : Nat, by : Nat, lines : SUBSET Line]
          /\ upserts[h] \in Nat /\ publishes[h] \in Nat
          /\ writing[h] \subseteq SUBSET Line
          /\ Cardinality(writing[h]) <= 1 /\ (writing[h] # {} => publishes[h] > 0)

HistoryInit ==
    /\ commands = 0 /\ restarts = 0
    /\ lines = [h \in Host |-> {}]
    /\ history = [h \in Host |-> [ver |-> 0, by |-> 0, lines |-> {}]]
    /\ upserts = [h \in Host |-> 0]
    /\ publishes = [h \in Host |-> 0]
    /\ writing = [h \in Host |-> {}]

\* merge keeps the newest lines.
Newest(known) ==
    {line \in known : Cardinality({l \in known : l.at > line.at}) < HistoryLimit}
Merged(h, record) == Newest(lines[h] \cup record.lines)

\* add: running the last command again is not recorded.
TypeCommand(h, command) ==
    /\ commands < MaxCommands
    /\ commands' = commands + 1
    /\ IF \E last \in lines[h] : last.command = command /\ \A l \in lines[h] : l.at <= last.at
         THEN UNCHANGED <<lines, publishes>>
         ELSE /\ lines' = [lines EXCEPT ![h] = Newest(@ \cup
                    {[at |-> commands + 1, host |-> h, command |-> command]})]
              /\ publishes' = [publishes EXCEPT ![h] = @ + 1]
    /\ UNCHANGED <<history, upserts, writing, restarts>>

\* A publish has read the replica: it merges, and calls put.
ReadToPublish(h) ==
    /\ publishes[h] > 0 /\ writing[h] = {}
    /\ lines' = [lines EXCEPT ![h] = Merged(h, history[h])]
    /\ writing' = [writing EXCEPT ![h] = {Merged(h, history[h])}]
    /\ UNCHANGED <<commands, history, upserts, publishes, restarts>>

\* The store carries the put out, over whatever has arrived since (external).
Published(h) ==
    /\ \E written \in writing[h] :
          history' = [history EXCEPT
              ![h] = [ver |-> history[h].ver + 1, by |-> h, lines |-> written]]
    /\ writing' = [writing EXCEPT ![h] = {}]
    /\ publishes' = [publishes EXCEPT ![h] = @ - 1]
    /\ UNCHANGED <<commands, lines, upserts, restarts>>

\* A newer replica arrives, and the subscriber reads it (external).
Spread(g, h) ==
    /\ NewerHistory(history[g], history[h])
    /\ history' = [history EXCEPT ![h] = history[g]]
    /\ upserts' = [upserts EXCEPT ![h] = @ + 1]
    /\ UNCHANGED <<commands, lines, publishes, writing, restarts>>

\* The read has returned: what the replica holds now, not what the event was about.
MergeReplica(h) ==
    /\ upserts[h] > 0
    /\ upserts' = [upserts EXCEPT ![h] = @ - 1]
    /\ lines' = [lines EXCEPT ![h] = Merged(h, history[h])]
    /\ UNCHANGED <<commands, history, publishes, writing, restarts>>

\* Mutant of RestartHistory: a start waits for the next event.
RestartUnread(h) ==
    /\ restarts < MaxRestarts
    /\ restarts' = restarts + 1
    /\ lines' = [lines EXCEPT ![h] = {}]
    /\ upserts' = [upserts EXCEPT ![h] = 0]
    /\ publishes' = [publishes EXCEPT ![h] = 0]
    /\ writing' = [writing EXCEPT ![h] = {}]
    /\ UNCHANGED <<commands, history>>

\* The service is replaced: what was not put is lost, and load reads the replica.
RestartHistory(h) ==
    /\ restarts < MaxRestarts
    /\ restarts' = restarts + 1
    /\ lines' = [lines EXCEPT ![h] = {}]
    /\ upserts' = [upserts EXCEPT ![h] = 1]
    /\ publishes' = [publishes EXCEPT ![h] = 0]
    /\ writing' = [writing EXCEPT ![h] = {}]
    /\ UNCHANGED <<commands, history>>

HistoryNext ==
    \E h \in Host :
        \/ \E command \in Command : TypeCommand(h, command)
        \/ ReadToPublish(h) \/ Published(h) \/ MergeReplica(h) \/ RestartHistory(h)
        \/ \E g \in Host : Spread(g, h)

\* Without fairness, which MCMachines states.
HistorySpec == HistoryInit /\ [][HistoryNext]_hvars

-----------------------------------------------------------------------------
(***************************************************************************)
(* Properties.                                                              *)
(***************************************************************************)

\* Whatever was typed at once, arrived during a publish or was written over: in the
\* end the record is one, and every host has merged it ("recallable in every
\* GitPigeon terminal on every device", terminal-history.js:4, of the lines that the
\* record still has).
RecordIsRecalled ==
    <>[](\A g, h \in Host : history[g] = history[h] /\ lines[h] = Merged(h, history[g]))

\* What RecordIsRecalled leaves when nothing is on its way to a host: no read is due, and
\* no replica is newer than its own.  Then the replicas are one, and every host has merged
\* it, although a put may have been refused, overtaken or made of an older read, and
\* although a merge of what was merged before takes place any number of times
\* (terminal-history.js, load, merge and publish).
HistoryRests(h) == upserts[h] = 0 /\ \A g \in Host : ~NewerHistory(history[g], history[h])
RestingHistoriesAgree ==
    (\A h \in Host : HistoryRests(h)) =>
        \A g, h \in Host : history[g] = history[h] /\ lines[h] = Merged(h, history[g])

\* What a host typed and still has, every other host has too.  Known not to hold: of
\* two hosts that publish at once the later put wins, and the lines of the other are
\* in the record again only when it types once more.
NothingClobbered ==
    <>[](\A h \in Host : \A line \in lines[h] : line.host = h =>
            \A g \in Host : line \in lines[g] \/ Cardinality(lines[g]) = HistoryLimit)
=============================================================================
