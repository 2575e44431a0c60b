--------------------------- MODULE FleetDirectory ---------------------------
(***************************************************************************)
(* One repository in the encrypted index of a fleet (machine-index.js):      *)
(* every machine keeps entries for its clones, and the time of a removal      *)
(* (a tombstone).  Every machine publishes a record of its own made from      *)
(* them, reads the records of the others, drops what was removed after it     *)
(* was registered, and clones what it lacks.                                  *)
(*                                                                            *)
(* The index is a file under a lock: a read and its write are one step, but   *)
(* a synchronisation reads it, and acts on what it read in later steps.       *)
(* Records arrive late, not out of order, since only their machine writes     *)
(* them.  The k-th thing people do happens at time 2k; what machines          *)
(* register by themselves is stamped between two such times.                  *)
(***************************************************************************)
EXTENDS Naturals, Sequences, SequencesExt, FiniteSetsExt

CONSTANTS
    Machine,    \* the machines of the fleet
    Path,       \* where a machine may have a clone of the repository
    Target,     \* where a machine puts the clone it makes by itself
    MaxDeeds    \* bound: what people do

ASSUME DirectoryAssumption == IsFiniteSet(Machine) /\ Target \in Path /\ MaxDeeds \in Nat

VARIABLES
    entries,    \* value.entries of each index, for this repository: in their order
    removed,    \* value.removed: when the repository was removed, 0 for never
    record,     \* what each machine has published
    held,       \* held[m][n]: what m holds of that
    sync,       \* what syncRemoteRepositories of each machine is doing
    session,    \* the session of each clone: none, opening, open
    deeds       \* what people have done: the clock

dvars == <<entries, removed, record, held, sync, session, deeds>>

Now == 2 * deeds
Unset == [at |-> 0, removed |-> 0]
Waiting == [phase |-> "idle", drops |-> <<>>, alive |-> FALSE]
Record == [at : Nat, removed : Nat]
Entry == [path : Path, at : Nat \ {0}]
Syncs == [phase : {"idle", "drop", "clone"}, drops : Seq([path : Path, at : Nat]),
          alive : BOOLEAN]
PathsOf(m) == {entries[m][i].path : i \in DOMAIN entries[m]}

DirectoryTypeOK ==
    /\ entries \in [Machine -> Seq(Entry)]
    /\ \A m \in Machine : \A i, j \in DOMAIN entries[m] :
          entries[m][i].path = entries[m][j].path => i = j
    /\ removed \in [Machine -> Nat]
    /\ record \in [Machine -> Record]
    /\ held \in [Machine -> [Machine -> Record]]
    /\ sync \in [Machine -> Syncs]
    /\ session \in [Machine -> [Path -> {"none", "opening", "open"}]]
    /\ deeds \in Nat

DirectoryInit ==
    /\ entries = [m \in Machine |-> <<>>]
    /\ removed = [m \in Machine |-> 0]
    /\ record = [m \in Machine |-> Unset]
    /\ held = [m \in Machine |-> [n \in Machine |-> Unset]]
    /\ sync = [m \in Machine |-> Waiting]
    /\ session = [m \in Machine |-> [p \in Path |-> "none"]]
    /\ deeds = 0

-----------------------------------------------------------------------------
\* The index file.

\* The members of a list at these places, in their order.
Kept(list, places) ==
    LET Nth(k) == CHOOSE i \in places : Cardinality({j \in places : j <= i}) = k
    IN  [k \in 1..Cardinality(places) |-> list[Nth(k)]]
Without(list, p) == Kept(list, {i \in DOMAIN list : list[i].path # p})
\* Mutant of RegisterMachinePigeon: a service that registers its clones again takes
\* a removal back.
RegisterAlways(m, p) ==
    entries' = [entries EXCEPT ![m] = Append(Without(@, p), [path |-> p, at |-> Now + 1])]

\* registerMachinePigeon by a service: it keeps the time of an entry, and what was removed
\* stays so.
RegisterMachinePigeon(m, p) ==
    LET known == {i \in DOMAIN entries[m] : entries[m][i].path = p}
        at    == IF known = {} THEN Now + 1 ELSE entries[m][CHOOSE i \in known : TRUE].at
    IN IF removed[m] # 0 THEN UNCHANGED entries
       ELSE entries' = [entries EXCEPT ![m] = Append(Without(@, p), [path |-> p, at |-> at])]

\* unregisterMachinePigeon: the removal is stated with the last clone.
UnregisterMachinePigeon(m, p, at) ==
    /\ entries' = [entries EXCEPT ![m] = Without(@, p)]
    /\ removed' = [removed EXCEPT ![m] = IF PathsOf(m) = {p} THEN at ELSE @]

-----------------------------------------------------------------------------
\* What people do.

Does == deeds < MaxDeeds /\ deeds' = deeds + 1

\* git pigeon watch or init: the one registration that overrides a removal.  It has no PID,
\* so a session that is open registers it again.
Watch(m, p) ==
    /\ Does
    /\ entries' = [entries EXCEPT ![m] = Append(Without(@, p), [path |-> p, at |-> Now + 2])]
    /\ removed' = [removed EXCEPT ![m] = 0]
    /\ session' = [session EXCEPT ![m][p] = IF @ = "open" THEN "none" ELSE @]
    /\ UNCHANGED <<record, held, sync>>

\* git pigeon unwatch, or a browser that removes the repository here.
Unwatch(m, p) ==
    /\ Does
    /\ p \in PathsOf(m)
    /\ UnregisterMachinePigeon(m, p, Now + 2)
    /\ UNCHANGED <<record, held, sync, session>>

\* git pigeon unwatch --id.
TombstoneMachinePigeon(m) ==
    /\ Does
    /\ entries' = [entries EXCEPT ![m] = <<>>]
    /\ removed' = [removed EXCEPT ![m] = Now + 2]
    /\ UNCHANGED <<record, held, sync, session>>

\* The folder of a clone is deleted, which its service or the next start notices.
DropVanished(m, p) ==
    /\ Does
    /\ p \in PathsOf(m)
    /\ entries' = [entries EXCEPT ![m] = Without(@, p)]
    /\ UNCHANGED <<removed, record, held, sync, session>>

-----------------------------------------------------------------------------
\* What the services do.

\* reconcile opens a session for each entry.  When it is open it registers the entry with the
\* service's PID, unless a reconciliation has found meanwhile that the entry is gone.
LaunchSession(m, p) ==
    /\ p \in PathsOf(m) /\ session[m][p] = "none"
    /\ session' = [session EXCEPT ![m][p] = "opening"]
    /\ UNCHANGED <<entries, removed, record, held, sync, deeds>>

SessionOpen(m, p) ==
    /\ session[m][p] = "opening"
    /\ \/ session' = [session EXCEPT ![m][p] = "open"] /\ RegisterMachinePigeon(m, p)
       \/ p \notin PathsOf(m) /\ session' = [session EXCEPT ![m][p] = "none"] /\ UNCHANGED entries
    /\ UNCHANGED <<removed, record, held, sync, deeds>>

StopSession(m, p) ==
    /\ p \notin PathsOf(m) /\ session[m][p] = "open"
    /\ session' = [session EXCEPT ![m][p] = "none"]
    /\ UNCHANGED <<entries, removed, record, held, sync, deeds>>

\* Mutant of Publish: what was removed is no longer mentioned, and not stated either.
PublishSilently(m) ==
    /\ record' = [record EXCEPT ![m] =
            [at |-> IF entries[m] = <<>> THEN 0 ELSE entries[m][1].at, removed |-> 0]]
    /\ UNCHANGED <<entries, removed, held, sync, session, deeds>>

\* publish, with the value publisherDirectoryValue makes of the index: the first entry of the
\* repository says when it was registered, and a removal is only stated where there is none.
PublisherDirectoryValue(m) ==
    IF entries[m] = <<>> THEN [at |-> 0, removed |-> removed[m]]
                         ELSE [at |-> entries[m][1].at, removed |-> 0]

Publish(m) ==
    /\ record' = [record EXCEPT ![m] = PublisherDirectoryValue(m)]
    /\ UNCHANGED <<entries, removed, held, sync, session, deeds>>

\* The latest removal that the records of the others state.
RemovedElsewhere(m, records) == Max({0} \cup {records[n].removed : n \in Machine \ {m}})

\* The entries to drop: those older than what this index says was removed, and the first
\* entry if it is older than what another says.
Drops(m, records) ==
    LET remote == RemovedElsewhere(m, records)
        own    == Kept(entries[m], {i \in DOMAIN entries[m] : entries[m][i].at < removed[m]})
        first  == Kept(entries[m], {i \in DOMAIN entries[m] : i = 1 /\ entries[m][i].at < remote})
        Drop(list, at) == [i \in DOMAIN list |-> [path |-> list[i].path, at |-> at]]
    IN  Drop(own, removed[m]) \o Drop(first, remote)

\* Another machine has registered the repository after all those removals.
IsAlive(m, records) ==
    \E n \in Machine \ {m} : records[n].at > Max({removed[m], RemovedElsewhere(m, records)})

\* syncRemoteRepositories has read the records, of which those of `arrived` are new, and the
\* index.  It will drop entries, and look at what is alive.
SyncReads(m, arrived) ==
    LET records == [n \in Machine |-> IF n \in arrived THEN record[n] ELSE held[m][n]]
    IN /\ sync[m].phase = "idle"
       /\ held' = [held EXCEPT ![m] = records]
       /\ sync' = [sync EXCEPT ![m] = [phase |-> "drop", drops |-> Drops(m, records),
                                       alive |-> IsAlive(m, records)]]
       /\ UNCHANGED <<entries, removed, record, session, deeds>>

SyncDrops(m) ==
    /\ sync[m].phase = "drop" /\ sync[m].drops # <<>>
    /\ LET d == Head(sync[m].drops) IN UnregisterMachinePigeon(m, d.path, d.at)
    /\ sync' = [sync EXCEPT ![m].drops = Tail(@)]
    /\ UNCHANGED <<record, held, session, deeds>>

\* materializeGrantedRepositories looks whether the repository is registered.
SyncLooks(m) ==
    /\ sync[m].phase = "drop" /\ sync[m].drops = <<>>
    /\ sync' = [sync EXCEPT ![m] =
           IF sync[m].alive /\ entries[m] = <<>> THEN [Waiting EXCEPT !.phase = "clone"]
                                                 ELSE Waiting]
    /\ UNCHANGED <<entries, removed, record, held, session, deeds>>

\* It has cloned it.
Materialize(m) ==
    /\ sync[m].phase = "clone"
    /\ sync' = [sync EXCEPT ![m] = Waiting]
    /\ RegisterMachinePigeon(m, Target)
    /\ UNCHANGED <<removed, record, held, session, deeds>>

DirectoryNext ==
    \E m \in Machine :
        \/ \E p \in Path : \/ Watch(m, p) \/ Unwatch(m, p) \/ DropVanished(m, p)
                           \/ LaunchSession(m, p) \/ SessionOpen(m, p) \/ StopSession(m, p)
        \/ TombstoneMachinePigeon(m) \/ Publish(m)
        \/ \E arrived \in SUBSET (Machine \ {m}) : SyncReads(m, arrived)
        \/ SyncDrops(m) \/ SyncLooks(m) \/ Materialize(m)

\* Without fairness, which MCMachines states.
DirectorySpec == DirectoryInit /\ [][DirectoryNext]_dvars

-----------------------------------------------------------------------------
\* "A still-listed entry blocked its own tombstone from ever being published, while the
\* tombstone never removed the entry" (machine-index.js:1286): no index keeps both, whichever
\* of the commands, the sessions and a synchronisation that read it earlier comes last.
RemovedOrListed == \A m \in Machine : removed[m] = 0 \/ entries[m] = <<>>

\* "A tombstone beats any entry or grant registered before it" (machine-index.js:1279): when
\* people are done, no machine keeps a repository that it registered before another recorded
\* its removal, and a machine that recorded none gets what others have.
DirectorySettles ==
    <>[](\A m, n \in Machine :
            entries[m] # <<>> => /\ \E i \in DOMAIN entries[m] : entries[m][i].at >= removed[n]
                                 /\ removed[n] = 0 => entries[n] # <<>>)

\* What DirectorySettles leaves when the machines are done: each has published its index and
\* reads what the others have published, and a synchronisation would find nothing to drop
\* and nothing to clone.  Then no entry that stands for a repository is older than any
\* recorded removal of it, and only a machine that has recorded one is without it, however
\* commands, sessions and synchronisations of stale reads have crossed
\* (syncRemoteRepositories, publisherDirectoryValue, materializeGrantedRepositories).
DirectoryRests(m) ==
    /\ record[m] = PublisherDirectoryValue(m)
    /\ \A n \in Machine \ {m} : held[m][n] = record[n]
    /\ Drops(m, held[m]) = <<>>
    /\ IsAlive(m, held[m]) => entries[m] # <<>>
RestingIndexesAgree ==
    (\A m \in Machine : DirectoryRests(m)) =>
        \A m, n \in Machine :
            entries[m] # <<>> => /\ entries[m][1].at > removed[n]
                                 /\ removed[n] = 0 => entries[n] # <<>>

\* "registering again afterwards beats the tombstone" (machine-index.js:1280): what somebody
\* watches again after every removal comes back to the other machines.
\* Known not to hold (README): a machine that has recorded the removal refuses to register.
WatchedAgainReturns ==
    <>[](\A m, n \in Machine :
            (entries[m] # <<>> /\ \A k \in Machine : entries[m][1].at > removed[k])
                => entries[n] # <<>>)
=============================================================================
