------------------------------ MODULE ShareLink ------------------------------
(***************************************************************************)
(* One repository, one public link: how the machines of a fleet that watch   *)
(* one repository come to serve the same share of it.  A machine's owner     *)
(* unlocks (mints or resumes a share) and locks; every machine states the    *)
(* share it serves, and the shares it ended, in its record of the encrypted  *)
(* index; the others adopt, switch, yield or drop by what they read there, in *)
(* the order of the roster (share-precedence.js, machine-index.js, cli.js,   *)
(* control-server.js).                                                       *)
(*                                                                           *)
(* A share is named by the order in which it was minted.  Time advances with *)
(* minting: what is stamped between two mints counts as of one moment.  A     *)
(* config is read and written in one step, and a record that is published     *)
(* reaches the others at once; each acts on it when it gets there.            *)
(***************************************************************************)
EXTENDS Integers, SequencesExt

CONSTANTS
    Watcher,      \* publisher ids, as numbers: the roster is sorted by them
    Sharer,       \* the machines at which somebody locks and unlocks
    MaxMinted,    \* bound: shares that are minted
    MaxToggles,   \* bound: locks and unlocks
    MaxEnds,      \* bound: how often a share without an owner is ended
    MaxReclones,  \* bound: how often a clone is deleted and cloned again
    MaxKills      \* bound: how often a service is killed

ASSUME WatcherAssumption ==
    /\ Watcher \subseteq Nat \ {0} /\ IsFiniteSet(Watcher) /\ Watcher # {}
    /\ Sharer \subseteq Watcher
ASSUME ShareBoundAssumption ==
    {MaxMinted, MaxToggles, MaxEnds, MaxReclones, MaxKills} \subseteq Nat

VARIABLES
    config,   \* the repository's config on each machine: its share, and the one stowed by a lock
    entry,    \* the share that the machine's registration declares
    ended,    \* sharesEnded: the shares this machine states ended
    record,   \* the record that the machine has published last
    session,  \* the repository's session, and the config it was prepared with
    todo,     \* what a handler of the machine has still to do, after saving the config
    minters,   \* who minted each share
    spent     \* how much of each bound is used

svars == <<config, entry, ended, record, session, todo, minters, spent>>

None == [key |-> 0]
Key == 1..Len(minters)

\* What the index record says of a share, and what the config says.
Declared(s) == IF s = None THEN None
               ELSE [key |-> s.key, at |-> s.at, mirror |-> s.mirror]
Minting == 2 * (Len(minters) + 1)
Adopting == 2 * Len(minters) + 1

Shares(role) == [key : Key, role : role, at : 1..Minting, mirror : BOOLEAN]
Declarations == [key : Key, at : 1..Minting, mirror : BOOLEAN] \cup {None}
Served == Shares({"owner", "mirror"}) \cup {None}
Closed == [is |-> "closed", share |-> None]
Step == {"mark", "register", "reload"}

ShareTypeOK ==
    /\ config \in [Watcher -> [share : Served, dormant : Shares({"owner"}) \cup {None}]]
    /\ entry \in [Watcher -> Declarations]
    /\ ended \in [Watcher -> SUBSET Key]
    /\ record \in [Watcher -> [share : Declarations, ended : SUBSET Key] \cup {None}]
    /\ session \in [Watcher -> [is : {"closed", "opening", "open"}, share : Served]]
    /\ todo \in [Watcher -> [steps : BoundedSeq(Step, 3), key : Key \cup {0}]]
    /\ minters \in Seq(Watcher) /\ Len(minters) <= MaxMinted
    /\ spent \in [toggles : 0..MaxToggles, ends : 0..MaxEnds, reclones : 0..MaxReclones,
                  kills : 0..MaxKills]

Quiescent == [steps |-> <<>>, key |-> 0]

ShareInit ==
    /\ config = [m \in Watcher |-> [share |-> None, dormant |-> None]]
    /\ entry = [m \in Watcher |-> None]
    /\ ended = [m \in Watcher |-> {}]
    /\ record = [m \in Watcher |-> None]
    /\ session = [m \in Watcher |-> [is |-> "open", share |-> None]]
    /\ todo = [m \in Watcher |-> Quiescent]
    /\ minters = <<>>
    /\ spent = [toggles |-> 0, ends |-> 0, reclones |-> 0, kills |-> 0]

-----------------------------------------------------------------------------
(***************************************************************************)
(* share-precedence.js, and what a pass over the records of the others makes *)
(* of them.                                                                  *)
(***************************************************************************)

\* A share with an always-on mirror, then the older, then the smaller key.
PreferredShare(a, b) ==
    CASE a = None \/ b = None -> IF a = None THEN b ELSE a
      [] a.key = b.key -> a
      [] a.mirror # b.mirror -> IF a.mirror THEN a ELSE b
      [] a.at # b.at -> IF a.at < b.at THEN a ELSE b
      [] OTHER -> IF a.key < b.key THEN a ELSE b

\* Two declarations of one share: the first one's creation time, any side's mirror.
MergeShareDeclarations(a, b) == [a EXCEPT !.mirror = a.mirror \/ b.mirror]

Collect(current, declared) ==
    CASE declared = None -> current
      [] current # None /\ current.key = declared.key -> MergeShareDeclarations(current, declared)
      [] OTHER -> PreferredShare(declared, current)

\* The records that m can read, by their publishers.
Readable(m) == {n \in Watcher \ {m} : record[n] # None}
RemoteEnded(m) == UNION {record[n].ended : n \in Readable(m)}

\* What a pass over those records, in the order of the roster, has collected after the
\* publishers up to an id.
Pass(m) ==
    LET collected[n \in 0..Max(Watcher)] ==
            IF n = 0 THEN None
            ELSE IF n \in Readable(m) THEN Collect(collected[n - 1], record[n].share)
            ELSE collected[n - 1]
    IN  collected
Winner(m) == Pass(m)[Max(Watcher)]

\* Mutant of RemoteShare: a share is not deleted although a record says that it ended.
RemoteShareAnyway(m) == Winner(m)

\* The one winner among the shares of the records this machine can read, unless a
\* record says that it ended.
RemoteShare(m) == IF Winner(m).key \in RemoteEnded(m) THEN None ELSE Winner(m)

-----------------------------------------------------------------------------
(***************************************************************************)
(* Unlock and lock, where the repository is shared from: control-server.js,  *)
(* set-repository-sharing.                                                   *)
(***************************************************************************)

Toggles(m) ==
    /\ m \in Sharer /\ session[m].is # "closed"
    /\ todo[m] = Quiescent
    /\ spent.toggles < MaxToggles
    /\ spent' = [spent EXCEPT !.toggles = @ + 1]
Continue(m, steps, key) == todo' = [todo EXCEPT ![m] = [steps |-> steps, key |-> key]]

\* The stowed share is resumed; only the first unlock mints one, with its mirror.
Unlock(m) ==
    /\ Toggles(m)
    /\ config[m].share = None
    /\ IF config[m].dormant # None
         THEN /\ config' = [config EXCEPT ![m] = [share |-> config[m].dormant, dormant |-> None]]
              /\ UNCHANGED minters
         ELSE /\ Len(minters) < MaxMinted
              /\ minters' = Append(minters, m)
              /\ config' = [config EXCEPT ![m].share =
                    [key |-> Len(minters) + 1, role |-> "owner", at |-> Minting, mirror |-> TRUE]]
    /\ Continue(m, <<"register", "reload">>, 0)
    /\ UNCHANGED <<entry, ended, record, session>>

\* A lock stows the share, and states that it ended.  A machine that came up as the
\* mirror of a share of its own is its owner.
Lock(m) ==
    /\ Toggles(m)
    /\ config[m].share # None
    /\ config[m].share.role = "owner" \/ minters[config[m].share.key] = m
    /\ config' = [config EXCEPT ![m] =
          [share |-> None, dormant |-> [config[m].share EXCEPT !.role = "owner"]]]
    /\ Continue(m, <<"mark", "register", "reload">>, config[m].share.key)
    /\ UNCHANGED <<entry, ended, record, session, minters>>

\* No live machine owns the share: any of them ends it, and does not stow it.
EndOrphan(m) ==
    /\ todo[m] = Quiescent /\ session[m].is # "closed"
    /\ spent.ends < MaxEnds
    /\ config[m].share # None
    /\ config[m].share.role = "mirror" /\ minters[config[m].share.key] # m
    /\ \A n \in Watcher : config[n].share.key = config[m].share.key => config[n].share.role = "mirror"
    /\ spent' = [spent EXCEPT !.ends = @ + 1]
    /\ config' = [config EXCEPT ![m].share = None]
    /\ Continue(m, <<"mark", "register", "reload">>, config[m].share.key)
    /\ UNCHANGED <<entry, ended, record, session, minters>>

Due(m, step) == todo[m].steps # <<>> /\ Head(todo[m].steps) = step
NextStep(m) ==
    todo' = [todo EXCEPT ![m] = IF Len(@.steps) = 1 THEN Quiescent
                                ELSE [steps |-> Tail(@.steps), key |-> @.key]]

MarkShareEnded(m) ==
    /\ Due(m, "mark") /\ NextStep(m)
    /\ ended' = [ended EXCEPT ![m] = @ \cup {todo[m].key}]
    /\ UNCHANGED <<config, entry, record, session, minters, spent>>

\* Registering declares the share of a config, and takes back that it ended.
RegisterMachinePigeon(m, share) ==
    /\ entry' = [entry EXCEPT ![m] = Declared(share)]
    /\ ended' = [ended EXCEPT ![m] = @ \ {share.key}]

RegisterAgain(m) ==
    /\ Due(m, "register") /\ NextStep(m)
    /\ RegisterMachinePigeon(m, config[m].share)
    /\ UNCHANGED <<config, record, session, minters, spent>>

\* onShareToggled: the session is closed, and one that is opening is cancelled.
Reload(m) ==
    /\ Due(m, "reload") /\ NextStep(m)
    /\ session' = [session EXCEPT ![m] = Closed]
    /\ UNCHANGED <<config, entry, ended, record, minters, spent>>

-----------------------------------------------------------------------------
(***************************************************************************)
(* Sessions: reconcile() and launchSession in cli.js.                        *)
(***************************************************************************)

\* Whoever holds the owner key is the owner, and an owner's share gets a mirror.
EnsureShareMirror(m, share) ==
    IF share # None /\ minters[share.key] = m
      THEN [share EXCEPT !.role = "owner", !.mirror = TRUE]
      ELSE share

PrepareRepositorySession(m) ==
    /\ session[m].is = "closed"
    /\ LET share == EnsureShareMirror(m, config[m].share)
       IN  /\ config' = [config EXCEPT ![m].share = share]
           /\ session' = [session EXCEPT ![m] = [is |-> "opening", share |-> share]]
    /\ UNCHANGED <<entry, ended, record, todo, minters, spent>>

\* The session is open, and registers what it was prepared with.
Opened(m) ==
    /\ session[m].is = "opening"
    /\ session' = [session EXCEPT ![m].is = "open"]
    /\ RegisterMachinePigeon(m, session[m].share)
    /\ UNCHANGED <<config, record, todo, minters, spent>>

\* The service is killed, and what a handler had still to do is lost.  It is started
\* again.
Kill(m) ==
    /\ spent.kills < MaxKills
    /\ spent' = [spent EXCEPT !.kills = @ + 1]
    /\ session' = [session EXCEPT ![m] = Closed]
    /\ todo' = [todo EXCEPT ![m] = Quiescent]
    /\ UNCHANGED <<config, entry, ended, record, minters>>

\* The clone is deleted, dropped from the index, and cloned again.
Reclone(m) ==
    /\ spent.reclones < MaxReclones
    /\ todo[m] = Quiescent
    /\ spent' = [spent EXCEPT !.reclones = @ + 1]
    /\ config' = [config EXCEPT ![m] = [share |-> None, dormant |-> None]]
    /\ entry' = [entry EXCEPT ![m] = None]
    /\ session' = [session EXCEPT ![m] = Closed]
    /\ UNCHANGED <<ended, record, todo, minters>>

-----------------------------------------------------------------------------
(***************************************************************************)
(* The records: a machine publishes its own, and onRemoteShares in cli.js    *)
(* acts on what a pass over those of the others has collected.               *)
(***************************************************************************)

Publish(m) ==
    /\ record[m] # [share |-> entry[m], ended |-> ended[m]]
    /\ record' = [record EXCEPT ![m] = [share |-> entry[m], ended |-> ended[m]]]
    /\ UNCHANGED <<config, entry, ended, session, todo, minters, spent>>

\* A share of this machine's own key is owned here, never adopted.
Adopt(m, share) ==
    IF minters[share.key] = m
      THEN [key |-> share.key, role |-> "owner", at |-> share.at, mirror |-> FALSE]
      ELSE [key |-> share.key, role |-> "mirror", at |-> Adopting, mirror |-> FALSE]

Mirrors(m) == config[m].share # None /\ config[m].share.role = "mirror"
Dropped(m) == Mirrors(m) /\ config[m].share.key \in RemoteEnded(m)
Better(m) ==
    /\ RemoteShare(m) # None /\ config[m].share # None
    /\ RemoteShare(m).key # config[m].share.key
    /\ PreferredShare(RemoteShare(m), Declared(config[m].share)) = RemoteShare(m)

OnRemoteShares(m) ==
    /\ todo[m] = Quiescent /\ session[m].is # "closed"
    /\ \/ /\ Dropped(m)
          /\ config' = [config EXCEPT ![m].share = None]
          /\ Continue(m, <<"reload">>, 0)
       \/ /\ ~Mirrors(m) /\ Better(m)
          /\ config' = [config EXCEPT ![m] =
                [share |-> Adopt(m, RemoteShare(m)), dormant |-> config[m].share]]
          /\ Continue(m, <<"mark", "reload">>, config[m].share.key)
       \/ /\ Mirrors(m) /\ ~Dropped(m) /\ Better(m)
          /\ config' = [config EXCEPT ![m].share = Adopt(m, RemoteShare(m))]
          /\ Continue(m, <<"reload">>, 0)
       \/ /\ config[m].share = None /\ RemoteShare(m) # None
          /\ config[m].dormant.key # RemoteShare(m).key
          /\ config' = [config EXCEPT ![m].share = Adopt(m, RemoteShare(m))]
          /\ Continue(m, <<"reload">>, 0)
    /\ UNCHANGED <<entry, ended, record, session, minters, spent>>

ShareNext ==
    \E m \in Watcher :
        \/ Unlock(m) \/ Lock(m) \/ EndOrphan(m)
        \/ MarkShareEnded(m) \/ RegisterAgain(m) \/ Reload(m)
        \/ PrepareRepositorySession(m) \/ Opened(m) \/ Kill(m) \/ Reclone(m)
        \/ Publish(m) \/ OnRemoteShares(m)

\* A machine does not stop: handlers go on, sessions are opened, records are
\* published, and those of the others looked at, in whatever order.
Goes(m) ==
    \/ MarkShareEnded(m) \/ RegisterAgain(m) \/ Reload(m)
    \/ PrepareRepositorySession(m) \/ Opened(m)
    \/ Publish(m) \/ OnRemoteShares(m)

ShareSpec == ShareInit /\ [][ShareNext]_svars /\ \A m \in Watcher : WF_svars(Goes(m))

-----------------------------------------------------------------------------
(***************************************************************************)
(* Properties.                                                               *)
(***************************************************************************)

\* What share-precedence.js:8 says of two shares of one repository ("Every side now
\* converges on the same winner"): the machines that serve one end up serving the same.
OneLink ==
    <>[](\A m, n \in Watcher :
            config[m].share # None /\ config[n].share # None
            => config[m].share.key = config[n].share.key)

\* No two machines own one share: whoever reads a share of another's becomes its mirror
\* (onRemoteShares, reclaimOwnShare).
Owns(m) == config[m].share # None /\ config[m].share.role = "owner"
OneOwner ==
    \A m, n \in Watcher :
        Owns(m) /\ Owns(n) /\ config[m].share.key = config[n].share.key => m = n

\* A lock is stated, not inferred from silence: when people have stopped, no machine
\* serves as an adopter a share that some machine states ended, whoever else still
\* declares it and whatever was resumed, killed or cloned again in between
\* (markShareEnded, registerMachinePigeon, onRemoteShares).
LocksReach ==
    <>[](\A m, n \in Watcher : Mirrors(n) => config[n].share.key \notin ended[m])

\* What LocksReach leaves when nothing moves any more: no handler is under way, the
\* session is open, the record published, and what the others state ended is dropped.
\* Then every machine declares to the others what it serves, and no machine serves as an
\* adopter a share that any machine, itself included, states ended (registerMachinePigeon,
\* markShareEnded, launchSession, onRemoteShares).
Rests(m) ==
    /\ todo[m] = Quiescent /\ session[m].is = "open"
    /\ record[m] = [share |-> entry[m], ended |-> ended[m]]
    /\ ~Dropped(m)
RestingLinksAgree ==
    (\A m \in Watcher : Rests(m)) =>
        \A m \in Watcher :
            /\ record[m].share = Declared(config[m].share)
            /\ \A n \in Watcher : Mirrors(n) => config[n].share.key \notin record[m].ended
=============================================================================
