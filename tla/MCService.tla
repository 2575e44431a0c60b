----------------------------- MODULE MCService -----------------------------
(***************************************************************************)
(* What a watcher's service does on its machine, for TLC: WatcherService, and *)
(* three servers that it runs, TerminalSessions, Pairing and LanApproval.     *)
(* They share no state here: a behaviour follows one of them, or one aspect,  *)
(* `part`, and the others stay as they begin.  Of the terminals:              *)
(*   rooms    repositories come and go while sessions are not yet opened,     *)
(*   types    browsers open sessions and type into one shell,                 *)
(*   prints   browsers open sessions, and their shells print;                 *)
(* of the pairing:                                                           *)
(*   overlap  ticks overlap, for two browsers and one window,                 *)
(*   renewed  the window is renewed, and the watcher stopped, for a browser,   *)
(*   linked   a browser pairs by the phrase and by links, in one window.      *)
(***************************************************************************)
EXTENDS MCWatcherService, TerminalSessions, Pairing, LanApproval

VARIABLE part

\* A browser that opens a second session, and another browser.
TwoBrowsers == {<<"b", 1>>, <<"b", 2>>, <<"c", 1>>}

\* Which of the dead processes is spawned next makes no difference: the first.
Earlier == [s1 |-> {}, s2 |-> {"s1"}, s3 |-> {"s1", "s2"}]
ServiceAspect == \A s \in Service : Alive(s)' => Alive(s) \/ \A t \in Earlier[s] : Alive(t)

Terminals == {"rooms", "types", "prints"}
Pairings == {"overlap", "renewed", "linked"}

MCInit ==
    /\ part \in {"service", "lan"} \cup Terminals \cup Pairings
    /\ Init /\ TerminalInit /\ PairingInit /\ LanInit
    /\ state.by \in {None, "s1"}
    /\ part # "service" => state = NoState /\ watchdog = None /\ lock = NoLock
    /\ stored["b"] = {}
    /\ part # "renewed" => stored["c"] = {}
TerminalAspect ==
    /\ part # "rooms" => UNCHANGED leases
    /\ part = "rooms" => UNCHANGED <<sessions, opening>>
    /\ part = "types" => /\ Len(shells') <= 1
                         /\ \A n \in DOMAIN shells : shells'[n].printed = 0
    /\ part = "prints" => \A id \in DOMAIN sessions' : sessions'[id].received = 0
PairingAspect ==
    /\ part = "linked" => phraseOf'["c"] = 0
    /\ part # "linked" => UNCHANGED link
    /\ part = "renewed" => phraseOf'["b"] = 0
    /\ part # "renewed" => windows' <= 1 /\ watcher'.stops = 0
    /\ part # "overlap" => tick'[2] = NoTick
MCNext ==
    /\ part' = part
    /\ \/ part = "service" /\ Next /\ ServiceAspect /\ UNCHANGED <<tvars, pairvars, lvars>>
       \/ part \in Terminals /\ TerminalNext /\ TerminalAspect /\ UNCHANGED <<vars, pairvars, lvars>>
       \/ part \in Pairings /\ PairingNext /\ PairingAspect /\ UNCHANGED <<vars, tvars, lvars>>
       \/ part = "lan" /\ LanNext /\ UNCHANGED <<vars, tvars, pairvars>>
MCSpec == MCInit /\ [][MCNext]_<<part, vars, tvars, pairvars, lvars>>

\* A repository is served from two clones at most.
Bounded == \A r \in Repository : leases[r] <= 2

\* The variables of all four keep their types.
TypesOK == TypeOK /\ TerminalTypeOK /\ PairingTypeOK /\ LanTypeOK
=============================================================================
