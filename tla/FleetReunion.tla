---------------------------- MODULE FleetReunion ----------------------------
(***************************************************************************)
(* How the machines of one fleet find one index secret again                 *)
(* (src/src/fleet-convergence.js, lan-fleet.js, fleet-peers.js, and the        *)
(* secret in machine-index.js).  A secret is replaced by a forced rotation,    *)
(* from the dashboard, or by `git pigeon pair --rotate`; machines that knew    *)
(* each other then announce what they hold on their LAN, and the one whose     *)
(* secret wins hands it over.  Announcements and offers are late or lost.      *)
(***************************************************************************)
EXTENDS Naturals, FiniteSets

CONSTANTS
    Machine,
    MaxSecrets,   \* bound: secrets minted
    MaxStamp,     \* bound: what the machines' clocks say
    MaxActs,      \* bound: what people do (pair, rotate, join, register)
    Fingerprint   \* the order of the secrets' hashes

ASSUME FleetAssumption ==
    /\ IsFiniteSet(Machine)
    /\ MaxSecrets \in Nat /\ MaxStamp \in Nat /\ MaxActs \in Nat
    /\ Fingerprint \in [1..(Cardinality(Machine) + MaxSecrets) -> Nat]
    /\ \A s, t \in DOMAIN Fingerprint : Fingerprint[s] = Fingerprint[t] => s = t

VARIABLES
    index,    \* index.json of each machine, without its entries' contents
    pinned,   \* fleet-peers.json: whom each machine has read in its index
    claim,    \* the secret a browser is being enrolled with, 0 for none
    air,      \* announcements on their way: air[m][n] is m's to n
    sealed,   \* capabilities on their way
    minted, acts

fvars == <<index, pinned, claim, air, sealed, minted, acts>>

Secrets == 1..(Cardinality(Machine) + MaxSecrets)
Stamps == 0..MaxStamp
Nothing == [kind |-> "nothing"]
Indexes == [fleet : Machine, secret : Secrets, at : Stamps, complete : BOOLEAN,
            entries : {0, 1}, exposed : BOOLEAN]
Facts == [kind : {"here"}, fleet : Machine, secret : Secrets, at : Stamps, complete : BOOLEAN,
          entries : {0, 1}]
Capabilities == [kind : {"capability"}, fleet : Machine, secret : Secrets, at : Stamps,
                 complete : BOOLEAN]

FleetTypeOK ==
    /\ index \in [Machine -> Indexes]
    /\ pinned \in [Machine -> SUBSET Machine]
    /\ claim \in [Machine -> {0} \cup Secrets]
    /\ air \in [Machine -> [Machine -> Facts \cup {Nothing}]]
    /\ sealed \in [Machine -> [Machine -> Capabilities \cup {Nothing}]]
    /\ minted \in 0..MaxSecrets /\ acts \in 0..MaxActs

\* The first machine set the fleet up with an old build; the others start fresh.
FreshIndex(m, n) == [fleet |-> m, secret |-> n, at |-> 0, complete |-> FALSE, entries |-> 0,
                     exposed |-> TRUE]
Numbering == CHOOSE f \in [Machine -> 1..Cardinality(Machine)] :
                \A m, n \in Machine : f[m] = f[n] => m = n
FleetInit ==
    /\ index = [m \in Machine |-> FreshIndex(m, Numbering[m])]
    /\ pinned = [m \in Machine |-> {}]
    /\ claim = [m \in Machine |-> 0]
    /\ air = [m \in Machine |-> [n \in Machine |-> Nothing]]
    /\ sealed = air
    /\ minted = 0 /\ acts = 0

Act == acts < MaxActs /\ acts' = acts + 1

-----------------------------------------------------------------------------
\* Mutant of LocalWins: the last rule lets both sides win.
LocalWinsTies(local, remote) ==
    IF local.fleet # remote.fleet THEN local.entries > 0
    ELSE \/ local.secret = remote.secret
         \/ local.complete /\ ~remote.complete
         \/ local.complete = remote.complete /\ local.at >= remote.at

\* Mutant of LocalWins: each side keeps to its own when both have a browser.
LocalWinsOwn(local, remote) ==
    IF local.fleet # remote.fleet THEN local.entries > 0
    ELSE \/ local.secret = remote.secret
         \/ local.complete
         \/ ~remote.complete /\ local.at > remote.at
         \/ ~remote.complete /\ local.at = remote.at
            /\ Fingerprint[local.secret] > Fingerprint[remote.secret]

\* preferredFleetIndex: the secret a browser is paired with, else the newer, else the
\* greater fingerprint.
LocalWins(local, remote) ==
    IF local.fleet # remote.fleet THEN local.entries > 0
    ELSE \/ local.secret = remote.secret
         \/ local.complete /\ ~remote.complete
         \/ local.complete = remote.complete /\ local.at > remote.at
         \/ local.complete = remote.complete /\ local.at = remote.at
            /\ Fingerprint[local.secret] > Fingerprint[remote.secret]

\* shouldOfferIndexToPeer.
Offers(local, remote) ==
    /\ local.secret # remote.secret
    /\ LocalWins(local, remote)
    /\ local.fleet = remote.fleet \/ remote.entries = 0

-----------------------------------------------------------------------------
\* The secret is replaced: everybody pairs again.
Replace(m, at) ==
    /\ minted < MaxSecrets
    /\ minted' = minted + 1
    /\ index' = [index EXCEPT ![m].secret = Cardinality(Machine) + minted + 1, ![m].at = at,
                              ![m].complete = FALSE, ![m].exposed = FALSE]

\* The forced rotation at the first start of a fixed build: once.
RotateForExposureOnce(m, at) ==
    /\ index[m].exposed
    /\ Replace(m, at)
    /\ UNCHANGED <<pinned, claim, air, sealed, acts>>

\* rotate-index, from the dashboard.  It leaves the mark of the forced rotation alone.
RotateMachineIndexSecret(m, at) ==
    /\ Act /\ ~index[m].exposed
    /\ Replace(m, at)
    /\ UNCHANGED <<pinned, claim, air, sealed>>

\* `git pigeon pair`, which with --rotate replaces the secret but not the time it was set.
ClaimDashboardPairing(m, rotate) ==
    /\ Act /\ ~index[m].exposed
    /\ \/ rotate /\ Replace(m, index[m].at)
       \/ ~rotate /\ minted' = minted /\ index' = [index EXCEPT ![m].complete = FALSE]
    /\ claim' = [claim EXCEPT ![m] = index'[m].secret]
    /\ UNCHANGED <<pinned, air, sealed>>

\* The browser acknowledges the index it was given, unless that was superseded.
CompleteDashboardPairing(m) ==
    /\ claim[m] # 0
    /\ claim' = [claim EXCEPT ![m] = 0]
    /\ index' = [index EXCEPT ![m].complete = @ \/ claim[m] = index[m].secret]
    /\ UNCHANGED <<pinned, air, sealed, minted, acts>>

\* adoptMachineIndexCapability: the time comes with the secret; a machine with
\* repositories does not change fleets.
AdoptMachineIndexCapability(m, capability) ==
    IF index[m].entries > 0 /\ index[m].fleet # capability.fleet
    THEN index' = index
    ELSE index' = [index EXCEPT ![m].fleet = capability.fleet, ![m].secret = capability.secret,
                                ![m].at = capability.at, ![m].complete = FALSE]

\* A machine joins by a phrase or a link.
Join(m, n) ==
    /\ Act
    /\ m # n /\ index[m].fleet # index[n].fleet /\ index[m].entries = 0 /\ ~index[m].exposed
    /\ AdoptMachineIndexCapability(m, index[n])
    /\ UNCHANGED <<pinned, claim, air, sealed, minted>>

Register(m) ==
    /\ Act
    /\ index[m].entries = 0
    /\ index' = [index EXCEPT ![m].entries = 1]
    /\ UNCHANGED <<pinned, claim, air, sealed, minted>>

\* Machines that can read each other's records pin each other, from the room or the disk.
PinFleetPeer(m, n) ==
    /\ m # n /\ n \notin pinned[m]
    /\ index[m].fleet = index[n].fleet /\ index[m].secret = index[n].secret
    /\ pinned' = [pinned EXCEPT ![m] = @ \cup {n}]
    /\ UNCHANGED <<index, claim, air, sealed, minted, acts>>

-----------------------------------------------------------------------------
IndexFacts(m) == [kind |-> "here", fleet |-> index[m].fleet, secret |-> index[m].secret,
                  at |-> index[m].at, complete |-> index[m].complete,
                  entries |-> index[m].entries]

\* Every 15 s, and when a peer connects.  (Bound: one announcement on its way to each peer.)
Announce(m) ==
    /\ air' = [air EXCEPT ![m] = [n \in Machine |-> IF n = m THEN Nothing ELSE IndexFacts(m)]]
    /\ air' # air
    /\ UNCHANGED <<index, pinned, claim, sealed, minted, acts>>

\* What is offered: complete is only what the offering machine knew, it is not sent.
Capability(n) == [kind |-> "capability", fleet |-> index[n].fleet, secret |-> index[n].secret,
                  at |-> index[n].at, complete |-> index[n].complete]

\* A pinned machine is heard on another secret: it is offered this one.  (Bound: the
\* cooldown of a minute lasts as long as an offer is on its way.)
Heard(m, n) ==
    /\ air[m][n] # Nothing
    /\ air' = [air EXCEPT ![m][n] = Nothing]
    /\ sealed' = IF m \in pinned[n] /\ Offers(index[n], air[m][n]) /\ sealed[n][m] = Nothing
                 THEN [sealed EXCEPT ![n][m] = Capability(n)] ELSE sealed
    /\ UNCHANGED <<index, pinned, claim, minted, acts>>

\* A capability is opened.  It counts as paired with a browser, and states no repositories.
Sealed(m, n) ==
    LET theirs == [sealed[m][n] EXCEPT !.complete = TRUE]
    IN  /\ sealed[m][n] # Nothing
        /\ sealed' = [sealed EXCEPT ![m][n] = Nothing]
        /\ IF m \in pinned[n] /\ index[n].secret # theirs.secret /\ ~LocalWins(index[n], theirs)
           THEN AdoptMachineIndexCapability(n, theirs)
           ELSE index' = index
        /\ UNCHANGED <<pinned, claim, air, minted, acts>>

Lost(m, n) ==
    /\ sealed[m][n] # Nothing /\ Act
    /\ sealed' = [sealed EXCEPT ![m][n] = Nothing]
    /\ UNCHANGED <<index, pinned, claim, air, minted>>

FleetNext ==
    \/ \E m \in Machine, at \in Stamps :
          RotateForExposureOnce(m, at) \/ RotateMachineIndexSecret(m, at)
    \/ \E m \in Machine, rotate \in BOOLEAN : ClaimDashboardPairing(m, rotate)
    \/ \E m \in Machine : CompleteDashboardPairing(m) \/ Register(m) \/ Announce(m)
    \/ \E m, n \in Machine : Join(m, n) \/ PinFleetPeer(m, n) \/ Heard(m, n) \/ Sealed(m, n)
                             \/ Lost(m, n)

\* Fairness (MCFleet): announcements are repeated and heard, and offers arrive.
FleetSpec == FleetInit /\ [][FleetNext]_fvars

-----------------------------------------------------------------------------
\* Of two machines of one fleet on different secrets, exactly one hands its own over: the
\* two never swap, and never both wait (fleet-convergence.js:24).
ExactlyOneMoves ==
    \A m, n \in Machine :
        index[m].fleet = index[n].fleet /\ index[m].secret # index[n].secret
            => (Offers(index[m], IndexFacts(n)) <=> ~Offers(index[n], IndexFacts(m)))

\* Machines of one fleet that have met come to one secret, whatever crossed on the way.
Reunited ==
    <>[](\A m, n \in Machine :
            index[m].fleet = index[n].fleet /\ n \in pinned[m] /\ m \in pinned[n]
                => index[m].secret = index[n].secret)

\* "a late or replayed offer cannot drag it backwards" (lan-fleet.js:289): a capability that
\* was not paired with a browser never replaces a secret that was set later.
NotDraggedBackwards ==
    [][\A m, n \in Machine :
          sealed[m][n] # Nothing /\ sealed'[m][n] = Nothing /\ index'[n] # index[n]
                /\ index[n].fleet = sealed[m][n].fleet /\ ~sealed[m][n].complete
            => index'[n].at >= index[n].at]_fvars
=============================================================================
