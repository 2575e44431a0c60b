------------------------------- MODULE Pairing -------------------------------
(***************************************************************************)
(* How a browser is paired with a machine (device-approval-mesh.js,          *)
(* pairing-identity.js, dashboard-pairing.js, cli.js, machine-index.js).     *)
(*                                                                           *)
(* Somebody at the machine opens a window, which shows a phrase.  While it is *)
(* open the watcher answers, on the network that the phrase names, browsers   *)
(* that prove it: it seals them the secret of its index, again and again,     *)
(* until one tells that it has stored it.  A dashboard may also prove the     *)
(* phrase to hand the machine an index of its own.  `git pigeon pair` issues  *)
(* a link with a code beside this, one after the other; `pair --dashboard`    *)
(* issues one, with a secret of its own under --rotate.  The secret can be    *)
(* rotated, a window replaced or run out, and the watcher stopped, meanwhile. *)
(*                                                                           *)
(* Windows and secrets are numbered as they are made; 0 is no window, and the *)
(* secret of an index that is not this machine's.  The watcher's ticks        *)
(* overlap: one that awaits an acknowledgement does not keep the next back.   *)
(* A browser has one phrase, and one request; whoever proves a phrase has been  *)
(* given it.  What is broadcast may be lost, and sent again.                  *)
(***************************************************************************)
EXTENDS Integers, FiniteSets

CONSTANTS
    Page,               \* pages that ask for the index, or hand one over
    Tick,                  \* bound: ticks of the watcher that overlap
    PAIRING_MAX_FAILURES,  \* wrong proofs that shut a window: five
    MaxAttempts,           \* codes that a link takes: five
    MaxSecrets,            \* bound: secrets of this machine's index
    MaxWindows,            \* bound: windows that are opened
    MaxRecords,            \* bound: records of requests that the watcher makes
    MaxLinks,              \* bound: links that are issued
    MaxStops               \* bound: how often the watcher is stopped or killed

ASSUME PairingAssumption ==
    /\ PAIRING_MAX_FAILURES \in Nat \ {0} /\ MaxAttempts \in Nat /\ MaxSecrets \in Nat \ {0}
    /\ MaxWindows \in Nat /\ MaxRecords \in Nat /\ MaxLinks \in Nat /\ MaxStops \in Nat

VARIABLES
    index,      \* the machine's index: its secret, and pairingComplete
    minted,     \* how many secrets it has had
    window,     \* pairing-window.json: its phrase, and the wrong proofs counted
    windows,    \* how many windows were opened
    phraseOf,       \* the phrase that each browser was given
    stored,     \* the secrets that each browser has stored
    answered,   \* browsers whose request was answered
    acks,       \* browsers whose acknowledgement is on its way
    watcher,    \* the pairing service: see WatcherTypeOK
    taken,      \* the records of requests that are acknowledged
    tick,       \* what each tick of the service is at
    link        \* the link that a command serves

pairvars == <<index, minted, window, windows, phraseOf, stored, answered, acks, watcher, taken, tick,
              link>>

Phrase == 1..MaxWindows
Secret == 0..MaxSecrets
Shut == [phrase |-> 0, failures |-> 0]
Opened(p) == [phrase |-> p, failures |-> 0]

Stages == {"next", "wrong", "answer", "approve", "close", "complete", "adopt", "joined"}
NoTick == [stage |-> "none"]
Begun(left, secret) ==
    [stage |-> "next", left |-> left, secret |-> secret, for |-> {}, net |-> 0,
     record |-> 0, seen |-> Shut]

NoLink == [stage |-> "none", mode |-> "once", secret |-> 0, by |-> {}, attempts |-> 0, issued |-> 0]

Window == [phrase : 0..MaxWindows, failures : 0..PAIRING_MAX_FAILURES - 1]
Watcher ==
    [up : BOOLEAN, followed : 0..MaxWindows, network : 0..MaxWindows, joining : SUBSET Phrase,
     requests : [Page -> 0..MaxRecords], offered : SUBSET Page, records : 0..MaxRecords,
     stops : 0..MaxStops]
Going ==
    {g \in [stage : Stages, left : SUBSET Page, secret : Secret, for : SUBSET Page,
            net : 0..MaxWindows, record : 0..MaxRecords, seen : Window] :
        g.stage \in {"answer", "approve"} => \E b \in Page : g.for = {b}}
Link ==
    [stage : {"none", "serve", "granted", "stored", "complete"},
     mode : {"once", "again", "cancelled"}, secret : Secret, by : SUBSET Page,
     attempts : 0..MaxAttempts, issued : 0..MaxLinks]

PairingTypeOK ==
    /\ index \in [secret : Secret, complete : BOOLEAN] /\ minted \in 1..MaxSecrets
    /\ window \in Window /\ windows \in 0..MaxWindows
    /\ phraseOf \in [Page -> 0..MaxWindows]
    /\ stored \in [Page -> SUBSET Secret] /\ answered \subseteq Page /\ acks \subseteq answered
    /\ watcher \in Watcher /\ watcher.network \in {0, watcher.followed}
    /\ \A b \in Page : watcher.requests[b] <= watcher.records
    /\ taken \subseteq 1..watcher.records
    /\ tick \in [Tick -> {NoTick} \cup Going]
    /\ \A t \in Tick : tick[t] # NoTick => tick[t].record <= watcher.records
    /\ link \in Link

\* The service: whether it runs, the phrase it follows, the network it is on (0 when on
\* none) and those it is still joining, the requests it knows, each by the number of its
\* record, and those it has answered.
Started(n) == [up |-> TRUE, followed |-> 0, network |-> 0, joining |-> {},
            requests |-> [b \in Page |-> 0], offered |-> {}, records |-> n, stops |-> 0]

PairingInit ==
    /\ index = [secret |-> 1, complete |-> FALSE] /\ minted = 1
    /\ window = Shut /\ windows = 0
    /\ phraseOf = [b \in Page |-> 0]
    /\ stored \in [Page -> {{}, {0}}]
    /\ answered = {} /\ acks = {} /\ taken = {}
    /\ watcher = Started(0)
    /\ tick = [t \in Tick |-> NoTick]
    /\ link = NoLink

-----------------------------------------------------------------------------
(***************************************************************************)
(* The file of the index.                                                    *)
(***************************************************************************)

\* What is put down as paired is this secret, unless it has been replaced since.
CompleteDashboardPairing(secret) ==
    index' = IF index.secret = secret THEN [index EXCEPT !.complete = TRUE] ELSE index

\* The machine is on its way to another pairing: what it had before is put back.
ClaimDashboardPairing(rotate) ==
    /\ rotate => minted < MaxSecrets
    /\ minted' = IF rotate THEN minted + 1 ELSE minted
    /\ index' = [secret |-> IF rotate THEN minted + 1 ELSE index.secret, complete |-> FALSE]

RotateMachineIndexSecret ==
    /\ ClaimDashboardPairing(TRUE)
    /\ UNCHANGED <<window, windows, phraseOf, stored, answered, acks, watcher, taken, tick, link>>

-----------------------------------------------------------------------------
(***************************************************************************)
(* The window and the service that follows it.                               *)
(***************************************************************************)

OpenPairingWindow ==
    /\ windows < MaxWindows
    /\ windows' = windows + 1
    /\ window' = Opened(windows + 1)

\* An install opens a window and leaves it to the service.
OfferPairing ==
    /\ OpenPairingWindow
    /\ UNCHANGED <<index, minted, phraseOf, stored, answered, acks, watcher, taken, tick, link>>

WindowRunsOut ==
    /\ window # Shut /\ window' = Shut
    /\ UNCHANGED <<index, minted, windows, phraseOf, stored, answered, acks, watcher, taken, tick, link>>

\* Somebody gives the phrase on the screen to a browser.
PhraseIsGiven(b) ==
    /\ phraseOf[b] = 0 /\ window.phrase # 0
    /\ phraseOf' = [phraseOf EXCEPT ![b] = window.phrase]
    /\ UNCHANGED <<index, minted, window, windows, stored, answered, acks, watcher, taken, tick, link>>

\* A window that shut, or another one, takes the service off its network, and its requests
\* with it; it notes the phrase before it has joined the network of the new one.
FollowWindow ==
    /\ watcher.up /\ watcher.followed # window.phrase
    /\ watcher' = [watcher EXCEPT !.followed = window.phrase, !.network = 0,
                                  !.requests = [b \in Page |-> 0],
                                  !.joining = (@ \cup {window.phrase}) \ {0}]
    /\ UNCHANGED <<index, minted, window, windows, phraseOf, stored, answered, acks, taken, tick, link>>

\* Joined: unless another phrase is followed by now, or joining fails, which is not tried again.
ResponderStarts(p) ==
    /\ p \in watcher.joining
    /\ \E started \in BOOLEAN :
          watcher' = [watcher EXCEPT !.joining = @ \ {p},
                        !.network = IF started /\ watcher.up /\ watcher.followed = p THEN p ELSE @]
    /\ UNCHANGED <<index, minted, window, windows, phraseOf, stored, answered, acks, taken, tick, link>>

\* A stop takes the service off the network; its ticks go on until the process ends.
StopWatcher ==
    /\ watcher.up /\ watcher.stops < MaxStops
    /\ watcher' = [watcher EXCEPT !.up = FALSE, !.network = 0, !.stops = @ + 1,
                                  !.requests = [b \in Page |-> 0]]
    /\ UNCHANGED <<index, minted, window, windows, phraseOf, stored, answered, acks, taken, tick, link>>

StartWatcher ==
    /\ ~watcher.up
    /\ watcher' = [Started(watcher.records) EXCEPT !.stops = watcher.stops]
    /\ tick' = [t \in Tick |-> NoTick]
    /\ UNCHANGED <<index, minted, window, windows, phraseOf, stored, answered, acks, taken, link>>

-----------------------------------------------------------------------------
(***************************************************************************)
(* The mesh of the phrase: requests, answers, acknowledgements.              *)
(***************************************************************************)

Meets(b) == watcher.network # 0 /\ phraseOf[b] = watcher.network

\* It asks, every five seconds, until it is answered.
Asks(b) == b \notin answered

\* A request that is known is only seen again: its record stays.
Announce(b) ==
    /\ Meets(b) /\ Asks(b) /\ watcher.requests[b] = 0 /\ watcher.records < MaxRecords
    /\ watcher' = [watcher EXCEPT !.records = @ + 1, !.requests[b] = watcher.records + 1]
    /\ UNCHANGED <<index, minted, window, windows, phraseOf, stored, answered, acks, taken, tick, link>>

\* A browser that was not heard for a while is forgotten, though its answer be under way.
Pending(b) ==
    /\ watcher.requests[b] # 0
    /\ watcher' = [watcher EXCEPT !.requests[b] = 0]
    /\ UNCHANGED <<index, minted, window, windows, phraseOf, stored, answered, acks, taken, tick, link>>

\* The sealed secret reaches the browser, which stores it and says so.
BrowserStores(b) ==
    /\ Meets(b)
    /\ \E t \in Tick :
          /\ tick[t].stage = "approve" /\ tick[t].for = {b} /\ tick[t].net = watcher.network
          /\ stored' = [stored EXCEPT ![b] = @ \cup {tick[t].secret}]
    /\ answered' = answered \cup {b} /\ acks' = acks \cup {b}
    /\ UNCHANGED <<index, minted, window, windows, phraseOf, watcher, taken, tick, link>>

\* It arrives, sooner or later; where the request is forgotten by then, it is dropped.
AcceptedArrives(b) ==
    /\ b \in acks /\ acks' = acks \ {b}
    /\ taken' = IF Meets(b) THEN taken \cup ({watcher.requests[b]} \ {0}) ELSE taken
    /\ UNCHANGED <<index, minted, window, windows, phraseOf, stored, answered, watcher, tick, link>>

-----------------------------------------------------------------------------
(***************************************************************************)
(* A tick of the service: the requests that wait, one after the other.       *)
(***************************************************************************)

\* On to the next request, with nothing kept of the last.
GoesOn(t) == tick' = [tick EXCEPT ![t] = Begun(@.left, @.secret)]
Ends(t) == tick' = [tick EXCEPT ![t] = NoTick]

Waiting == {b \in Page : watcher.requests[b] # 0} \ watcher.offered

\* The index is read once for all of them.
TickBegins(t) ==
    /\ watcher.up /\ watcher.network # 0 /\ tick[t] = NoTick
    /\ Waiting # {} /\ window # Shut
    /\ tick' = [tick EXCEPT ![t] = Begun(Waiting, index.secret)]
    /\ UNCHANGED <<index, minted, window, windows, phraseOf, stored, answered, acks, watcher, taken, link>>

\* What the proof of this browser comes to, by the window as it is now.
Verified(b) == IF window = Shut THEN "next" ELSE IF phraseOf[b] = window.phrase THEN "answer" ELSE "wrong"

VerifyPairingProof(t, b) ==
    /\ tick[t].stage = "next" /\ b \in tick[t].left \ watcher.offered
    /\ watcher' = [watcher EXCEPT !.offered = @ \cup {b}]
    /\ tick' = [tick EXCEPT ![t].left = @ \ {b}, ![t].for = {b},
                            ![t].stage = Verified(b),
                            ![t].seen = IF Verified(b) = "wrong" THEN window ELSE Shut]
    /\ UNCHANGED <<index, minted, window, windows, phraseOf, stored, answered, acks, taken, link>>

\* The count goes into the window as it was read, whatever became of it since.
CountFailure(t) ==
    /\ tick[t].stage = "wrong"
    /\ window' = IF tick[t].seen.failures + 1 >= PAIRING_MAX_FAILURES THEN Shut
                 ELSE [tick[t].seen EXCEPT !.failures = @ + 1]
    /\ GoesOn(t)
    /\ UNCHANGED <<index, minted, windows, phraseOf, stored, answered, acks, watcher, taken, link>>

\* A request that is forgotten by now ends the tick, and so does a network that is left.
ApproveBegins(t) ==
    /\ tick[t].stage = "answer"
    /\ \A b \in tick[t].for :
          IF watcher.network = 0 \/ watcher.requests[b] = 0 THEN Ends(t)
          ELSE tick' = [tick EXCEPT ![t].stage = "approve", ![t].net = watcher.network,
                                    ![t].record = watcher.requests[b]]
    /\ UNCHANGED <<index, minted, window, windows, phraseOf, stored, answered, acks, watcher, taken, link>>

\* Mutant of Confirmed: a browser that says nothing has what it wanted.
ConfirmedBySilence(t) == tick[t].for \cap acks = {}

\* Silence is not acceptance.
Confirmed(t) == tick[t].record \in taken

\* Acknowledged, or not in time, or the network was left.
ApproveEnds(t) ==
    /\ tick[t].stage = "approve"
    /\ IF Confirmed(t) THEN tick' = [tick EXCEPT ![t] = [Begun(@.left, @.secret) EXCEPT !.stage = "close"]]
       ELSE GoesOn(t)
    /\ watcher' = IF tick[t].net # watcher.network THEN watcher
                  ELSE [watcher EXCEPT !.requests = [b \in Page |->
                           IF b \in tick[t].for THEN 0 ELSE watcher.requests[b]]]
    /\ UNCHANGED <<index, minted, window, windows, phraseOf, stored, answered, acks, taken, link>>

\* The window shuts, whichever it is.
ClosePairingWindow(t) ==
    /\ tick[t].stage \in {"close", "joined"}
    /\ window' = Shut
    /\ IF tick[t].stage = "close" THEN tick' = [tick EXCEPT ![t].stage = "complete"] ELSE Ends(t)
    /\ UNCHANGED <<index, minted, windows, phraseOf, stored, answered, acks, watcher, taken, link>>

TickCompletes(t) ==
    /\ tick[t].stage = "complete"
    /\ CompleteDashboardPairing(tick[t].secret)
    /\ GoesOn(t)
    /\ UNCHANGED <<minted, window, windows, phraseOf, stored, answered, acks, watcher, taken, link>>

TickEnds(t) ==
    /\ tick[t].stage = "next" /\ tick[t].left \subseteq watcher.offered
    /\ Ends(t)
    /\ UNCHANGED <<index, minted, window, windows, phraseOf, stored, answered, acks, watcher, taken, link>>

\* A dashboard hands over an index of its own, and proves the phrase.
IndexIsOffered(t, b) ==
    /\ watcher.up /\ Meets(b) /\ tick[t] = NoTick /\ window # Shut
    /\ \E secret \in stored[b] \ {index.secret} :
          tick' = [tick EXCEPT ![t] = [Begun({}, secret) EXCEPT
                      !.stage = IF Verified(b) = "answer" THEN "adopt" ELSE "wrong",
                      !.seen = IF Verified(b) = "wrong" THEN window ELSE Shut]]
    /\ UNCHANGED <<index, minted, window, windows, phraseOf, stored, answered, acks, watcher, taken, link>>

\* A machine with repositories refuses another index; of its own it takes any secret.
AdoptMachineIndexCapability(t) ==
    /\ tick[t].stage = "adopt"
    /\ \/ index' = [secret |-> tick[t].secret, complete |-> FALSE] /\ tick' = [tick EXCEPT ![t].stage = "joined"]
       \/ tick[t].secret = 0 /\ Ends(t) /\ UNCHANGED index
    /\ UNCHANGED <<minted, window, windows, phraseOf, stored, answered, acks, watcher, taken, link>>

-----------------------------------------------------------------------------
(***************************************************************************)
(* The links of `git pigeon pair` (one after the other, until it is done)    *)
(* and of `pair --dashboard` (one).                                          *)
(***************************************************************************)

Issue(mode) == link' = [NoLink EXCEPT !.stage = "serve", !.mode = mode, !.secret = index'.secret,
                                      !.issued = link.issued + 1]

PairCommand ==
    /\ link.stage = "none" /\ link.issued < MaxLinks
    /\ OpenPairingWindow
    /\ ClaimDashboardPairing(FALSE) /\ Issue("again")
    /\ UNCHANGED <<phraseOf, stored, answered, acks, watcher, taken, tick>>

\* The watcher is stopped for it; its ticks end with it.
PairDashboardCommand ==
    /\ link.stage = "none" /\ link.issued < MaxLinks
    /\ \E rotate \in BOOLEAN : ClaimDashboardPairing(rotate)
    /\ Issue("once")
    /\ watcher' = [Started(watcher.records) EXCEPT !.stops = watcher.stops]
    /\ tick' = [t \in Tick |-> NoTick]
    /\ UNCHANGED <<window, windows, phraseOf, stored, answered, acks, taken>>

\* A browser that opened the link claims it with a code; five wrong ones lock it.
LinkIsClaimed(b) ==
    /\ link.stage = "serve" /\ link.attempts < MaxAttempts
    /\ \E right \in BOOLEAN :
          link' = [link EXCEPT !.attempts = @ + 1, !.stage = IF right THEN "granted" ELSE @,
                               !.by = IF right THEN {b} ELSE @]
    /\ UNCHANGED <<index, minted, window, windows, phraseOf, stored, answered, acks, watcher, taken, tick>>

LinkIsStored(b) ==
    /\ link.stage = "granted" /\ link.by = {b}
    /\ stored' = [stored EXCEPT ![b] = @ \cup {link.secret}]
    /\ link' = [link EXCEPT !.stage = "stored"]
    /\ UNCHANGED <<index, minted, window, windows, phraseOf, answered, acks, watcher, taken, tick>>

\* The acknowledgement is found; a command that has ended does nothing with it.
LinkIsAcknowledged ==
    /\ link.stage = "stored"
    /\ link' = [link EXCEPT !.stage = IF link.mode = "cancelled" THEN "none" ELSE "complete"]
    /\ UNCHANGED <<index, minted, window, windows, phraseOf, stored, answered, acks, watcher, taken, tick>>

LinkCompletes ==
    /\ link.stage = "complete"
    /\ CompleteDashboardPairing(link.secret)
    /\ link' = [link EXCEPT !.stage = "none"]
    /\ UNCHANGED <<minted, window, windows, phraseOf, stored, answered, acks, watcher, taken, tick>>

\* It ran out, was locked, or the browser did not acknowledge: the command that waits
\* issues another.
LinkFails ==
    /\ link.stage \in {"serve", "granted", "stored"}
    /\ IF link.mode = "again"
       THEN link.issued < MaxLinks /\ ClaimDashboardPairing(FALSE) /\ Issue("again")
       ELSE link' = [link EXCEPT !.stage = "none"] /\ UNCHANGED <<index, minted>>
    /\ UNCHANGED <<window, windows, phraseOf, stored, answered, acks, watcher, taken, tick>>

\* The command ends when it sees the window shut, and gives its link up.
PairCommandEnds ==
    /\ link.mode = "again" /\ link.stage # "none" /\ watcher.up /\ window = Shut
    /\ link' = [link EXCEPT !.mode = "cancelled"]
    /\ UNCHANGED <<index, minted, window, windows, phraseOf, stored, answered, acks, watcher, taken, tick>>

PairingNext ==
    \/ RotateMachineIndexSecret \/ OfferPairing \/ WindowRunsOut \/ FollowWindow
    \/ StopWatcher \/ StartWatcher
    \/ PairCommand \/ PairDashboardCommand \/ LinkIsAcknowledged \/ LinkCompletes \/ LinkFails
    \/ PairCommandEnds
    \/ \E p \in Phrase : ResponderStarts(p)
    \/ \E b \in Page : PhraseIsGiven(b) \/ Announce(b) \/ Pending(b) \/ BrowserStores(b)
    \/ \E b \in Page : AcceptedArrives(b) \/ LinkIsClaimed(b) \/ LinkIsStored(b)
    \/ \E t \in Tick : TickBegins(t) \/ CountFailure(t) \/ ApproveBegins(t) \/ ApproveEnds(t)
    \/ \E t \in Tick : ClosePairingWindow(t) \/ TickCompletes(t) \/ TickEnds(t)
    \/ \E t \in Tick : AdoptMachineIndexCapability(t)
    \/ \E t \in Tick, b \in Page : VerifyPairingProof(t, b) \/ IndexIsOffered(t, b)

PairingSpec == PairingInit /\ [][PairingNext]_pairvars

-----------------------------------------------------------------------------
(***************************************************************************)
(* Properties.                                                               *)
(***************************************************************************)

\* A machine that says it is paired is: some browser has stored the very secret that the
\* index has now, though answers were lost or late, and the secret was replaced meanwhile.
PairedMeansStored == index.complete => \E b \in Page : index.secret \in stored[b]

(***************************************************************************)
(* Known not to hold: a window lets one browser in (two ticks may answer two  *)
(* browsers at once), and a window that shut stays shut (a wrong proof is     *)
(* counted in the window as it was read).                                     *)
(***************************************************************************)

OneBrowserPerWindow ==
    \A t, u \in Tick : t # u => ~(tick[t].stage = "complete" /\ tick[u].stage = "complete")
ShutStaysShut == [][window'.phrase \notin {0, window.phrase} => windows' = windows + 1]_pairvars
=============================================================================
