----------------------------- MODULE LanApproval -----------------------------
(***************************************************************************)
(* Devices of a local network that ask to be let in (lan-enrollment.js,      *)
(* device-grants.js).  A device asks by multicast, once a second.  The watcher *)
(* of a machine that belongs to the index puts those it hears into the index   *)
(* room, under a key of its own for every five seconds (a bucket), where       *)
(* browsers read the last three; it forwards what a browser seals to a device, *)
(* and deletes what nobody reads any more.  Every machine prunes, each hour,    *)
(* what is left over (machine-index.js).                                       *)
(*                                                                           *)
(* Time is counted in buckets; the last one stands for all that come after    *)
(* it.  A datagram may be lost, or dropped since no window is open.           *)
(***************************************************************************)
EXTENDS Integers, FiniteSets

CONSTANTS
    Device,      \* devices that ask
    MaxAsking,   \* bound: the bucket up to which they do
    LastBucket,  \* bound: the last bucket that is told apart
    PruneAge,    \* buckets after which a record is left over: 720
    MaxLosses    \* bound: deletions that fail, stops and kills

ASSUME BucketsAssumption ==
    /\ MaxAsking \in Nat /\ PruneAge \in Nat /\ MaxLosses \in Nat
    /\ LastBucket \in Nat /\ LastBucket > MaxAsking + 4

VARIABLES
    bucket,     \* the time
    device,     \* what each device is doing
    approved,   \* devices that a browser has sealed an approval for
    room,       \* the buckets that have a record in the room
    lan,        \* the service: what it has heard, and the buckets it knows it has written
    round,      \* what its tick is at
    lost,       \* records that no service knows of any more
    losses

lvars == <<bucket, device, approved, room, lan, round, lost, losses>>

Bucket == 0..LastBucket
Unheard == [known |-> FALSE, at |-> 0, granted |-> FALSE]
Rest == [stage |-> "rest"]

Note == [known : BOOLEAN, at : 0..MaxAsking, granted : BOOLEAN]
Round ==
    {Rest} \cup [stage : {"put", "collect"}, at : Bucket]
        \cup [stage : {"forward"}, at : Bucket, for : Device, noted : SUBSET Device]

LanTypeOK ==
    /\ bucket \in Bucket /\ losses \in 0..MaxLosses
    /\ device \in [Device -> {"asks", "admitted"}] /\ approved \subseteq Device
    /\ room \subseteq 0..bucket /\ lost \subseteq 0..bucket
    /\ lan \in [up : BOOLEAN, drained : BOOLEAN, published : SUBSET Bucket,
               heard : [Device -> Note]]
    /\ \A d \in Device : ~lan.heard[d].known => lan.heard[d] = Unheard
    /\ lan.published \subseteq 0..bucket
    /\ round \in Round /\ (round # Rest => round.at <= bucket)
    /\ round.stage = "forward" => lan.heard[round.for].known

Fresh == [up |-> TRUE, drained |-> TRUE, published |-> {}, heard |-> [d \in Device |-> Unheard]]

LanInit ==
    /\ bucket = 0
    /\ device = [d \in Device |-> "asks"] /\ approved = {}
    /\ room = {} /\ lost = {}
    /\ lan = Fresh /\ round = Rest
    /\ losses = 0

TimePasses ==
    /\ bucket < LastBucket /\ bucket' = bucket + 1
    /\ UNCHANGED <<device, approved, room, lan, round, lost, losses>>

-----------------------------------------------------------------------------
\* It asks, every second, until it is let in or gives up.
Asking(d) == device[d] = "asks" /\ bucket <= MaxAsking

\* A device that is heard is noted anew; while its approval is being forwarded, that goes
\* down in the note that was there before.
Advertise(d) ==
    /\ Asking(d) /\ lan.up
    /\ lan' = [lan EXCEPT !.heard[d] = [@ EXCEPT !.known = TRUE, !.at = bucket]]
    /\ round' = IF round.stage = "forward" THEN [round EXCEPT !.noted = @ \ {d}] ELSE round
    /\ UNCHANGED <<bucket, device, approved, room, lost, losses>>

\* A browser shows who asks, by the last three records, and somebody approves.
BrowserApproves(d) ==
    /\ lan.heard[d].known /\ room \cap (bucket - 2)..bucket # {}
    /\ approved' = approved \cup {d}
    /\ UNCHANGED <<bucket, device, room, lan, round, lost, losses>>

-----------------------------------------------------------------------------
(***************************************************************************)
(* A tick: forget, put, collect, forward.                                    *)
(***************************************************************************)

Heard == {d \in Device : lan.heard[d].known}
Silent(d, buckets) == d \in Heard /\ bucket - lan.heard[d].at >= buckets

\* Who was not heard for 15 seconds is forgotten.
LanTickBegins ==
    /\ lan.up /\ round = Rest
    /\ (Heard # {} \/ ~lan.drained \/ lan.published # {})
    /\ \E gone \in SUBSET {d \in Device : Silent(d, 3)} :
          /\ \A d \in Device : Silent(d, 4) => d \in gone
          /\ lan' = [lan EXCEPT !.heard = [d \in Device |-> IF d \in gone THEN Unheard ELSE @[d]]]
          /\ round' = [stage |-> IF Heard \ gone # {} \/ ~lan.drained THEN "put" ELSE "collect",
                       at |-> bucket]
    /\ UNCHANGED <<bucket, device, approved, room, lost, losses>>

\* Somebody may have been heard while the record was put: it is not the last one then.
PutRequests ==
    /\ round.stage = "put"
    /\ room' = room \cup {round.at}
    /\ lan' = [lan EXCEPT !.published = @ \cup {round.at}, !.drained = Heard = {}]
    /\ lost' = lost \ {round.at}
    /\ round' = [round EXCEPT !.stage = "collect"]
    /\ UNCHANGED <<bucket, device, approved, losses>>

PutFails ==
    /\ round.stage = "put" /\ losses < MaxLosses
    /\ losses' = losses + 1 /\ round' = Rest
    /\ UNCHANGED <<bucket, device, approved, room, lan, lost>>

\* Mutant of Unread: the buckets from which on they read.
UnreadLate(b, at) == b < at - 3 \/ at = LastBucket

\* Browsers read the bucket of the tick and the two before.
Unread(b, at) == b < at - 2 \/ at = LastBucket

\* A deletion that fails is not tried again.
Collect(b) ==
    /\ round.stage = "collect" /\ b \in lan.published /\ Unread(b, round.at)
    /\ lan' = [lan EXCEPT !.published = @ \ {b}]
    /\ \/ room' = room \ {b} /\ UNCHANGED <<lost, losses>>
       \/ /\ losses < MaxLosses /\ losses' = losses + 1
          /\ lost' = lost \cup {b} /\ UNCHANGED room
    /\ UNCHANGED <<bucket, device, approved, round>>

Collected == \A b \in lan.published : ~Unread(b, round.at)

\* To those not yet granted, when some peer is connected.
ForwardBegins(d) ==
    /\ round.stage = "collect" /\ Collected
    /\ d \in Heard \cap approved /\ ~lan.heard[d].granted
    /\ round' = [stage |-> "forward", at |-> round.at, for |-> d, noted |-> {d}]
    /\ UNCHANGED <<bucket, device, approved, room, lan, lost, losses>>

\* Sent twice; whether one arrives is not known.  The device opens it, and asks no more.
ForwardEnds ==
    /\ round.stage = "forward"
    /\ device' \in {device, [device EXCEPT ![round.for] = IF @ = "asks" THEN "admitted" ELSE @]}
    /\ lan' = IF round.for \in round.noted THEN [lan EXCEPT !.heard[round.for].granted = TRUE] ELSE lan
    /\ round' = [stage |-> "collect", at |-> round.at]
    /\ UNCHANGED <<bucket, approved, room, lost, losses>>

LanTickEnds ==
    /\ round.stage = "collect" /\ Collected
    /\ round' = Rest
    /\ UNCHANGED <<bucket, device, approved, room, lan, lost, losses>>

\* Closed between two ticks, or killed: what it has written, nobody knows of.
LanStops ==
    /\ lan.up /\ losses < MaxLosses /\ losses' = losses + 1
    /\ lan' = [Fresh EXCEPT !.up = FALSE]
    /\ lost' = lost \cup (room \cap lan.published)
    /\ round' = Rest
    /\ UNCHANGED <<bucket, device, approved, room>>

LanStarts ==
    /\ ~lan.up /\ lan' = [lan EXCEPT !.up = TRUE]
    /\ UNCHANGED <<bucket, device, approved, room, round, lost, losses>>

\* The hourly look of any machine at the room; one that fails is made up for by the next.
PruneStaleIndexRecords(b) ==
    /\ b \in room
    /\ b < bucket - PruneAge \/ bucket = LastBucket
    /\ room' = room \ {b} /\ lost' = lost \ {b}
    /\ UNCHANGED <<bucket, device, approved, lan, round, losses>>

LanNext ==
    \/ TimePasses \/ LanTickBegins \/ PutRequests \/ PutFails \/ ForwardEnds \/ LanTickEnds
    \/ LanStops \/ LanStarts
    \/ \E d \in Device : Advertise(d) \/ BrowserApproves(d) \/ ForwardBegins(d)
    \/ \E b \in Bucket : Collect(b) \/ PruneStaleIndexRecords(b)

LanSpec == LanInit /\ [][LanNext]_lvars

-----------------------------------------------------------------------------
\* "Writing a record on every bucket rollover leaked an immortal key every five seconds of
\* uptime" (lan-enrollment.js:188).  Of what a service has written there are never more than
\* four records in the room, however its ticks lag behind the clock, beside those that a
\* stop or a failed deletion has left to the hourly look.
RecordsAreFew == Cardinality(room \ lost) <= 4
=============================================================================
