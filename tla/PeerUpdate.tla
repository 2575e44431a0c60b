----------------------------- MODULE PeerUpdate -----------------------------
(***************************************************************************)
(* A watcher that pulls a newer build from its peers (src/src/peer-update.js). *)
(* Peers offer their build; the newest offer of a peer with a route is fetched *)
(* chunk by chunk into a temporary file, each chunk being asked for when the   *)
(* one before is written, and again after silence; the file is verified and   *)
(* installed.  Messages are lost, late and doubled (by asking again).          *)
(*                                                                            *)
(* abandonFetch has two awaits in it, and more than one call may be under way. *)
(***************************************************************************)
EXTENDS Naturals, FiniteSets

CONSTANTS
    Peer,        \* the other watchers
    MaxVersion,  \* bound: builds; this watcher runs number 1
    Chunks,      \* how many slices an executable has
    MaxMishaps   \* bound: messages lost, errors of the disk, stalls with the peer there, and
                 \* peers that restart with another build, lose their route or get it back

ASSUME PeerBoundAssumption ==
    /\ MaxVersion \in Nat \ {0} /\ Chunks \in Nat \ {0}
    /\ MaxMishaps \in Nat

VARIABLES
    peer,        \* what each peer runs, and whether a direct message reaches it
    offers,      \* offers: the version each peer offered, and unroutableUntil
    flag,        \* activeFetchGlobal
    beginning,   \* calls of beginFetch in mkdir and open
    job,         \* fetching
    finishing,   \* calls of finishFetch
    abandoning,  \* calls of abandonFetch, by where they are
    net,         \* chunks on their way
    installed,   \* the version that current.json names, 0 for none
    leaked,      \* did a beginFetch fail between the flag and the job? (history)
    crossed,     \* did an abandonFetch go on over another fetch? (history)
    mishaps

Mishap == mishaps < MaxMishaps /\ mishaps' = mishaps + 1
pvars == <<peer, offers, flag, beginning, job, finishing, abandoning, net, installed,
           leaked, crossed, mishaps>>

Own == 1
Versions == 1..MaxVersion
Offsets == 0..(Chunks - 1)
NoJob == [peer |-> "none", version |-> 0, offset |-> 0, writing |-> {}, written |-> {},
          gone |-> FALSE, asks |-> FALSE]
Jobs == [peer : Peer, version : Versions, offset : 0..Chunks,
         writing : SUBSET Offsets, written : SUBSET Offsets, gone : BOOLEAN,
         asks : BOOLEAN]
NoCall == [at |-> "none", next |-> FALSE, over |-> [peer |-> "none", version |-> 0]]
Messages == [peer : Peer, version : Versions, offset : 0..Chunks, again : BOOLEAN]

PeerTypeOK ==
    /\ peer \in [Peer -> [version : Versions, route : BOOLEAN]]
    /\ offers \in [Peer -> [version : {0} \cup Versions, tried : BOOLEAN]]
    /\ flag \in BOOLEAN /\ leaked \in BOOLEAN /\ crossed \in BOOLEAN
    /\ beginning \subseteq [peer : Peer, version : Versions]
    /\ job \in {NoJob} \cup Jobs
    /\ finishing \subseteq Jobs
    /\ abandoning \in [at : {"none", "close", "rm"}, next : BOOLEAN, 
                       over : [peer : Peer \cup {"none"}, version : {0} \cup Versions]]
    /\ net \subseteq Messages
    /\ installed \in {0} \cup Versions
    /\ mishaps \in 0..MaxMishaps

PeerInit ==
    /\ peer \in [Peer -> [version : Versions, route : BOOLEAN]]
    /\ offers = [p \in Peer |-> [version |-> 0, tried |-> FALSE]]
    /\ flag = FALSE /\ leaked = FALSE /\ crossed = FALSE
    /\ beginning = {} /\ job = NoJob /\ finishing = {}
    /\ abandoning = NoCall
    /\ net = {}
    /\ installed = 0
    /\ mishaps = 0

Fetching == job # NoJob

\* requestChunk, and the peer's answer: the slice at this offset of the build it runs by now.
\* (Bounds: losing the request is losing the answer, and two answers are on their way.)
Serve(j, again) ==
    [peer |-> j.peer, version |-> peer[j.peer].version, offset |-> j.offset, again |-> again]
RequestChunk(j, again) ==
    IF peer[j.peer].route /\ Cardinality(net) < 2 THEN net \cup {Serve(j, again)} ELSE net

-----------------------------------------------------------------------------
\* Newer builds that were offered by a peer not known to be out of reach.
Candidates(known) == {p \in Peer : known[p].version > Own /\ ~known[p].tried}
Newest(known) == CHOOSE p \in Candidates(known) :
                    \A q \in Candidates(known) : known[p].version >= known[q].version

\* fetchNewestOffered up to the first await of beginFetch.
FetchNewestOffered(known) ==
    IF Fetching \/ flag \/ Candidates(known) = {}
    THEN UNCHANGED <<flag, beginning>>
    ELSE /\ flag' = TRUE
         /\ beginning' = beginning \cup
                {[peer |-> Newest(known), version |-> known[Newest(known)].version]}

\* A peer announces its build; every ten minutes, and when it connects.
Offer(p) ==
    /\ installed = 0
    /\ offers[p].version # peer[p].version \/ ~flag
    /\ offers' = [offers EXCEPT ![p].version = peer[p].version]
    /\ IF peer[p].version > Own THEN FetchNewestOffered(offers') ELSE UNCHANGED <<flag, beginning>>
    /\ UNCHANGED <<peer, job, finishing, abandoning, net, installed, leaked, crossed, mishaps>>

\* Two minutes after it was out of reach, a peer is tried again: longer than it takes to
\* try the others.
ForgetUnroutable(p) ==
    /\ offers[p].tried /\ ~flag /\ ~Fetching
    /\ offers' = [offers EXCEPT ![p].tried = FALSE]
    /\ UNCHANGED <<peer, flag, beginning, job, finishing, abandoning, net, installed, leaked,
                   crossed, mishaps>>

\* abandonFetch up to its first await.  (Bound: a second call beside one is not followed.)
Call(next, over) ==
    abandoning' = IF abandoning = NoCall THEN [at |-> "close", next |-> next,
                                                  over |-> [peer |-> over.peer, version |-> over.version]]
                  ELSE abandoning

\* mkdir and open are done: there is a job, and it asks for its first chunk.  Without a
\* route that throws: the job is abandoned, and the next peer tried.
BeginFetch(b) ==
    LET route == peer[b.peer].route
        begun == [NoJob EXCEPT !.peer = b.peer, !.version = b.version, !.asks = route]
    IN  /\ b \in beginning
        /\ beginning' = beginning \ {b}
        /\ job' = begun
        /\ net' = RequestChunk(begun, FALSE)
        /\ IF route
           THEN UNCHANGED <<offers, abandoning>>
           ELSE /\ offers' = [offers EXCEPT ![b.peer].tried = TRUE]
                /\ Call(TRUE, begun)
        /\ UNCHANGED <<peer, flag, finishing, installed, leaked, crossed, mishaps>>

\* mkdir or open throws; abandonFetch finds no job, and returns before it gives the
\* flag back.
BeginFetchFails(b) ==
    /\ b \in beginning
    /\ Mishap
    /\ beginning' = beginning \ {b}
    /\ leaked' = TRUE
    /\ UNCHANGED <<peer, offers, flag, job, finishing, abandoning, net, installed, crossed>>

-----------------------------------------------------------------------------
\* 2.5 s of silence: ask again, though the answer may be late.  (asks: the retry timer of the job is running.)
AskAgain ==
    /\ Fetching /\ job.asks
    /\ net' = RequestChunk(job, TRUE)
    /\ net' # net
    /\ UNCHANGED <<peer, offers, flag, beginning, job, finishing, abandoning, installed, leaked,
                   crossed, mishaps>>

\* 45 s of silence: the peer is gone, or runs another build, or is slow.
Stall ==
    /\ Fetching /\ job.asks
    /\ IF peer[job.peer].route /\ peer[job.peer].version = job.version
       THEN Mishap ELSE mishaps' = mishaps
    /\ Call(FALSE, job)
    /\ job' = [job EXCEPT !.asks = FALSE]
    /\ UNCHANGED <<peer, offers, flag, beginning, finishing, net, installed, leaked,
                   crossed>>

\* The handle is closed, which waits for the writes on it; now the file of the job that is
\* there by now is removed.  When there is none any more, that throws.
AbandonRemoves ==
    /\ abandoning.at = "close"
    /\ job.asks \/ job.writing = {}
    /\ IF Fetching
       THEN /\ job' = [job EXCEPT !.gone = TRUE]
            /\ abandoning' = [abandoning EXCEPT !.at = "rm"]
            /\ crossed' = (crossed \/ job.gone \/ job.version # abandoning.over.version
                                   \/ job.peer # abandoning.over.peer)
            /\ UNCHANGED <<flag, beginning>>
       ELSE /\ job' = job /\ crossed' = crossed
            /\ abandoning' = NoCall
            /\ IF abandoning.next THEN FetchNewestOffered(offers) ELSE UNCHANGED <<flag, beginning>>
    /\ UNCHANGED <<peer, offers, finishing, net, installed, leaked, mishaps>>

\* Mutant of AbandonDone: the flag stays taken.
AbandonKeepsFlag ==
    /\ abandoning.at = "rm"
    /\ job' = NoJob
    /\ IF abandoning.next /\ Candidates(offers) # {}
       THEN /\ flag' = TRUE
            /\ beginning' = beginning \cup
                {[peer |-> Newest(offers), version |-> offers[Newest(offers)].version]}
       ELSE UNCHANGED <<flag, beginning>>
    /\ crossed' = (crossed \/ beginning # {} \/ (Fetching /\ ~job.gone))
    /\ abandoning' = NoCall
    /\ UNCHANGED <<peer, offers, finishing, net, installed, leaked, mishaps>>

\* The job and the flag are given back, and after a missing route the next peer tried.
AbandonDone ==
    /\ abandoning.at = "rm"
    /\ job' = NoJob
    /\ IF abandoning.next /\ Candidates(offers) # {}
       THEN /\ flag' = TRUE
            /\ beginning' = beginning \cup
                {[peer |-> Newest(offers), version |-> offers[Newest(offers)].version]}
       ELSE flag' = FALSE /\ beginning' = beginning
    /\ crossed' = (crossed \/ beginning # {} \/ (Fetching /\ ~job.gone))
    /\ abandoning' = NoCall
    /\ UNCHANGED <<peer, offers, finishing, net, installed, leaked, mishaps>>

-----------------------------------------------------------------------------
\* The last slice was claimed: the job is handed to finishFetch, which gives the flag
\* back at once.  (Bound: the one before has come to its end.)
Finish(j) == finishing = {} /\ finishing' = {j} /\ job' = NoJob /\ flag' = FALSE

Answers(m) == Fetching /\ m.peer = job.peer /\ m.version = job.version /\ m.offset = job.offset

\* Mutant of Chunk: an answer to a slice that is being written is taken too, and claims the
\* next offset (peer-update.js:338).
ChunkTwice(m) ==
    /\ m \in net
    /\ net' = net \ {m}
    /\ job' = IF /\ Fetching /\ m.peer = job.peer /\ m.version = job.version
                 /\ m.offset \in job.writing \cup {job.offset} /\ job.offset < Chunks
              THEN [job EXCEPT !.offset = @ + 1, !.writing = @ \cup {m.offset}] ELSE job
    /\ UNCHANGED <<peer, offers, flag, beginning, finishing, abandoning, installed, leaked,
                   crossed, mishaps>>

\* Mutant of Chunk: an answer past the end is written too.
ChunkPastTheEnd(m) ==
    /\ m \in net
    /\ net' = net \ {m}
    /\ job' = IF Answers(m) THEN [job EXCEPT !.offset = @ + 1] ELSE job
    /\ UNCHANGED <<peer, offers, flag, beginning, finishing, abandoning, installed, leaked,
                   crossed, mishaps>>

\* The offset is claimed before the write begins, so that a second answer is too late.  An
\* answer to a request past the end is empty, and ends the fetch.
Chunk(m) ==
    /\ m \in net
    /\ \/ /\ Answers(m) /\ m.offset < Chunks
          /\ job' = [job EXCEPT !.offset = @ + 1, !.writing = @ \cup {m.offset}]
          /\ net' = net \ {m}
          /\ UNCHANGED <<flag, finishing>>
       \/ /\ Answers(m) /\ m.offset = Chunks
          /\ Finish(job)
          /\ net' = net \ {m}
       \/ /\ ~Answers(m)
          /\ net' = net \ {m}
          /\ UNCHANGED <<job, flag, finishing>>
    /\ UNCHANGED <<peer, offers, beginning, abandoning, installed, leaked, crossed, mishaps>>

\* A slice is written: the last was claimed, or the next is asked for.  Without a route
\* that throws, and the fetch is abandoned.
WriteLands(o) ==
    LET landed == [job EXCEPT !.writing = @ \ {o}, !.written = @ \cup {o}]
        route == peer[job.peer].route
    IN  /\ Fetching /\ o \in job.writing
        /\ IF landed.offset = Chunks
           THEN Finish(landed) /\ UNCHANGED <<net, abandoning>>
           ELSE /\ job' = [landed EXCEPT !.asks = @ /\ route]
                /\ net' = RequestChunk(landed, FALSE)
                /\ IF route THEN abandoning' = abandoning ELSE Call(FALSE, landed)
                /\ UNCHANGED <<finishing, flag>>
        /\ UNCHANGED <<peer, offers, beginning, installed, leaked, crossed, mishaps>>

WriteFails(o) ==
    /\ Fetching /\ o \in job.writing
   
    /\ Mishap
    /\ job' = [job EXCEPT !.writing = @ \ {o}, !.gone = TRUE, !.asks = FALSE]
    /\ Call(FALSE, job)
    /\ UNCHANGED <<peer, offers, flag, beginning, finishing, net, installed, leaked, crossed>>

\* close waits for the writes that are left; then the digest of the whole file decides,
\* and the update is installed and the watcher stopped.
Whole(f) == f.written \cup f.writing = Offsets
FinishFetch(f) ==
    /\ f \in finishing
    /\ finishing' = finishing \ {f}
    /\ installed' = IF Whole(f) /\ ~f.gone THEN f.version ELSE installed
    /\ UNCHANGED <<peer, offers, flag, beginning, job, abandoning, net, leaked, crossed, mishaps>>

\* The disk fails, or the executable does not run.
FinishFails(f) ==
    /\ f \in finishing
    /\ Mishap
    /\ finishing' = finishing \ {f}
    /\ UNCHANGED <<peer, offers, flag, beginning, job, abandoning, net, installed, leaked, crossed>>

-----------------------------------------------------------------------------
Lose(m) ==
    /\ m \in net
    /\ net' = net \ {m}
    /\ Mishap
    /\ UNCHANGED <<peer, offers, flag, beginning, job, finishing, abandoning, installed, leaked,
                   crossed>>

\* A peer restarts with a newer build, or is out of reach, or back.
PeerChanges(p, v, r) ==
    /\ Mishap
    /\ v >= peer[p].version /\ [version |-> v, route |-> r] # peer[p]
    /\ peer' = [peer EXCEPT ![p] = [version |-> v, route |-> r]]
    /\ UNCHANGED <<offers, flag, beginning, job, finishing, abandoning, net, installed, leaked,
                   crossed>>

-----------------------------------------------------------------------------
Stalls == Stall /\ mishaps' = mishaps
Begins == \E b \in beginning : BeginFetch(b)
Reads == \E m \in net : Chunk(m)
Lands == \E o \in Offsets : WriteLands(o)
Finishes == \E f \in finishing : FinishFetch(f)

\* An installed update stops the watcher.
PeerNext ==
    /\ installed = 0
    /\ \/ AskAgain \/ Stall \/ AbandonRemoves \/ AbandonDone \/ Begins \/ Reads \/ Lands \/ Finishes
       \/ \E p \in Peer : Offer(p) \/ ForgetUnroutable(p)
       \/ \E p \in Peer, v \in Versions, r \in BOOLEAN : PeerChanges(p, v, r)
       \/ \E b \in beginning : BeginFetchFails(b)
       \/ \E o \in Offsets : WriteFails(o)
       \/ \E f \in finishing : FinishFails(f)
       \/ \E m \in net : Lose(m)

\* Fairness (MCFleet): answers arrive, callbacks run, peers go on offering; two minutes pass
\* again and again.
PeerSpec == PeerInit /\ [][PeerNext]_pvars

-----------------------------------------------------------------------------
\* Whatever is lost, late, doubled or asked again, the slices of a fetch that comes to its
\* end make up the whole file: none is skipped and none written past (peer-update.js:338).
\* A write that failed beside another is for the digest to find.
AssemblesWhole == \A f \in finishing : Whole(f) \/ f.gone

\* As long as a peer that can be reached runs a newer build, one is installed in the end;
\* unless an error of the disk between taking the flag and having a job has left the flag
\* taken for good (peer-update.js:128), or a fetch was abandoned over another.
NewerIsInstalled ==
    [](\E p \in Peer : peer[p].version > Own /\ peer[p].route) ~> installed > Own \/ leaked \/ crossed
=============================================================================
