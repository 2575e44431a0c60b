---------------------------- MODULE FleetProofs ----------------------------
(***************************************************************************)
(* What holds of the watchers of a fleet, for any number of them: theorems   *)
(* of PeerUpdate and of FleetReunion, and of the two as MCFleet puts them    *)
(* together.                                                                 *)
(***************************************************************************)
EXTENDS MCFleet, NumberFacts, FunctionTheorems

-----------------------------------------------------------------------------
(***************************************************************************)
(* PeerUpdate: the slices of a fetch.                                        *)
(***************************************************************************)

Begun == [peer : Peer, version : Versions]
Calls == [at : {"none", "close", "rm"}, next : BOOLEAN,
          over : [peer : Peer \cup {"none"}, version : {0} \cup Versions]]
Known == [Peer -> [version : {0} \cup Versions, tried : BOOLEAN]]

\* What was claimed of a job is written or being written, and nothing else; unless its file
\* is gone.
Claimed(j) == {o \in Offsets : o < j.offset}
Cut(j) == j.gone \/ j.written \cup j.writing = Claimed(j)
Slices ==
    /\ Cut(job)
    /\ \A f \in finishing : Cut(f) /\ f.offset = Chunks
PeerInv == PeerTypeOK /\ Slices

LEMMA NewestIsCandidate ==
    ASSUME NEW known \in Known, Candidates(known) # {}
    PROVE  Newest(known) \in Candidates(known)
  <1> DEFINE S == {known[p].version : p \in Candidates(known)}
  <1>1. S \subseteq 0..MaxVersion /\ S # {}
    BY PeerBoundAssumption DEF Known, Candidates, Versions
  <1>2. IsFiniteSet(0..MaxVersion)
    BY PeerBoundAssumption, FS_Interval
  <1> HIDE DEF S
  <1>3. IsFiniteSet(S)
    BY <1>1, <1>2, FS_Subset
  <1>4. PICK v \in S : \A w \in S : w <= v
    <2>1. S \subseteq Int
      BY <1>1
    <2> QED  BY <1>1, <1>3, <2>1, GreatestExists
  <1>5. PICK p \in Candidates(known) : v = known[p].version
    BY <1>4 DEF S
  <1>6. \A q \in Candidates(known) : known[p].version >= known[q].version
    BY <1>1, <1>4, <1>5 DEF S
  <1> QED  BY <1>6 DEF Newest

LEMMA NewestTypes ==
    ASSUME NEW known \in Known, Candidates(known) # {}
    PROVE  [peer |-> Newest(known), version |-> known[Newest(known)].version] \in Begun
  <1>1. Newest(known) \in Candidates(known)
    BY NewestIsCandidate
  <1>2. known[Newest(known)].version # 0 /\ Newest(known) \in Peer
    BY <1>1, PeerBoundAssumption DEF Candidates, Own, Known, Versions
  <1> QED  BY <1>2 DEF Begun, Known

LEMMA JobTypes ==
    /\ NoJob \in [peer : {"none"}, version : {0}, offset : 0..Chunks, writing : SUBSET Offsets,
                  written : SUBSET Offsets, gone : BOOLEAN, asks : BOOLEAN]
    /\ NoJob \notin Jobs
    /\ Cut(NoJob)
  BY PeerBoundAssumption DEF NoJob, Jobs, Versions, Cut, Claimed, Offsets

LEMMA PeerInitially == PeerInit => PeerInv
  <1> SUFFICES ASSUME PeerInit  PROVE PeerInv
    OBVIOUS
  <1>1. offers \in Known /\ mishaps \in 0..MaxMishaps
    BY PeerBoundAssumption DEF PeerInit, Known
  <1>2. abandoning \in Calls
    BY DEF PeerInit, NoCall, Calls
  <1>3. PeerTypeOK
    BY <1>1, <1>2 DEF PeerInit, PeerTypeOK, Known, Calls
  <1> QED  BY <1>3, JobTypes DEF PeerInit, PeerInv, Slices

\* Parts of the steps.
LEMMA MishapTypes == ASSUME PeerTypeOK, Mishap  PROVE mishaps' \in 0..MaxMishaps
  BY PeerBoundAssumption DEF PeerTypeOK, Mishap

LEMMA CallTypes ==
    ASSUME PeerTypeOK, NEW next \in BOOLEAN, NEW j \in {NoJob} \cup Jobs, Call(next, j)
    PROVE  abandoning' \in Calls
  <1>1. j.peer \in Peer \cup {"none"} /\ j.version \in {0} \cup Versions
    BY JobTypes DEF Jobs
  <1> QED  BY <1>1 DEF Call, Calls, PeerTypeOK

LEMMA FetchTypes ==
    ASSUME PeerTypeOK, NEW known \in Known, FetchNewestOffered(known)
    PROVE  flag' \in BOOLEAN /\ beginning' \subseteq Begun
  BY NewestTypes DEF FetchNewestOffered, PeerTypeOK, Begun

LEMMA RequestTypes ==
    ASSUME PeerTypeOK, NEW j \in Jobs, NEW again \in BOOLEAN
    PROVE  RequestChunk(j, again) \subseteq Messages
  <1>1. j.peer \in Peer /\ j.offset \in 0..Chunks
    BY DEF Jobs
  <1>2. peer[j.peer].version \in Versions
    BY <1>1 DEF PeerTypeOK
  <1>3. Serve(j, again) \in Messages
    BY <1>1, <1>2 DEF Serve, Messages
  <1> QED  BY <1>3 DEF RequestChunk, PeerTypeOK

\* A step that leaves the job's slices alone, and hands no job over.
LEMMA SlicesLeft ==
    ASSUME Slices, \/ job' = job
                   \/ job' = NoJob
                   \/ /\ job'.gone \in {TRUE, job.gone} /\ job'.offset = job.offset
                      /\ job'.writing = job.writing /\ job'.written = job.written,
           finishing' \subseteq finishing
    PROVE  Slices'
  <1>1. Cut(job)'
    BY JobTypes DEF Slices, Cut, Claimed
  <1> QED  BY <1>1 DEF Slices

\* The steps around the offers.
LEMMA OffersKeep ==
    ASSUME PeerInv,
           \/ \E p \in Peer : Offer(p) \/ ForgetUnroutable(p)
           \/ \E p \in Peer, v \in Versions, r \in BOOLEAN : PeerChanges(p, v, r)
           \/ \E b \in beginning : BeginFetchFails(b)
           \/ \E m \in net : Lose(m)
           \/ AskAgain
    PROVE  PeerInv'
  <1>0. PeerTypeOK /\ Slices /\ offers \in Known
    BY DEF PeerInv, PeerTypeOK, Known
  <1>1. ASSUME NEW p \in Peer, Offer(p)  PROVE PeerInv'
    <2>1. UNCHANGED <<peer, job, finishing, abandoning, net, installed, leaked, crossed, mishaps>>
      BY <1>1 DEF Offer
    <2>2. PICK known : known = offers' /\ known \in Known
      <3>1. offers' \in Known
        BY <1>0, <1>1 DEF Offer, PeerTypeOK, Known
      <3> QED  BY <3>1
    <2>3. FetchNewestOffered(known) \/ UNCHANGED <<flag, beginning>>
      BY <1>1, <2>2 DEF Offer, FetchNewestOffered, Candidates, Newest
    <2>4. flag' \in BOOLEAN /\ beginning' \subseteq Begun
      BY <1>0, <2>2, <2>3, FetchTypes DEF PeerTypeOK, Begun
    <2>5. PeerTypeOK'
      BY <1>0, <2>1, <2>2, <2>4 DEF PeerTypeOK, Known, Begun
    <2> QED  BY <1>0, <2>1, <2>5, SlicesLeft DEF PeerInv
  <1>2. ASSUME NEW p \in Peer, ForgetUnroutable(p)  PROVE PeerInv'
    <2>1. UNCHANGED <<peer, flag, beginning, job, finishing, abandoning, net, installed, leaked,
                      crossed, mishaps>>
      BY <1>2 DEF ForgetUnroutable
    <2>2. offers' \in Known
      BY <1>0, <1>2 DEF ForgetUnroutable, Known
    <2>3. PeerTypeOK'
      BY <1>0, <2>1, <2>2 DEF PeerTypeOK, Known
    <2> QED  BY <1>0, <2>1, <2>3, SlicesLeft DEF PeerInv
  <1>3. ASSUME NEW p \in Peer, NEW v \in Versions, NEW r \in BOOLEAN, PeerChanges(p, v, r)
        PROVE  PeerInv'
    <2>1. UNCHANGED <<offers, flag, beginning, job, finishing, abandoning, net, installed, leaked,
                      crossed>>
      BY <1>3 DEF PeerChanges
    <2>2. peer' \in [Peer -> [version : Versions, route : BOOLEAN]] /\ mishaps' \in 0..MaxMishaps
      BY <1>0, <1>3, MishapTypes DEF PeerChanges, PeerTypeOK
    <2>3. PeerTypeOK'
      BY <1>0, <2>1, <2>2 DEF PeerTypeOK
    <2> QED  BY <1>0, <2>1, <2>3, SlicesLeft DEF PeerInv
  <1>4. ASSUME NEW b \in beginning, BeginFetchFails(b)  PROVE PeerInv'
    <2>1. /\ UNCHANGED <<peer, offers, flag, job, finishing, abandoning, net, installed, crossed>>
          /\ beginning' \subseteq beginning /\ leaked' = TRUE
      BY <1>4 DEF BeginFetchFails
    <2>2. mishaps' \in 0..MaxMishaps
      BY <1>0, <1>4, MishapTypes DEF BeginFetchFails
    <2>3. PeerTypeOK'
      BY <1>0, <2>1, <2>2 DEF PeerTypeOK
    <2> QED  BY <1>0, <2>1, <2>3, SlicesLeft DEF PeerInv
  <1>5. ASSUME NEW m \in net, Lose(m)  PROVE PeerInv'
    <2>1. /\ UNCHANGED <<peer, offers, flag, beginning, job, finishing, abandoning, installed, leaked,
                         crossed>>
          /\ net' \subseteq net
      BY <1>5 DEF Lose
    <2>2. mishaps' \in 0..MaxMishaps
      BY <1>0, <1>5, MishapTypes DEF Lose
    <2>3. PeerTypeOK'
      BY <1>0, <2>1, <2>2 DEF PeerTypeOK
    <2> QED  BY <1>0, <2>1, <2>3, SlicesLeft DEF PeerInv
  <1>6. CASE AskAgain
    <2>1. UNCHANGED <<peer, offers, flag, beginning, job, finishing, abandoning, installed, leaked,
                      crossed, mishaps>>
      BY <1>6 DEF AskAgain
    <2>2. job \in Jobs /\ net' = RequestChunk(job, TRUE)
      BY <1>0, <1>6 DEF AskAgain, Fetching, PeerTypeOK
    <2>3. net' \subseteq Messages
      BY <1>0, <2>2, RequestTypes
    <2>4. PeerTypeOK'
      BY <1>0, <2>1, <2>3 DEF PeerTypeOK
    <2> QED  BY <1>0, <2>1, <2>4, SlicesLeft DEF PeerInv
  <1> QED  BY <1>1, <1>2, <1>3, <1>4, <1>5, <1>6

\* The steps that begin a job, and those that give it up.
LEMMA AbandonsKeep ==
    ASSUME PeerInv, Begins \/ Stall \/ AbandonRemoves \/ AbandonDone \/ \E o \in Offsets : WriteFails(o)
    PROVE  PeerInv'
  <1>0. PeerTypeOK /\ Slices /\ offers \in Known /\ job \in {NoJob} \cup Jobs
    BY DEF PeerInv, PeerTypeOK, Known
  <1>1. ASSUME NEW b \in beginning, BeginFetch(b)  PROVE PeerInv'
    <2>1. /\ UNCHANGED <<peer, flag, finishing, installed, leaked, crossed, mishaps>>
          /\ beginning' \subseteq beginning
      BY <1>1 DEF BeginFetch
    <2> DEFINE begun == [NoJob EXCEPT !.peer = b.peer, !.version = b.version,
                                      !.asks = peer[b.peer].route]
    <2>2. b.peer \in Peer /\ b.version \in Versions /\ peer[b.peer].route \in BOOLEAN
      BY <1>0 DEF PeerTypeOK
    <2>3. /\ begun \in Jobs /\ ~begun.gone /\ begun.offset = 0 /\ begun.writing = {}
          /\ begun.written = {}
      <3>1. 0 \in 0..Chunks
        BY PeerBoundAssumption
      <3> QED  BY <2>2, <3>1 DEF NoJob, Jobs
    <2>4. job' = begun /\ net' = RequestChunk(begun, FALSE)
      BY <1>1 DEF BeginFetch
    <2> HIDE DEF begun
    <2>6. net' \subseteq Messages
      BY <1>0, <2>3, <2>4, RequestTypes
    <2>7. offers' \in Known
      BY <1>0, <1>1 DEF BeginFetch, Known
    <2>8. abandoning' \in Calls
      <3>1. CASE peer[b.peer].route
        BY <1>0, <1>1, <3>1 DEF BeginFetch, PeerTypeOK, Calls
      <3>2. CASE ~peer[b.peer].route
        <4>1. Call(TRUE, begun)
          BY <1>1, <3>2 DEF BeginFetch, begun
        <4> QED  BY <1>0, <2>3, <4>1, CallTypes
      <3> QED  BY <3>1, <3>2
    <2>9. PeerTypeOK'
      BY <1>0, <2>1, <2>3, <2>4, <2>6, <2>7, <2>8 DEF PeerTypeOK, Known, Calls
    <2>10. Claimed(begun) = {}
      BY <2>3 DEF Claimed, Offsets
    <2>11. Slices'
      <3>1. Cut(job)'
        BY <2>3, <2>4, <2>10 DEF Cut, Claimed
      <3> QED  BY <1>0, <2>1, <3>1 DEF Slices
    <2> QED  BY <2>9, <2>11 DEF PeerInv
  <1>2. CASE Stall
    <2>1. UNCHANGED <<peer, offers, flag, beginning, finishing, net, installed, leaked, crossed>>
      BY <1>2 DEF Stall
    <2>2. job \in Jobs /\ job' = [job EXCEPT !.asks = FALSE]
      BY <1>0, <1>2 DEF Stall, Fetching
    <2>3. /\ job' \in Jobs /\ job'.gone = job.gone /\ job'.offset = job.offset
          /\ job'.writing = job.writing /\ job'.written = job.written
      BY <2>2 DEF Jobs
    <2>4. mishaps' \in 0..MaxMishaps
      BY <1>0, <1>2, MishapTypes DEF Stall, PeerTypeOK
    <2>5. abandoning' \in Calls
      BY <1>0, <1>2, CallTypes DEF Stall
    <2>6. PeerTypeOK'
      BY <1>0, <2>1, <2>3, <2>4, <2>5 DEF PeerTypeOK, Calls
    <2> QED  BY <1>0, <2>1, <2>3, <2>6, SlicesLeft DEF PeerInv
  <1>3. CASE AbandonRemoves
    <2>1. UNCHANGED <<peer, offers, finishing, net, installed, leaked, mishaps>>
      BY <1>3 DEF AbandonRemoves
    <2>2. CASE Fetching
      <3>1. UNCHANGED <<flag, beginning>> /\ abandoning' = [abandoning EXCEPT !.at = "rm"]
               /\ job' = [job EXCEPT !.gone = TRUE] /\ job \in Jobs
        BY <1>0, <1>3, <2>2 DEF AbandonRemoves, Fetching
      <3>2. crossed' \in BOOLEAN
        BY <1>0, <1>3, <2>2, <3>1 DEF AbandonRemoves, PeerTypeOK, Jobs
      <3>3. /\ job' \in Jobs /\ job'.gone = TRUE /\ job'.offset = job.offset
            /\ job'.writing = job.writing /\ job'.written = job.written
        BY <3>1 DEF Jobs
      <3>4. abandoning' \in Calls
        BY <1>0, <3>1 DEF PeerTypeOK, Calls
      <3>5. PeerTypeOK'
        BY <1>0, <2>1, <3>1, <3>2, <3>3, <3>4 DEF PeerTypeOK, Calls
      <3> QED  BY <1>0, <2>1, <3>3, <3>5, SlicesLeft DEF PeerInv
    <2>3. CASE ~Fetching
      <3>1. /\ UNCHANGED <<job, crossed>> /\ abandoning' = NoCall
            /\ FetchNewestOffered(offers) \/ UNCHANGED <<flag, beginning>>
        BY <1>3, <2>3 DEF AbandonRemoves
      <3>2. flag' \in BOOLEAN /\ beginning' \subseteq Begun
        BY <1>0, <3>1, FetchTypes DEF PeerTypeOK, Begun
      <3>3. abandoning' \in Calls
        BY <3>1 DEF NoCall, Calls
      <3>4. PeerTypeOK'
        BY <1>0, <2>1, <3>1, <3>2, <3>3 DEF PeerTypeOK, Calls, Begun
      <3> QED  BY <1>0, <2>1, <3>1, <3>4, SlicesLeft DEF PeerInv
    <2> QED  BY <2>2, <2>3
  <1>4. CASE AbandonDone
    <2>1. /\ UNCHANGED <<peer, offers, finishing, net, installed, leaked, mishaps>>
          /\ job' = NoJob /\ abandoning' = NoCall
      BY <1>4 DEF AbandonDone
    <2>2. flag' \in BOOLEAN /\ beginning' \subseteq Begun
      <3>1. CASE abandoning.next /\ Candidates(offers) # {}
        <4>1. flag' = TRUE /\ beginning' = beginning \cup
                 {[peer |-> Newest(offers), version |-> offers[Newest(offers)].version]}
          BY <1>4, <3>1 DEF AbandonDone
        <4> QED  BY <1>0, <3>1, <4>1, NewestTypes DEF PeerTypeOK, Begun
      <3>2. CASE ~(abandoning.next /\ Candidates(offers) # {})
        BY <1>0, <1>4, <3>2 DEF AbandonDone, PeerTypeOK, Begun
      <3> QED  BY <3>1, <3>2
    <2>3. crossed' \in BOOLEAN
      BY <1>0, <1>4 DEF AbandonDone, PeerTypeOK
    <2>4. NoCall \in Calls
      BY DEF NoCall, Calls
    <2>5. PeerTypeOK'
      BY <1>0, <2>1, <2>2, <2>3, <2>4 DEF PeerTypeOK, Calls, Begun
    <2> QED  BY <1>0, <2>1, <2>5, SlicesLeft DEF PeerInv
  <1>5. ASSUME NEW o \in Offsets, WriteFails(o)  PROVE PeerInv'
    <2>1. UNCHANGED <<peer, offers, flag, beginning, finishing, net, installed, leaked, crossed>>
      BY <1>5 DEF WriteFails
    <2>2. job \in Jobs /\ job' = [job EXCEPT !.writing = @ \ {o}, !.gone = TRUE, !.asks = FALSE]
      BY <1>0, <1>5 DEF WriteFails, Fetching
    <2>3. job' \in Jobs /\ job'.gone
      BY <2>2 DEF Jobs
    <2>4. mishaps' \in 0..MaxMishaps /\ abandoning' \in Calls
      BY <1>0, <1>5, MishapTypes, CallTypes DEF WriteFails
    <2>5. PeerTypeOK'
      BY <1>0, <2>1, <2>3, <2>4 DEF PeerTypeOK, Calls
    <2> QED  BY <1>0, <2>1, <2>3, <2>5 DEF PeerInv, Slices, Cut
  <1> QED  BY <1>1, <1>2, <1>3, <1>4, <1>5 DEF Begins

\* A job whose last slice was claimed is handed over whole, or gone.
LEMMA FinishKeeps ==
    ASSUME PeerTypeOK, Slices, NEW j \in Jobs, Cut(j), j.offset = Chunks, Finish(j)
    PROVE  /\ job' = NoJob /\ flag' = FALSE /\ finishing' \subseteq Jobs
           /\ \A f \in finishing' : Cut(f) /\ f.offset = Chunks
  BY DEF Finish

LEMMA ChunkKeeps == ASSUME PeerInv, NEW m \in net, Chunk(m)  PROVE PeerInv'
  <1>0. PeerTypeOK /\ Slices /\ job \in {NoJob} \cup Jobs /\ m \in Messages
    BY DEF PeerInv, PeerTypeOK
  <1>1. /\ UNCHANGED <<peer, offers, beginning, abandoning, installed, leaked, crossed, mishaps>>
        /\ net' \subseteq net
    BY DEF Chunk
  <1>2. CASE /\ Answers(m) /\ m.offset < Chunks
             /\ job' = [job EXCEPT !.offset = @ + 1, !.writing = @ \cup {m.offset}]
             /\ UNCHANGED <<flag, finishing>>
    <2>1. job \in Jobs /\ m.offset = job.offset
      BY <1>0, <1>2 DEF Answers, Fetching
    <2>2. job.offset + 1 \in 0..Chunks /\ m.offset \in Offsets
      BY <1>2, <2>1, PeerBoundAssumption DEF Jobs, Offsets
    <2>3. /\ job' \in Jobs /\ job'.gone = job.gone /\ job'.offset = job.offset + 1
          /\ job'.writing = job.writing \cup {job.offset} /\ job'.written = job.written
      BY <1>2, <2>1, <2>2 DEF Jobs
    <2>4. {o \in Offsets : o < job.offset + 1} = Claimed(job) \cup {job.offset}
      BY <2>1, <2>2, PeerBoundAssumption DEF Claimed, Offsets, Jobs
    <2>5. Cut(job)'
      BY <1>0, <2>3, <2>4 DEF Slices, Cut, Claimed
    <2>6. PeerTypeOK'
      BY <1>0, <1>1, <1>2, <2>3 DEF PeerTypeOK
    <2> QED  BY <1>0, <1>2, <2>5, <2>6 DEF PeerInv, Slices
  <1>3. CASE Answers(m) /\ m.offset = Chunks /\ Finish(job)
    <2>1. job \in Jobs /\ job.offset = Chunks /\ Cut(job)
      BY <1>0, <1>3 DEF Answers, Fetching, Slices
    <2>2. /\ job' = NoJob /\ flag' = FALSE /\ finishing' \subseteq Jobs
          /\ \A f \in finishing' : Cut(f) /\ f.offset = Chunks
      BY <1>0, <1>3, <2>1, FinishKeeps
    <2>3. PeerTypeOK'
      BY <1>0, <1>1, <2>2 DEF PeerTypeOK
    <2>4. Slices'
      BY <2>2, JobTypes DEF Slices, Cut, Claimed
    <2> QED  BY <2>3, <2>4 DEF PeerInv
  <1>4. CASE UNCHANGED <<job, flag, finishing>>
    <2>1. PeerTypeOK'
      BY <1>0, <1>1, <1>4 DEF PeerTypeOK
    <2> QED  BY <1>0, <1>4, <2>1, SlicesLeft DEF PeerInv
  <1> QED  BY <1>2, <1>3, <1>4 DEF Chunk

LEMMA WriteLandsKeeps == ASSUME PeerInv, NEW o \in Offsets, WriteLands(o)  PROVE PeerInv'
  <1> DEFINE landed == [job EXCEPT !.writing = @ \ {o}, !.written = @ \cup {o}]
             route == peer[job.peer].route
  <1>0. PeerTypeOK /\ Slices /\ job \in Jobs /\ o \in job.writing
    BY DEF PeerInv, PeerTypeOK, WriteLands, Fetching
  <1>1. UNCHANGED <<peer, offers, beginning, installed, leaked, crossed, mishaps>>
    BY DEF WriteLands
  <1>2. /\ landed \in Jobs /\ landed.gone = job.gone /\ landed.offset = job.offset
        /\ landed.writing = job.writing \ {o} /\ landed.written = job.written \cup {o}
    BY <1>0 DEF Jobs
  <1>3. Cut(landed)
    <2>1. landed.written \cup landed.writing = job.written \cup job.writing
      BY <1>0, <1>2
    <2> QED  BY <1>0, <1>2, <2>1 DEF Slices, Cut, Claimed
  <1>4. CASE landed.offset = Chunks
    <2>1. Finish(landed) /\ UNCHANGED <<net, abandoning>>
      BY <1>4 DEF WriteLands
    <2> HIDE DEF landed
    <2>2. /\ job' = NoJob /\ flag' = FALSE /\ finishing' \subseteq Jobs
          /\ \A f \in finishing' : Cut(f) /\ f.offset = Chunks
      BY <1>0, <1>2, <1>3, <1>4, <2>1, FinishKeeps
    <2>3. PeerTypeOK'
      BY <1>0, <1>1, <2>1, <2>2 DEF PeerTypeOK
    <2>4. Slices'
      BY <2>2, JobTypes DEF Slices, Cut, Claimed
    <2> QED  BY <2>3, <2>4 DEF PeerInv
  <1>5. CASE landed.offset # Chunks
    <2>1. /\ job' = [landed EXCEPT !.asks = @ /\ route] /\ net' = RequestChunk(landed, FALSE)
          /\ UNCHANGED <<finishing, flag>>
      BY <1>5 DEF WriteLands
    <2>2. abandoning' = abandoning \/ Call(FALSE, landed)
      BY <1>5 DEF WriteLands
    <2>3. route \in BOOLEAN
      BY <1>0 DEF Jobs, PeerTypeOK
    <2> HIDE DEF landed, route
    <2>4. /\ job' \in Jobs /\ job'.gone = landed.gone /\ job'.offset = landed.offset
          /\ job'.writing = landed.writing /\ job'.written = landed.written
      BY <1>2, <2>1, <2>3 DEF Jobs
    <2>5. net' \subseteq Messages
      BY <1>0, <1>2, <2>1, RequestTypes
    <2>6. abandoning' \in Calls
      BY <1>0, <1>2, <2>2, CallTypes DEF PeerTypeOK, Calls
    <2>7. PeerTypeOK'
      BY <1>0, <1>1, <2>1, <2>4, <2>5, <2>6 DEF PeerTypeOK, Calls
    <2>8. Cut(job)'
      BY <1>3, <2>4 DEF Cut, Claimed
    <2> QED  BY <1>0, <2>1, <2>7, <2>8 DEF PeerInv, Slices
  <1> QED  BY <1>4, <1>5

LEMMA FinishesKeep ==
    ASSUME PeerInv, Finishes \/ \E f \in finishing : FinishFails(f)  PROVE PeerInv'
  <1>0. PeerTypeOK /\ Slices
    BY DEF PeerInv
  <1>1. ASSUME NEW f \in finishing, FinishFetch(f)  PROVE PeerInv'
    <2>1. /\ UNCHANGED <<peer, offers, flag, beginning, job, abandoning, net, leaked, crossed, mishaps>>
          /\ finishing' \subseteq finishing /\ installed' \in {installed, f.version}
      BY <1>1 DEF FinishFetch
    <2>2. f.version \in Versions
      BY <1>0 DEF PeerTypeOK, Jobs
    <2>3. PeerTypeOK'
      BY <1>0, <2>1, <2>2 DEF PeerTypeOK
    <2> QED  BY <1>0, <2>1, <2>3, SlicesLeft DEF PeerInv
  <1>2. ASSUME NEW f \in finishing, FinishFails(f)  PROVE PeerInv'
    <2>1. /\ UNCHANGED <<peer, offers, flag, beginning, job, abandoning, net, installed, leaked, crossed>>
          /\ finishing' \subseteq finishing
      BY <1>2 DEF FinishFails
    <2>2. mishaps' \in 0..MaxMishaps
      BY <1>0, <1>2, MishapTypes DEF FinishFails
    <2>3. PeerTypeOK'
      BY <1>0, <2>1, <2>2 DEF PeerTypeOK
    <2> QED  BY <1>0, <2>1, <2>3, SlicesLeft DEF PeerInv
  <1> QED  BY <1>1, <1>2 DEF Finishes

LEMMA PeerInvKept == PeerInv /\ [PeerNext]_pvars => PeerInv'
  <1> SUFFICES ASSUME PeerInv, [PeerNext]_pvars  PROVE PeerInv'
    OBVIOUS
  <1>1. CASE UNCHANGED pvars
    <2>1. PeerTypeOK'
      BY <1>1 DEF pvars, PeerInv, PeerTypeOK
    <2> QED  BY <1>1, <2>1, SlicesLeft DEF pvars, PeerInv
  <1>2. CASE Reads
    BY <1>2, ChunkKeeps DEF Reads
  <1>3. CASE Lands
    BY <1>3, WriteLandsKeeps DEF Lands
  <1> QED
    BY <1>1, <1>2, <1>3, OffersKeep, AbandonsKeep, FinishesKeep DEF PeerNext

\* The variables of PeerUpdate keep their types: no slice past the end is claimed.
THEOREM PeerTypesHold == PeerSpec => []PeerTypeOK
  <1>1. PeerInv => PeerTypeOK
    BY DEF PeerInv
  <1> QED  BY <1>1, PeerInitially, PeerInvKept, PTL DEF PeerSpec

\* A fetch that comes to its end has every slice of the executable (peer-update.js:338): for any
\* number of peers, builds, slices and mishaps, and whichever answers come late or twice.
THEOREM AssemblesWholeAlways == PeerSpec => []AssemblesWhole
  <1>1. PeerInv => AssemblesWhole
    <2> SUFFICES ASSUME PeerInv, NEW f \in finishing, ~f.gone  PROVE Whole(f)
      BY DEF AssemblesWhole
    <2>1. f.written \cup f.writing = Claimed(f) /\ f.offset = Chunks
      BY DEF PeerInv, Slices, Cut
    <2>2. Claimed(f) = Offsets
      BY <2>1, PeerBoundAssumption DEF Claimed, Offsets
    <2> QED  BY <2>1, <2>2 DEF Whole
  <1> QED  BY <1>1, PeerInitially, PeerInvKept, PTL DEF PeerSpec

-----------------------------------------------------------------------------
(***************************************************************************)
(* FleetReunion: which of two machines hands its secret over.                *)
(***************************************************************************)

\* The machines can be numbered, as they are in the beginning.
LEMMA NumberingExists ==
    /\ Numbering \in [Machine -> 1..Cardinality(Machine)]
    /\ Cardinality(Machine) \in Nat
  <1> DEFINE n == Cardinality(Machine)
  <1>1. n \in Nat /\ ExistsBijection(1..n, Machine)
    BY FleetAssumption, FS_CardinalityType
  <1>2. ExistsBijection(Machine, 1..n)
    <2> HIDE DEF n
    <2> QED  BY <1>1, Fun_ExistsBijSymmetric
  <1>3. PICK f \in [Machine -> 1..n] : \A a, b \in Machine : f[a] = f[b] => a = b
    BY <1>2 DEF ExistsBijection, Bijection, Injection, IsInjective
  <1> QED  BY <1>1, <1>3 DEF Numbering

LEMMA FleetInitially == FleetInit => FleetTypeOK
  <1> SUFFICES ASSUME FleetInit  PROVE FleetTypeOK
    OBVIOUS
  <1>1. \A m \in Machine : Numbering[m] \in Secrets
    BY NumberingExists, FleetAssumption DEF Secrets
  <1>2. \A m \in Machine : FreshIndex(m, Numbering[m]) \in Indexes
    BY <1>1, FleetAssumption DEF FreshIndex, Indexes, Stamps
  <1>3. minted \in 0..MaxSecrets /\ acts \in 0..MaxActs
    BY FleetAssumption DEF FleetInit
  <1> QED  BY <1>2, <1>3 DEF FleetInit, FleetTypeOK

LEMMA ReplaceTypes ==
    ASSUME FleetTypeOK, NEW m \in Machine, NEW at \in Stamps, Replace(m, at)
    PROVE  index' \in [Machine -> Indexes] /\ minted' \in 0..MaxSecrets
  <1>1. Cardinality(Machine) + minted + 1 \in Secrets /\ minted' \in 0..MaxSecrets
    BY NumberingExists, FleetAssumption DEF Replace, FleetTypeOK, Secrets
  <1>2. \A i \in Indexes, secret \in Secrets :
           [i EXCEPT !.secret = secret, !.at = at, !.complete = FALSE, !.exposed = FALSE] \in Indexes
    BY DEF Indexes
  <1> QED  BY <1>1, <1>2 DEF Replace, FleetTypeOK

LEMMA ActTypes == ASSUME FleetTypeOK, Act  PROVE acts' \in 0..MaxActs
  BY FleetAssumption DEF FleetTypeOK, Act

LEMMA AdoptTypes ==
    ASSUME FleetTypeOK, NEW m \in Machine, NEW c, c.fleet \in Machine, c.secret \in Secrets,
           c.at \in Stamps, AdoptMachineIndexCapability(m, c)
    PROVE  index' \in [Machine -> Indexes]
  <1>1. \A i \in Indexes :
           [i EXCEPT !.fleet = c.fleet, !.secret = c.secret, !.at = c.at, !.complete = FALSE] \in Indexes
    BY DEF Indexes
  <1>2. index[m] \in Indexes /\ index \in [Machine -> Indexes]
    BY DEF FleetTypeOK
  <1> DEFINE i == [index[m] EXCEPT !.fleet = c.fleet, !.secret = c.secret, !.at = c.at,
                                   !.complete = FALSE]
  <1>3. i \in Indexes
    BY <1>1, <1>2
  <1>4. index' = index \/ index' = [index EXCEPT ![m] = i]
    BY DEF AdoptMachineIndexCapability
  <1> HIDE DEF i
  <1> QED  BY <1>2, <1>3, <1>4

LEMMA SentTypes ==
    ASSUME FleetTypeOK, NEW m \in Machine
    PROVE  IndexFacts(m) \in Facts /\ Capability(m) \in Capabilities
  <1>1. index[m] \in Indexes
    BY DEF FleetTypeOK
  <1> QED  BY <1>1 DEF IndexFacts, Facts, Capability, Capabilities, Indexes

LEMMA NothingSent == Nothing \notin Facts /\ Nothing \notin Capabilities
  BY DEF Nothing, Facts, Capabilities

\* What each action does to the types of what it changes.
LEMMA FleetTypesKept == FleetTypeOK /\ [FleetNext]_fvars => FleetTypeOK'
  <1> SUFFICES ASSUME FleetTypeOK, [FleetNext]_fvars  PROVE FleetTypeOK'
    OBVIOUS
  <1>1. ASSUME NEW m \in Machine, NEW at \in Stamps, RotateForExposureOnce(m, at)
        PROVE  FleetTypeOK'
    BY <1>1, ReplaceTypes DEF RotateForExposureOnce, FleetTypeOK
  <1>2. ASSUME NEW m \in Machine, NEW at \in Stamps, RotateMachineIndexSecret(m, at)
        PROVE  FleetTypeOK'
    BY <1>2, ReplaceTypes, ActTypes DEF RotateMachineIndexSecret, FleetTypeOK
  <1>3. ASSUME NEW m \in Machine, NEW rotate \in BOOLEAN, ClaimDashboardPairing(m, rotate)
        PROVE  FleetTypeOK'
    <2>1. index' \in [Machine -> Indexes] /\ minted' \in 0..MaxSecrets
      <3>1. CASE Replace(m, index[m].at)
        <4>1. index[m].at \in Stamps
          BY DEF FleetTypeOK, Indexes
        <4> QED  BY <3>1, <4>1, ReplaceTypes
      <3>2. CASE minted' = minted /\ index' = [index EXCEPT ![m].complete = FALSE]
        BY <3>2 DEF FleetTypeOK, Indexes
      <3> QED  BY <1>3, <3>1, <3>2 DEF ClaimDashboardPairing
    <2>2. claim' \in [Machine -> {0} \cup Secrets]
      BY <1>3, <2>1 DEF ClaimDashboardPairing, FleetTypeOK, Indexes
    <2> QED  BY <1>3, <2>1, <2>2, ActTypes DEF ClaimDashboardPairing, FleetTypeOK
  <1>4. ASSUME NEW m \in Machine, CompleteDashboardPairing(m)  PROVE FleetTypeOK'
    <2>1. index' \in [Machine -> Indexes]
      <3>1. \A i \in Indexes, c \in BOOLEAN : [i EXCEPT !.complete = c] \in Indexes
        BY DEF Indexes
      <3>2. \A i \in Indexes : i.complete \in BOOLEAN
        BY DEF Indexes
      <3> QED  BY <1>4, <3>1, <3>2 DEF CompleteDashboardPairing, FleetTypeOK
    <2> QED  BY <1>4, <2>1 DEF CompleteDashboardPairing, FleetTypeOK
  <1>5. ASSUME NEW m \in Machine, Register(m)  PROVE FleetTypeOK'
    <2>1. index' \in [Machine -> Indexes]
      <3>1. \A i \in Indexes : [i EXCEPT !.entries = 1] \in Indexes
        BY DEF Indexes
      <3> QED  BY <1>5, <3>1 DEF Register, FleetTypeOK
    <2> QED  BY <1>5, <2>1, ActTypes DEF Register, FleetTypeOK
  <1>6. ASSUME NEW m \in Machine, Announce(m)  PROVE FleetTypeOK'
    <2>1. air' \in [Machine -> [Machine -> Facts \cup {Nothing}]]
      BY <1>6, SentTypes DEF Announce, FleetTypeOK
    <2> QED  BY <1>6, <2>1 DEF Announce, FleetTypeOK
  <1>7. ASSUME NEW m \in Machine, NEW n \in Machine, Join(m, n)  PROVE FleetTypeOK'
    <2>1. index[n].fleet \in Machine /\ index[n].secret \in Secrets /\ index[n].at \in Stamps
      BY DEF FleetTypeOK, Indexes
    <2>2. index' \in [Machine -> Indexes]
      BY <1>7, <2>1, AdoptTypes DEF Join
    <2> QED  BY <1>7, <2>2, ActTypes DEF Join, FleetTypeOK
  <1>8. ASSUME NEW m \in Machine, NEW n \in Machine, PinFleetPeer(m, n)  PROVE FleetTypeOK'
    BY <1>8 DEF PinFleetPeer, FleetTypeOK
  <1>9. ASSUME NEW m \in Machine, NEW n \in Machine, Heard(m, n)  PROVE FleetTypeOK'
    <2>1. air' \in [Machine -> [Machine -> Facts \cup {Nothing}]]
      BY <1>9 DEF Heard, FleetTypeOK
    <2>2. sealed' \in [Machine -> [Machine -> Capabilities \cup {Nothing}]]
      BY <1>9, SentTypes DEF Heard, FleetTypeOK
    <2> QED  BY <1>9, <2>1, <2>2 DEF Heard, FleetTypeOK
  <1>10. ASSUME NEW m \in Machine, NEW n \in Machine, Sealed(m, n)  PROVE FleetTypeOK'
    <2> DEFINE theirs == [sealed[m][n] EXCEPT !.complete = TRUE]
    <2>1. sealed[m][n] \in Capabilities
      BY <1>10 DEF Sealed, FleetTypeOK
    <2>2. theirs.fleet \in Machine /\ theirs.secret \in Secrets /\ theirs.at \in Stamps
      BY <2>1 DEF Capabilities
    <2>3. index' = index \/ AdoptMachineIndexCapability(n, theirs)
      BY <1>10 DEF Sealed
    <2> HIDE DEF theirs
    <2>4. index' \in [Machine -> Indexes]
      BY <2>2, <2>3, AdoptTypes DEF FleetTypeOK
    <2>5. sealed' \in [Machine -> [Machine -> Capabilities \cup {Nothing}]]
      BY <1>10 DEF Sealed, FleetTypeOK
    <2> QED  BY <1>10, <2>4, <2>5 DEF Sealed, FleetTypeOK
  <1>11. ASSUME NEW m \in Machine, NEW n \in Machine, Lost(m, n)  PROVE FleetTypeOK'
    <2>1. sealed' \in [Machine -> [Machine -> Capabilities \cup {Nothing}]]
      BY <1>11 DEF Lost, FleetTypeOK
    <2> QED  BY <1>11, <2>1, ActTypes DEF Lost, FleetTypeOK
  <1>12. CASE UNCHANGED fvars
    BY <1>12 DEF fvars, FleetTypeOK
  <1> QED
    BY <1>1, <1>2, <1>3, <1>4, <1>5, <1>6, <1>7, <1>8, <1>9, <1>10, <1>11, <1>12 DEF FleetNext

\* The variables of FleetReunion keep their types: an index names a secret that was minted.
THEOREM FleetTypesHold == FleetSpec => []FleetTypeOK
  BY FleetInitially, FleetTypesKept, PTL DEF FleetSpec

\* Of two machines of one fleet on different secrets, exactly one hands its own over
\* (fleet-convergence.js:24): for any number of machines, stamps that are equal or not, and
\* whichever of the two a browser is paired with.
THEOREM OneMoves == FleetSpec => []ExactlyOneMoves
  <1>1. FleetTypeOK => ExactlyOneMoves
    <2> SUFFICES ASSUME FleetTypeOK, NEW m \in Machine, NEW n \in Machine,
                        index[m].fleet = index[n].fleet, index[m].secret # index[n].secret
                 PROVE  Offers(index[m], IndexFacts(n)) <=> ~Offers(index[n], IndexFacts(m))
      BY DEF ExactlyOneMoves
    <2>1. /\ index[m].secret \in Secrets /\ index[n].secret \in Secrets
          /\ index[m].at \in Nat /\ index[n].at \in Nat
          /\ index[m].complete \in BOOLEAN /\ index[n].complete \in BOOLEAN
      BY DEF FleetTypeOK, Indexes, Stamps
    <2>2. /\ Fingerprint[index[m].secret] \in Nat /\ Fingerprint[index[n].secret] \in Nat
          /\ Fingerprint[index[m].secret] # Fingerprint[index[n].secret]
      BY <2>1, FleetAssumption DEF Secrets
    <2>3. Offers(index[m], IndexFacts(n)) <=> LocalWins(index[m], IndexFacts(n))
      BY DEF Offers, IndexFacts
    <2>4. Offers(index[n], IndexFacts(m)) <=> LocalWins(index[n], IndexFacts(m))
      BY DEF Offers, IndexFacts
    <2>5. LocalWins(index[m], IndexFacts(n)) <=> ~LocalWins(index[n], IndexFacts(m))
      BY <2>1, <2>2 DEF LocalWins, IndexFacts
    <2> QED  BY <2>3, <2>4, <2>5
  <1> QED  BY <1>1, FleetTypesHold, PTL

-----------------------------------------------------------------------------
(***************************************************************************)
(* MCFleet: the two of them.                                                *)
(***************************************************************************)
FleetInv == PeerInv /\ FleetTypeOK

LEMMA FleetMoves ==
    [MCNext]_<<part, pvars, fvars>> => [PeerNext]_pvars /\ [FleetNext]_fvars
  BY DEF MCNext

\* Updates and reunions keep their types side by side, whichever of the two is followed.
THEOREM FleetOfBothTypesHold == MCSpec => []TypesOK
  <1>1. MCInit => FleetInv
    BY PeerInitially, FleetInitially DEF MCInit, FleetInv
  <1>2. FleetInv /\ [MCNext]_<<part, pvars, fvars>> => FleetInv'
    BY FleetMoves, PeerInvKept, FleetTypesKept DEF FleetInv
  <1>3. FleetInv => TypesOK
    BY DEF FleetInv, PeerInv, TypesOK
  <1> QED  BY <1>1, <1>2, <1>3, PTL DEF MCSpec
=============================================================================
