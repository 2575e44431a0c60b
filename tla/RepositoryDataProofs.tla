------------------------ MODULE RepositoryDataProofs ------------------------
(***************************************************************************)
(* Proofs about the data of a repository.  They share no state.              *)
(*                                                                            *)
(* SnapshotCache: the snapshot of the own head is whole on disk, and seeded,   *)
(* whatever snapshots share which chunks, whatever roles there are, and        *)
(* whenever the device is killed.                                             *)
(* RealtimeDocument: seeds stay apart, since a document that arrives is either *)
(* foreign, and refused, or shares a client with the one that is held and so   *)
(* goes back to its seed.                                                     *)
(***************************************************************************)
EXTENDS MCRepositoryData, FiniteSetTheorems, TLAPS

-----------------------------------------------------------------------------
\* SnapshotCache.

\* What publishLocal has done so far is on disk, and no prune runs meanwhile.
PublishInv ==
    /\ pub.phase \in {"manifest", "head"} => ContentOf(pub.snap) \subseteq chunks
    /\ pub.phase = "head" => pub.snap \in manifests
    /\ pub.phase \notin {"start", "prune"} => pass.phase = "idle"

\* A prune pass keeps the own head in every list it makes.
PassInv ==
    /\ pass.phase = "list" => own \in pass.keep
    /\ pass.phase = "manifests" /\ own # None => own \in pass.keep /\ own \notin pass.set
    /\ pass.phase = "chunks" /\ own # None => own \in pass.keep
    /\ pass.phase = "sweep" /\ own # None => ContentOf(own) \cap pass.set = {}

\* The state file has the own head; a device that is down does nothing.
HeadInv ==
    /\ up => saved.own = own
    /\ ~up => own = None /\ pub = NotPublishing /\ pass = NotPruning /\ imp = NoImport
    /\ saved.own # None => Whole(saved.own)

Inv == PublishInv /\ PassInv /\ HeadInv

LEMMA InvIsWhole == Inv => OwnHeadIsWhole
  BY DEF Inv, HeadInv, OwnHeadIsWhole

LEMMA InitInv == Init => Inv
  BY DEF Init, Inv, PublishInv, PassInv, HeadInv, NotPublishing, NotPruning, NoImport

\* A step that leaves the own head, what is published, the prune and the state
\* file alone, and takes nothing from the disk.
LEMMA DiskGrows ==
    ASSUME Inv, UNCHANGED <<up, own, pub, pass>>, saved'.own = saved.own,
           manifests \subseteq manifests', chunks \subseteq chunks',
           up \/ imp' \in {imp, NoImport}
    PROVE  Inv'
  <1>1. PublishInv'
    BY DEF Inv, PublishInv
  <1>2. PassInv'
    BY DEF Inv, PassInv
  <1>3. HeadInv'
    BY DEF Inv, HeadInv, Whole
  <1> QED  BY <1>1, <1>2, <1>3 DEF Inv

LEMMA InvKept == TypeOK /\ Inv /\ [Next]_vars => Inv'
  <1> SUFFICES ASSUME TypeOK, Inv, [Next]_vars  PROVE Inv'
    OBVIOUS
  <1>w. own # None => Whole(own)
    BY DEF Inv, HeadInv
  <1> USE DEF disk, state
  <1>1. CASE Start
    <2>1. saved'.own = saved.own /\ own' = saved.own /\ up' = TRUE /\ pass' = pass
          /\ pub' = [phase |-> "start", snap |-> None]
          /\ UNCHANGED <<manifests, chunks>>
      BY <1>1 DEF Start
    <2>2. pass.phase = "idle"
      BY <1>1 DEF Start, Inv, HeadInv, NotPruning
    <2> QED  BY <2>1, <2>2 DEF Inv, PublishInv, PassInv, HeadInv, Whole
  <1>2. CASE RehydrateCurrentSnapshots
    BY <1>2 DEF RehydrateCurrentSnapshots, Inv, PublishInv, PassInv, HeadInv, Whole,
                NotPublishing
  <1>3. ASSUME NEW s \in Own, PublishLocal(s)  PROVE Inv'
    BY <1>3 DEF PublishLocal, Inv, PublishInv, PassInv, HeadInv, Whole, NotPublishing
  <1>4. CASE CacheChunks
    <2>1. pub.phase = "cache" /\ pub' = [pub EXCEPT !.phase = "manifest"]
          /\ UNCHANGED <<manifests, up, own, saved, pass>>
      BY <1>4 DEF CacheChunks
    <2>2. pub'.phase = "manifest" /\ pub'.snap = pub.snap
      BY <2>1 DEF TypeOK
    <2>3. pass.phase = "idle"
      BY <2>1 DEF Inv, PublishInv
    <2>4. chunks \subseteq chunks'
      BY <1>4 DEF CacheChunks
    <2>5. ContentOf(pub.snap) \subseteq chunks'
      <3>1. CASE SameBundle(pub.snap)
        <4>1. own # None
          BY <3>1, SnapshotAssumption DEF SameBundle, TypeOK, None
        <4>2. BundleOf[pub.snap] \subseteq chunks
          BY <3>1, <4>1, <1>w DEF SameBundle, Whole, ContentOf
        <4> QED  BY <1>4, <3>1, <4>2 DEF CacheChunks, ContentOf
      <3>2. CASE ~SameBundle(pub.snap)
        BY <1>4, <3>2 DEF CacheChunks
      <3> QED  BY <3>1, <3>2
    <2>6. PublishInv'
      BY <2>1, <2>2, <2>3, <2>5 DEF PublishInv
    <2>7. PassInv'
      BY <2>1, <2>3 DEF PassInv
    <2>8. HeadInv'
      <3>1. up
        BY <2>1 DEF Inv, HeadInv, NotPublishing
      <3> QED  BY <2>1, <2>4, <3>1 DEF Inv, HeadInv, Whole
    <2> QED  BY <2>6, <2>7, <2>8 DEF Inv
  <1>5. CASE SeedManifest
    <2>1. pub.phase = "manifest" /\ pub'.phase = "head" /\ pub'.snap = pub.snap
          /\ UNCHANGED <<chunks, up, own, saved, pass>>
      BY <1>5 DEF SeedManifest, TypeOK
    <2>2. manifests' = manifests \cup {pub.snap}
      BY <1>5 DEF SeedManifest, WriteManifest
    <2>3. up
      BY <2>1 DEF Inv, HeadInv, NotPublishing
    <2> QED  BY <2>1, <2>2, <2>3 DEF Inv, PublishInv, PassInv, HeadInv, Whole
  <1>6. CASE RecordHead
    <2>1. pub.phase = "head" /\ pub'.phase = "prune" /\ pub'.snap = pub.snap
          /\ own' = pub.snap /\ saved'.own = pub.snap
          /\ UNCHANGED <<manifests, chunks, up, pass>>
      BY <1>6 DEF RecordHead, SaveState, TypeOK
    <2>2. Whole(pub.snap) /\ pass.phase = "idle"
      BY <2>1 DEF Inv, PublishInv, Whole
    <2>3. up
      BY <2>1 DEF Inv, HeadInv, NotPublishing
    <2> QED  BY <2>1, <2>2, <2>3 DEF Inv, PublishInv, PassInv, HeadInv, Whole
  <1>7. CASE PruneCache
    <2>0. /\ pub.phase \in {"start", "prune"} /\ pass.phase = "idle" /\ up
          /\ UNCHANGED <<manifests, chunks, up, own, saved>>
      BY <1>7 DEF PruneCache, NotPruning, Inv, HeadInv, NotPublishing
    <2>1. CASE PruneDone /\ UNCHANGED pass
      <3>1. pub'.phase \in {"rehydrate", "idle"}
        BY <2>0, <2>1 DEF PruneDone, NotPublishing, TypeOK
      <3> QED  BY <2>0, <2>1, <3>1 DEF Inv, PublishInv, PassInv, HeadInv, Whole
    <2>2. CASE /\ pass' = [phase |-> "list", keep |-> {own, other}, set |-> {}]
               /\ UNCHANGED pub
      BY <2>0, <2>2 DEF Inv, PublishInv, PassInv, HeadInv, Whole
    <2> QED  BY <1>7, <2>1, <2>2 DEF PruneCache
  <1>8. CASE ListManifests
    <2>1. PICK kept : /\ own \in kept
                      /\ pass' = [phase |-> "manifests", keep |-> kept \cap manifests,
                                  set |-> manifests \ kept]
      BY <1>8 DEF ListManifests, Inv, PassInv
    <2>2. own # None => own \in manifests
      BY <1>w DEF Whole
    <2>3. UNCHANGED <<manifests, chunks, up, own, saved, pub>> /\ pass.phase = "list"
      BY <1>8 DEF ListManifests
    <2>4. up /\ pub.phase \in {"start", "prune"}
      BY <2>3 DEF Inv, HeadInv, PublishInv, NotPruning
    <2> QED  BY <2>1, <2>2, <2>3, <2>4 DEF Inv, PublishInv, PassInv, HeadInv, Whole
  <1>9. CASE RemoveManifests
    <2>1. pass.phase = "manifests" /\ manifests' = manifests \ pass.set
          /\ pass' = [pass EXCEPT !.phase = "chunks", !.set = {}]
          /\ UNCHANGED <<chunks, up, own, saved, pub>>
      BY <1>9 DEF RemoveManifests
    <2>2. up /\ pub.phase \in {"start", "prune"} /\ saved.own = own
      BY <2>1 DEF Inv, HeadInv, PublishInv, NotPruning
    <2>3. own # None => own \in pass.keep /\ own \in manifests'
      BY <2>1, <1>w DEF Inv, PassInv, Whole
    <2>4. pass'.phase = "chunks" /\ (own # None => own \in pass'.keep)
      BY <2>1, <2>3
    <2> QED  BY <2>1, <2>2, <2>3, <2>4 DEF Inv, PublishInv, PassInv, HeadInv, Whole
  <1>10. CASE ListChunks
    <2>1. pass.phase = "chunks" /\ UNCHANGED <<manifests, chunks, up, own, saved, pub>>
          /\ pass' = [phase |-> "sweep", keep |-> {},
                      set |-> chunks \ UNION {ContentOf(s) : s \in pass.keep}]
      BY <1>10 DEF ListChunks
    <2>2. up /\ pub.phase \in {"start", "prune"}
      BY <2>1 DEF Inv, HeadInv, PublishInv, NotPruning
    <2>3. own # None => ContentOf(own) \cap pass'.set = {}
      BY <2>1 DEF Inv, PassInv
    <2> QED  BY <2>1, <2>2, <2>3 DEF Inv, PublishInv, PassInv, HeadInv, Whole
  <1>11. CASE RemoveChunks
    <2>1. pass.phase = "sweep" /\ chunks' = chunks \ pass.set
          /\ pass' = [phase |-> "frozen", keep |-> {}, set |-> {}]
          /\ UNCHANGED <<manifests, up, own, saved, pub>>
      BY <1>11 DEF RemoveChunks
    <2>2. up /\ pub.phase \in {"start", "prune"} /\ saved.own = own
      BY <2>1 DEF Inv, HeadInv, PublishInv, NotPruning
    <2>3. own # None => ContentOf(own) \subseteq chunks'
      BY <2>1, <1>w DEF Inv, PassInv, Whole
    <2> QED  BY <2>1, <2>2, <2>3, <1>w DEF Inv, PublishInv, PassInv, HeadInv, Whole
  <1>12. CASE ListReferenced
    <2>1. pass.phase = "frozen" /\ pass'.phase = "evict"
          /\ UNCHANGED <<manifests, chunks, up, own, saved, pub>>
      BY <1>12 DEF ListReferenced
    <2>2. up /\ pub.phase \in {"start", "prune"}
      BY <2>1 DEF Inv, HeadInv, PublishInv, NotPruning
    <2> QED  BY <2>1, <2>2 DEF Inv, PublishInv, PassInv, HeadInv, Whole
  <1>13. CASE EvictFrozenChunks
    <2>1. pass.phase = "evict" /\ pass'.phase = "idle" /\ PruneDone
          /\ UNCHANGED <<manifests, chunks, up, own, saved>>
      BY <1>13 DEF EvictFrozenChunks, NotPruning
    <2>2. up /\ pub'.phase \in {"rehydrate", "idle"}
      BY <2>1 DEF Inv, HeadInv, NotPruning, PruneDone, NotPublishing, TypeOK
    <2> QED  BY <2>1, <2>2 DEF Inv, PublishInv, PassInv, HeadInv, Whole
  <1>14. ASSUME NEW s \in Foreign, AcceptHead(s)  PROVE Inv'
    <2>1. saved'.own = saved.own
      BY <1>14 DEF AcceptHead, SaveState, Inv, HeadInv
    <2> QED  BY <1>14, <2>1, DiskGrows DEF AcceptHead
  <1>15. CASE RetrieveManifest
    <2>1. manifests \subseteq manifests'
      BY <1>15 DEF RetrieveManifest, WriteManifest
    <2>2. up
      BY <1>15 DEF RetrieveManifest, Inv, HeadInv, NoImport
    <2> QED  BY <1>15, <2>1, <2>2, DiskGrows DEF RetrieveManifest
  <1>16. ASSUME NEW c \in Chunk, RetrieveChunk(c)  PROVE Inv'
    <2>1. up
      BY <1>16 DEF RetrieveChunk, Inv, HeadInv, NoImport
    <2> QED  BY <1>16, <2>1, DiskGrows DEF RetrieveChunk
  <1>17. CASE ImportDone
    <2>1. up
      BY <1>17 DEF ImportDone, Inv, HeadInv, NoImport
    <2>2. saved'.own = saved.own
      BY <1>17, <2>1 DEF ImportDone, SaveState, Inv, HeadInv
    <2> QED  BY <1>17, <2>2, DiskGrows DEF ImportDone
  <1>18. CASE ImportFails
    BY <1>18, DiskGrows DEF ImportFails
  <1>19. CASE Tick
    BY <1>19, DiskGrows DEF Tick
  <1>20. CASE Crash
    BY <1>20 DEF Crash, Inv, PublishInv, PassInv, HeadInv, Whole, NotPublishing, NotPruning,
                NoImport
  <1>21. CASE UNCHANGED vars
    BY <1>21, DiskGrows DEF vars
  <1> QED  BY <1>1, <1>2, <1>3, <1>4, <1>5, <1>6, <1>7, <1>8, <1>9, <1>10, <1>11,
              <1>12, <1>13, <1>14, <1>15, <1>16, <1>17, <1>18, <1>19, <1>20, <1>21
      DEF Next

-----------------------------------------------------------------------------
LEMMA ContentType ==
    /\ \A s \in Snapshot : /\ ContentOf(s) \subseteq Chunk
                           /\ FilesOf[s] \subseteq Chunk /\ TrashOf[s] \subseteq Chunk
    /\ Snapshot \subseteq Known /\ None \in Known
  BY ChunkAssumption DEF ContentOf, Known

\* While a publication or an import is under way, it is of a snapshot.
SnapInv ==
    /\ pub.phase \in {"cache", "manifest", "head"} => pub.snap \in Snapshot
    /\ imp.phase # "idle" => imp.snap \in Snapshot

LEMMA SaveStateType ==
    ASSUME SaveState, own' \in Known, other' \in Known, imported' \in Known
    PROVE  saved' \in State
  BY DEF SaveState, State

LEMMA WriteManifestType ==
    ASSUME TypeOK, NEW s \in Snapshot, NEW t \in Nat, WriteManifest(s, t)
    PROVE  manifests' \subseteq Snapshot /\ created' \in [Snapshot -> Nat]
  BY DEF TypeOK, WriteManifest

LEMMA PruneDoneType ==
    ASSUME TypeOK, PruneDone
    PROVE  /\ pub' \in [phase : {"idle", "start", "rehydrate", "cache", "manifest", "head",
                                "prune"}, snap : Known]
           /\ pub'.phase \in {"rehydrate", "idle"}
  BY ContentType DEF TypeOK, PruneDone, NotPublishing

LEMMA TypesKept == TypeOK /\ SnapInv /\ [Next]_vars => TypeOK' /\ SnapInv'
  <1> SUFFICES ASSUME TypeOK, SnapInv, [Next]_vars  PROVE TypeOK' /\ SnapInv'
    OBVIOUS
  <1> USE DEF disk, state
  <1>1. CASE Start
    BY <1>1, ContentType DEF Start, TypeOK, SnapInv, State
  <1>2. CASE RehydrateCurrentSnapshots
    <2>1. PICK some \in [{own, other} \cap manifests -> SUBSET chunks] :
              seeded' = seeded \cup UNION {some[s] : s \in DOMAIN some}
      BY <1>2 DEF RehydrateCurrentSnapshots
    <2>2. seeded' \subseteq Chunk
      BY <2>1 DEF TypeOK
    <2> QED  BY <1>2, <2>2, ContentType
             DEF RehydrateCurrentSnapshots, TypeOK, SnapInv, NotPublishing
  <1>3. ASSUME NEW s \in Own, PublishLocal(s)  PROVE TypeOK' /\ SnapInv'
    BY <1>3, ContentType DEF PublishLocal, TypeOK, SnapInv, Snapshot
  <1>4. CASE CacheChunks
    <2>1. chunks' \subseteq Chunk
      BY <1>4, ContentType DEF CacheChunks, TypeOK, SnapInv
    <2>2. pub.phase = "cache" /\ pub' = [pub EXCEPT !.phase = "manifest"]
      BY <1>4 DEF CacheChunks
    <2> QED  BY <1>4, <2>1, <2>2 DEF CacheChunks, TypeOK, SnapInv
  <1>5. CASE SeedManifest
    <2>1. pub.snap \in Snapshot
      BY <1>5 DEF SeedManifest, SnapInv
    <2>2. manifests' \subseteq Snapshot /\ created' \in [Snapshot -> Nat]
      BY <1>5, <2>1, WriteManifestType DEF SeedManifest, TypeOK
    <2>3. seeded' \subseteq Chunk
      BY <1>5, <2>1, ContentType DEF SeedManifest, TypeOK
    <2> QED  BY <1>5, <2>1, <2>2, <2>3 DEF SeedManifest, TypeOK, SnapInv
  <1>6. CASE RecordHead
    <2>1. saved' \in State
      BY <1>6, SaveStateType DEF RecordHead, TypeOK
    <2>2. published' \in [Snapshot -> SUBSET Nat]
      BY <1>6 DEF RecordHead, TypeOK
    <2> QED  BY <1>6, <2>1, <2>2 DEF RecordHead, TypeOK, SnapInv
  <1>7. CASE PruneCache
    <2>1. pub' \in [phase : {"idle", "start", "rehydrate", "cache", "manifest", "head",
                            "prune"}, snap : Known]
          /\ pub'.phase \in {"start", "prune", "rehydrate", "idle"}
      BY <1>7, PruneDoneType DEF PruneCache, TypeOK
    <2>2. pass'.phase \in {"idle", "list"}
      BY <1>7 DEF PruneCache, NotPruning
    <2> QED  BY <1>7, <2>1, <2>2 DEF PruneCache, TypeOK, SnapInv
  <1>8. CASE ListManifests
    <2>1. pass'.phase = "manifests"
      BY <1>8 DEF ListManifests
    <2> QED  BY <1>8, <2>1 DEF ListManifests, TypeOK, SnapInv
  <1>9. CASE RemoveManifests
    BY <1>9 DEF RemoveManifests, TypeOK, SnapInv
  <1>10. CASE ListChunks
    BY <1>10 DEF ListChunks, TypeOK, SnapInv
  <1>11. CASE RemoveChunks
    BY <1>11 DEF RemoveChunks, TypeOK, SnapInv
  <1>12. CASE ListReferenced
    BY <1>12 DEF ListReferenced, TypeOK, SnapInv
  <1>13. CASE EvictFrozenChunks
    <2>1. pass'.phase = "idle" /\ seeded' \subseteq Chunk
      BY <1>13 DEF EvictFrozenChunks, NotPruning, TypeOK
    <2> QED  BY <1>13, <2>1, PruneDoneType DEF EvictFrozenChunks, TypeOK, SnapInv
  <1>14. ASSUME NEW s \in Foreign, AcceptHead(s)  PROVE TypeOK' /\ SnapInv'
    <2>1. s \in Snapshot /\ s \in Known
      BY ContentType DEF Snapshot
    <2>2. saved' \in State
      BY <1>14, <2>1, SaveStateType DEF AcceptHead, TypeOK
    <2> QED  BY <1>14, <2>1, <2>2 DEF AcceptHead, TypeOK, SnapInv
  <1>15. CASE RetrieveManifest
    <2>1. imp.snap \in Snapshot
      BY <1>15 DEF RetrieveManifest, SnapInv
    <2>2. PICK createdAt \in 0..now : WriteManifest(imp.snap, createdAt)
      BY <1>15 DEF RetrieveManifest
    <2>3. manifests' \subseteq Snapshot /\ created' \in [Snapshot -> Nat]
      BY <2>1, <2>2, WriteManifestType DEF TypeOK
    <2>4. imp' \in [phase : {"idle", "manifest", "chunks"}, snap : Known,
                   need : SUBSET Chunk]
          /\ imp'.snap = imp.snap
      BY <1>15, <2>1, ContentType DEF RetrieveManifest, TypeOK
    <2> QED  BY <1>15, <2>1, <2>3, <2>4 DEF RetrieveManifest, TypeOK, SnapInv
  <1>16. ASSUME NEW c \in Chunk, RetrieveChunk(c)  PROVE TypeOK' /\ SnapInv'
    <2>1. imp' \in [phase : {"idle", "manifest", "chunks"}, snap : Known,
                   need : SUBSET Chunk]
          /\ imp'.snap = imp.snap /\ imp.phase = "chunks"
      BY <1>16 DEF RetrieveChunk, TypeOK
    <2> QED  BY <1>16, <2>1 DEF RetrieveChunk, TypeOK, SnapInv
  <1>17. CASE ImportDone
    <2>1. saved' \in State
      BY <1>17, SaveStateType DEF ImportDone, TypeOK
    <2> QED  BY <1>17, <2>1, ContentType DEF ImportDone, TypeOK, SnapInv, NoImport
  <1>18. CASE ImportFails
    BY <1>18, ContentType DEF ImportFails, TypeOK, SnapInv, NoImport
  <1>19. CASE Tick
    BY <1>19 DEF Tick, TypeOK, SnapInv
  <1>20. CASE Crash
    <2>1. pub' \in [phase : {"idle", "start", "rehydrate", "cache", "manifest", "head",
                            "prune"}, snap : Known] /\ pub'.phase = "idle"
      BY <1>20, ContentType DEF Crash, NotPublishing
    <2>2. imp' \in [phase : {"idle", "manifest", "chunks"}, snap : Known,
                   need : SUBSET Chunk] /\ imp'.phase = "idle"
      BY <1>20, ContentType DEF Crash, NoImport
    <2>3. pass'.phase = "idle"
      BY <1>20 DEF Crash, NotPruning
    <2>4. crashes' \in Nat /\ up' = FALSE
      BY <1>20 DEF Crash, TypeOK
    <2>5. /\ own' = None /\ other' = None /\ imported' = None /\ seeded' = {}
          /\ UNCHANGED <<now, manifests, created, chunks, saved, published>>
      BY <1>20 DEF Crash
    <2> QED  BY <2>1, <2>2, <2>3, <2>4, <2>5, ContentType DEF TypeOK, SnapInv
  <1>21. CASE UNCHANGED vars
    BY <1>21 DEF vars, TypeOK, SnapInv
  <1> QED  BY <1>1, <1>2, <1>3, <1>4, <1>5, <1>6, <1>7, <1>8, <1>9, <1>10, <1>11,
              <1>12, <1>13, <1>14, <1>15, <1>16, <1>17, <1>18, <1>19, <1>20, <1>21
      DEF Next

LEMMA InitTypes == Init => TypeOK /\ SnapInv
  <1> SUFFICES ASSUME Init  PROVE TypeOK /\ SnapInv
    OBVIOUS
  <1>1. pub \in [phase : {"idle", "start", "rehydrate", "cache", "manifest", "head",
                         "prune"}, snap : Known] /\ pub.phase = "idle"
    BY ContentType DEF Init, NotPublishing
  <1>2. imp \in [phase : {"idle", "manifest", "chunks"}, snap : Known,
                need : SUBSET Chunk] /\ imp.phase = "idle"
    BY ContentType DEF Init, NoImport
  <1>3. pass.phase = "idle" /\ saved \in State
    BY ContentType DEF Init, NotPruning, State
  <1>4. created \in [Snapshot -> Nat] /\ published \in [Snapshot -> SUBSET Nat]
    BY DEF Init, Never
  <1> QED  BY <1>1, <1>2, <1>3, <1>4, ContentType DEF Init, TypeOK, SnapInv

-----------------------------------------------------------------------------
\* Every variable keeps its type, whatever chunks the snapshots consist of.
THEOREM TypeCorrect == Spec => []TypeOK
  <1>1. TypeOK /\ SnapInv /\ [Next]_vars => (TypeOK /\ SnapInv)'
    BY TypesKept
  <1> QED  BY <1>1, InitTypes, PTL DEF Spec

\* The snapshot the own head names is whole on disk, in memory's state and in the
\* state file's: no prune (cache.prune) takes a manifest or a chunk of it, and the
\* publication of a head (publishLocal) finds on disk the chunks it did not cache
\* again, for any snapshots, shared chunks, retention and kills.
THEOREM OwnHeadIsWholeAlways == Spec => []OwnHeadIsWhole
  <1> DEFINE All == TypeOK /\ SnapInv /\ Inv
  <1>1. Init => All
    BY InitTypes, InitInv
  <1>2. All /\ [Next]_vars => All'
    BY TypesKept, InvKept
  <1>3. All => OwnHeadIsWhole
    BY InvIsWhole
  <1> QED  BY <1>1, <1>2, <1>3, PTL DEF Spec

-----------------------------------------------------------------------------
(***************************************************************************)
(* The snapshot of the own head is seeded.  What is published is seeded      *)
(* before it is the head; a start seeds it again from disk, where Inv says it *)
(* is whole; and what an eviction lets in memory is what the manifests on     *)
(* disk refer to, among them that of the head.                               *)
(***************************************************************************)
SeedInv ==
    /\ pub.phase = "head" => ContentOf(pub.snap) \subseteq seeded
    /\ OwnHeadIsSeeded
    /\ pass.phase = "evict" /\ own # None => ContentOf(own) \subseteq pass.set

\* A step that publishes nothing, and forgets nothing that is seeded.
LEMMA SeedsGrow ==
    ASSUME SeedInv, UNCHANGED <<up, own, pub>>, seeded \subseteq seeded',
           pass'.phase = "evict" => pass' = pass
    PROVE  SeedInv'
  BY DEF SeedInv, OwnHeadIsSeeded

LEMMA PruneDoneIs ==
    ASSUME TypeOK, PruneDone, pub.phase \in {"start", "prune"}
    PROVE  \/ pub.phase = "start" /\ pub'.phase = "rehydrate"
           \/ pub.phase = "prune" /\ pub'.phase = "idle"
  <1>1. CASE pub.phase = "start"
    BY <1>1 DEF PruneDone, TypeOK
  <1>2. CASE pub.phase = "prune"
    <2>1. pub' = NotPublishing
      BY <1>2 DEF PruneDone
    <2> QED  BY <1>2, <2>1 DEF NotPublishing
  <1> QED  BY <1>1, <1>2

LEMMA SeedInvKept == TypeOK /\ Inv /\ SeedInv /\ [Next]_vars => SeedInv'
  <1> SUFFICES ASSUME TypeOK, Inv, SeedInv, [Next]_vars  PROVE SeedInv'
    OBVIOUS
  <1>w. own # None => Whole(own)
    BY DEF Inv, HeadInv
  <1> USE DEF disk, state
  <1>1. CASE Start
    <2>1. pub'.phase = "start" /\ pass' = pass /\ pass.phase = "idle"
      BY <1>1 DEF Start, Inv, HeadInv, NotPruning
    <2> QED  BY <2>1 DEF SeedInv, OwnHeadIsSeeded
  <1>2. CASE RehydrateCurrentSnapshots
    <2>1. PICK some \in [{own, other} \cap manifests -> SUBSET chunks] :
              /\ \A s \in DOMAIN some : ContentOf(s) \subseteq chunks => some[s] = ContentOf(s)
              /\ seeded' = seeded \cup UNION {some[s] : s \in DOMAIN some}
      BY <1>2 DEF RehydrateCurrentSnapshots
    <2>2. own # None => ContentOf(own) \subseteq seeded'
      <3>1. SUFFICES ASSUME own # None  PROVE ContentOf(own) \subseteq seeded'
        OBVIOUS
      <3>2. own \in DOMAIN some /\ ContentOf(own) \subseteq chunks
        BY <1>w, <2>1, <3>1 DEF Whole
      <3>3. some[own] = ContentOf(own)
        BY <2>1, <3>2
      <3> QED  BY <2>1, <3>2, <3>3
    <2>3. pub'.phase = "idle" /\ UNCHANGED <<own, pass>>
      BY <1>2 DEF RehydrateCurrentSnapshots, NotPublishing
    <2> QED  BY <2>2, <2>3 DEF SeedInv, OwnHeadIsSeeded
  <1>3. ASSUME NEW s \in Own, PublishLocal(s)  PROVE SeedInv'
    BY <1>3 DEF PublishLocal, SeedInv, OwnHeadIsSeeded, NotPublishing
  <1>4. CASE CacheChunks
    <2>1. pub.phase = "cache" /\ pub'.phase = "manifest" /\ UNCHANGED <<seeded, up, own, pass>>
      BY <1>4 DEF CacheChunks, TypeOK
    <2> QED  BY <2>1 DEF SeedInv, OwnHeadIsSeeded
  <1>5. CASE SeedManifest
    <2>1. /\ pub.phase = "manifest" /\ pub'.phase = "head" /\ pub'.snap = pub.snap
          /\ seeded' = seeded \cup ContentOf(pub.snap) /\ UNCHANGED <<up, own, pass>>
      BY <1>5 DEF SeedManifest, TypeOK
    <2> QED  BY <2>1 DEF SeedInv, OwnHeadIsSeeded
  <1>6. CASE RecordHead
    <2>1. /\ pub.phase = "head" /\ pub'.phase = "prune" /\ own' = pub.snap
          /\ UNCHANGED <<seeded, up, pass>>
      BY <1>6 DEF RecordHead, TypeOK
    <2>2. pass.phase = "idle"
      BY <2>1 DEF Inv, PublishInv
    <2> QED  BY <2>1, <2>2 DEF SeedInv, OwnHeadIsSeeded
  <1>7. CASE PruneCache
    <2>1. /\ pub.phase \in {"start", "prune"} /\ pass = NotPruning
          /\ UNCHANGED <<seeded, up, own>>
          /\ \/ pass' = pass /\ PruneDone
             \/ pass'.phase = "list" /\ pub' = pub
      BY <1>7 DEF PruneCache
    <2>2. \/ pub' = pub
          \/ pub.phase = "start" /\ pub'.phase = "rehydrate"
          \/ pub.phase = "prune" /\ pub'.phase = "idle"
      BY <2>1, PruneDoneIs
    <2>3. pass'.phase # "evict"
      BY <2>1 DEF NotPruning
    <2> QED  BY <2>1, <2>2, <2>3 DEF SeedInv, OwnHeadIsSeeded
  <1>8. CASE ListManifests
    <2>1. pass'.phase = "manifests" /\ UNCHANGED <<seeded, up, own, pub>>
      BY <1>8 DEF ListManifests
    <2> QED  BY <2>1, SeedsGrow
  <1>9. CASE RemoveManifests
    <2>1. pass'.phase # "evict" /\ UNCHANGED <<seeded, up, own, pub>>
      BY <1>9 DEF RemoveManifests, TypeOK
    <2> QED  BY <2>1, SeedsGrow
  <1>10. CASE ListChunks
    <2>1. pass'.phase = "sweep" /\ UNCHANGED <<seeded, up, own, pub>>
      BY <1>10 DEF ListChunks
    <2> QED  BY <2>1, SeedsGrow
  <1>11. CASE RemoveChunks
    <2>1. pass'.phase = "frozen" /\ UNCHANGED <<seeded, up, own, pub>>
      BY <1>11 DEF RemoveChunks
    <2> QED  BY <2>1, SeedsGrow
  <1>12. CASE ListReferenced
    <2>1. /\ pass'.set = UNION {ContentOf(s) \cup TrashOf[s] : s \in manifests}
          /\ UNCHANGED <<seeded, up, own, pub>>
      BY <1>12 DEF ListReferenced
    <2>2. own # None => ContentOf(own) \subseteq pass'.set
      BY <1>w, <2>1 DEF Whole
    <2> QED  BY <2>1, <2>2 DEF SeedInv, OwnHeadIsSeeded
  <1>13. CASE EvictFrozenChunks
    <2>1. /\ pass.phase = "evict" /\ pass'.phase = "idle" /\ PruneDone
          /\ seeded' = seeded \cap pass.set /\ UNCHANGED <<up, own>>
      BY <1>13 DEF EvictFrozenChunks, NotPruning
    <2>2. pub.phase \in {"start", "prune"}
      BY <2>1 DEF Inv, HeadInv, PublishInv, NotPruning
    <2>3. \/ pub.phase = "start" /\ pub'.phase = "rehydrate"
          \/ pub.phase = "prune" /\ pub'.phase = "idle"
      BY <2>1, <2>2, PruneDoneIs
    <2> QED  BY <2>1, <2>3 DEF SeedInv, OwnHeadIsSeeded
  <1>14. ASSUME NEW s \in Foreign, AcceptHead(s)  PROVE SeedInv'
    BY <1>14, SeedsGrow DEF AcceptHead
  <1>15. CASE RetrieveManifest
    BY <1>15, SeedsGrow DEF RetrieveManifest
  <1>16. ASSUME NEW c \in Chunk, RetrieveChunk(c)  PROVE SeedInv'
    BY <1>16, SeedsGrow DEF RetrieveChunk
  <1>17. CASE ImportDone
    BY <1>17, SeedsGrow DEF ImportDone
  <1>18. CASE ImportFails
    BY <1>18, SeedsGrow DEF ImportFails
  <1>19. CASE Tick
    BY <1>19, SeedsGrow DEF Tick
  <1>20. CASE Crash
    BY <1>20 DEF Crash, SeedInv, OwnHeadIsSeeded, NotPublishing, NotPruning
  <1>21. CASE UNCHANGED vars
    BY <1>21, SeedsGrow DEF vars
  <1> QED  BY <1>1, <1>2, <1>3, <1>4, <1>5, <1>6, <1>7, <1>8, <1>9, <1>10, <1>11,
              <1>12, <1>13, <1>14, <1>15, <1>16, <1>17, <1>18, <1>19, <1>20, <1>21
      DEF Next

\* What a started device names as its head, it has in memory to answer with: no prune,
\* eviction (#evictFrozenChunks) or import that shares chunks takes a chunk of it, for
\* any snapshots, shared chunks, retention and kills.
THEOREM OwnHeadIsSeededAlways == Spec => []OwnHeadIsSeeded
  <1> DEFINE All == TypeOK /\ SnapInv /\ Inv /\ SeedInv
  <1>1. Init => All
    BY InitTypes, InitInv
       DEF Init, SeedInv, OwnHeadIsSeeded, NotPublishing, NotPruning
  <1>2. All /\ [Next]_vars => All'
    BY TypesKept, InvKept, SeedInvKept
  <1>3. All => OwnHeadIsSeeded
    BY DEF SeedInv
  <1> QED  BY <1>1, <1>2, <1>3, PTL DEF Spec

-----------------------------------------------------------------------------
\* RealtimeDocument.

LEMMA SeedItemsAre ==
    ASSUME NEW c \in Content
    PROVE  SeedItems(c) \subseteq Item /\ \A i \in SeedItems(c) : i.client.seed = c
  <1> DEFINE it(p) == [piece |-> p, client |-> [seed |-> c, by |-> <<>>], root |-> NoClient]
  <1>1. [seed |-> c, by |-> <<>>] \in Client /\ NoClient \in Client
    BY DEF Client, NoClient, Content
  <1>2. \A p \in c : it(p) \in Item /\ it(p).client.seed = c
    BY <1>1 DEF Item, Content
  <1>3. SeedItems(c) = {it(p) : p \in c}
    BY DEF SeedItems
  <1> HIDE DEF it
  <1> QED  BY <1>2, <1>3

LEMMA RootIs ==
    ASSUME NEW doc, doc.items \subseteq Item
    PROVE  Root(doc) \in Client
  <1> DEFINE founders == {i.client : i \in {j \in doc.items : j.root = NoClient}}
  <1>1. founders \subseteq Client
    BY DEF Item
  <1>2. NoClient \in Client
    BY DEF NoClient, Client, Content
  <1>3. Root(doc) = IF founders = {} THEN NoClient ELSE CHOOSE c \in founders : TRUE
    BY DEF Root
  <1> HIDE DEF founders
  <1> QED  BY <1>1, <1>2, <1>3

LEMMA InsertedIs ==
    ASSUME NEW n \in Node, NEW doc, doc.items \subseteq Item, NEW p \in 0 .. MaxPieces,
           stirs \in 0 .. MaxStirs
    PROVE  Inserted(n, doc, p) \in Item /\ Inserted(n, doc, p).client.by # <<>>
  <1>1. Root(doc) \in Client
    BY RootIs
  <1>3. <<n, stirs, p>> # <<>>
    OBVIOUS
  <1>2. [seed |-> Root(doc).seed, by |-> <<n, stirs, p>>] \in Client
    BY <1>1 DEF Client
  <1> QED  BY <1>1, <1>2, <1>3 DEF Inserted, Item

LEMMA TextIs ==
    ASSUME NEW doc, doc.items \subseteq Item
    PROVE  TextOf(doc) \in Content /\ Visible(doc) \subseteq doc.items
  BY DEF TextOf, Visible, Integrated, Item, Content

LEMMA PostIs ==
    ASSUME RealtimeAssumption, NEW all, all \subseteq Frame, NEW box,
           \/ Cardinality(all) <= MaxInFlight /\ box = all
           \/ box \in kSubset(MaxInFlight, all)
    PROVE  box \subseteq Frame /\ Cardinality(box) <= MaxInFlight
  BY DEF kSubset, RealtimeAssumption

LEMMA MessageIs ==
    ASSUME NEW from \in Node, NEW to \in Node, NEW kind \in {"ask", "answer", "update"},
           NEW doc, doc.items \subseteq Item, doc.gone \subseteq Item, NEW base \in Content
    PROVE  Message(from, to, kind, doc, base) \in Frame
  BY DEF Message, Frame

LEMMA ToRoomIs ==
    ASSUME NEW from \in Node, NEW kind \in {"ask", "answer", "update"},
           NEW doc, doc.items \subseteq Item, doc.gone \subseteq Item, NEW base \in Content
    PROVE  ToRoom(from, kind, doc, base) \subseteq Frame
  BY MessageIs DEF ToRoom

LEMMA ClosedIs == Closed \in Document /\ Blank \in [items : SUBSET Item, gone : SUBSET Item]
  BY DEF Closed, Blank, Document, Optional

LEMMA AppliedIs ==
    ASSUME NEW s \in Document, NEW m, m.items \subseteq Item, m.gone \subseteq Item
    PROVE  /\ Apply(s, m) \in Document /\ Apply(s, m).open = s.open
           /\ Apply(s, m).items = s.items \cup m.items
           /\ Apply(s, m).seeded = s.seeded /\ Apply(s, m).waits = s.waits
  <1> DEFINE t == [s EXCEPT !.items = @ \cup m.items]
  <1>1. t \in Document /\ t.gone = s.gone /\ t.open = s.open /\ t.items = s.items \cup m.items
        /\ t.seeded = s.seeded /\ t.waits = s.waits
    BY DEF Document
  <1>2. Apply(s, m) = [t EXCEPT !.gone = @ \cup m.gone]
    BY DEF Apply, Document
  <1> HIDE DEF t
  <1> QED  BY <1>1, <1>2 DEF Document

LEMMA SeededFromIs ==
    ASSUME NEW s \in Document, NEW content \in Content
    PROVE  /\ SeededFrom(s, content) \in Document
           /\ SeededFrom(s, content).open = s.open /\ SeededFrom(s, content).seeded
           /\ SeededFrom(s, content).items
                = IF TextOf(s) = {} THEN s.items \cup SeedItems(content) ELSE s.items
  <1> DEFINE items == IF TextOf(s) = {} THEN s.items \cup SeedItems(content) ELSE s.items
             a == [s EXCEPT !.items = items]
             b == [a EXCEPT !.seeded = TRUE]
             c == [b EXCEPT !.last = {content}]
             d == [c EXCEPT !.wrote = @ \cup {content}]
             e == [d EXCEPT !.waits = {}]
  <1>0. items \in SUBSET Item /\ {content} \in Optional(Content)
    BY SeedItemsAre DEF Document, Optional
  <1>6. SeededFrom(s, content) = e
    BY DEF SeededFrom, Document
  <1> HIDE DEF items
  <1>1. a \in Document /\ a.open = s.open /\ a.items = items
    BY <1>0 DEF Document
  <1> HIDE DEF a
  <1>2. b \in Document /\ b.open = s.open /\ b.items = items /\ b.seeded
    BY <1>1 DEF Document
  <1> HIDE DEF b
  <1>3. c \in Document /\ c.open = s.open /\ c.items = items /\ c.seeded
    BY <1>0, <1>2 DEF Document
  <1> HIDE DEF c
  <1>4. d \in Document /\ d.open = s.open /\ d.items = items /\ d.seeded
    BY <1>3 DEF Document
  <1> HIDE DEF d
  <1>5. e \in Document /\ e.open = s.open /\ e.items = items /\ e.seeded
    BY <1>4 DEF Document
  <1> QED  BY <1>5, <1>6 DEF items

LEMMA RebuiltIs ==
    ASSUME NEW s \in Document
    PROVE  /\ Rebuilt(s) \in Document
           /\ Rebuilt(s).open = s.open /\ Rebuilt(s).seeded = s.seeded
           /\ \/ Rebuilt(s) = s
              \/ Rebuilt(s).items = SeedItems(TextOf(s)) /\ Rebuilt(s).gone = {}
  <1> DEFINE a == [s EXCEPT !.items = SeedItems(TextOf(s))]
             b == [a EXCEPT !.gone = {}]
  <1>1. SeedItems(TextOf(s)) \subseteq Item
    BY SeedItemsAre, TextIs DEF Document
  <1>2. Rebuilt(s) = s \/ Rebuilt(s) = b
    BY DEF Rebuilt, Document
  <1>3. a \in Document /\ a.open = s.open /\ a.seeded = s.seeded /\ a.items = SeedItems(TextOf(s))
    BY <1>1 DEF Document
  <1> HIDE DEF a
  <1>4. b \in Document /\ b.open = s.open /\ b.seeded = s.seeded
        /\ b.items = SeedItems(TextOf(s)) /\ b.gone = {}
    BY <1>3 DEF Document
  <1> HIDE DEF b
  <1>5. CASE Rebuilt(s) = s
    BY <1>5
  <1>6. CASE Rebuilt(s) = b
    BY <1>4, <1>6
  <1> QED  BY <1>2, <1>5, <1>6

LEMMA AnswersAre ==
    ASSUME NEW w \in Watcher, NEW s \in Document, NEW asks \in SUBSET Frame
    PROVE  Answers(w, s, asks) \subseteq Frame
  <1>1. \A m \in Frame : [m EXCEPT !.reset = TRUE] \in Frame
    BY DEF Frame
  <1>2. w \in Node /\ {} \in Content
    BY DEF Node, Content
  <1>3. ToRoom(w, "answer", Rebuilt(s), {}) \subseteq Frame
    BY <1>2, RebuiltIs, ToRoomIs DEF Document
  <1>4. ASSUME NEW a \in asks
        PROVE  Message(w, a.from, "answer", Lacking(s, a.items), {}) \in Frame
    <2>1. a.from \in Node
      BY DEF Frame
    <2>2. Lacking(s, a.items).items \subseteq Item /\ Lacking(s, a.items).gone \subseteq Item
      BY DEF Lacking, Document
    <2> QED  BY <1>2, <2>1, <2>2, MessageIs
  <1> QED  BY <1>1, <1>3, <1>4 DEF Answers

LEMMA ServedIs ==
    ASSUME NEW s \in Document, NEW asks
    PROVE  /\ Served(s, asks) \in Document
           /\ Served(s, asks).open = s.open /\ Served(s, asks).seeded = s.seeded
           /\ \/ Served(s, asks) = s
              \/ Served(s, asks).items = SeedItems(TextOf(s)) /\ Served(s, asks).gone = {}
  <1>1. CASE asks # {}
    BY <1>1, RebuiltIs DEF Served
  <1>2. CASE asks = {}
    BY <1>2 DEF Served
  <1> QED  BY <1>1, <1>2

\* What a document shows that holds items of one seed, or of none.
LEMMA OneSeedShows ==
    ASSUME NEW doc, doc.items \subseteq Item, OfOneSeed(doc.items)
    PROVE  ShowsOneSeed(doc)
  <1>1. \A c, d \in Client : c.seed = d.seed /\ c.by = d.by => c = d
    BY DEF Client
  <1>2. \A i \in doc.items : i.client \in Client
    BY DEF Item
  <1>3. Visible(doc) \subseteq doc.items
    BY TextIs
  <1> QED  BY <1>1, <1>2, <1>3 DEF OfOneSeed, ShowsOneSeed

LEMMA MergedShowsOne ==
    ASSUME NEW s \in Document, NEW m \in Frame, OfOneSeed(s.items), OfOneSeed(m.items),
           TextOf(s) = {} => s.items = {}, ~s.seeded => TextOf(s) = {},
           ~ForeignWholeDocument(s, m)
    PROVE  ShowsOneSeed(Apply(s, m))
  <1> DEFINE t == Apply(s, m)
  <1>1. t.items = s.items \cup m.items /\ t.gone = s.gone \cup m.gone /\ t.items \subseteq Item
    BY DEF Apply, Document, Frame
  <1>s. s.items \subseteq Item /\ m.items \subseteq Item
    BY DEF Document, Frame
  <1> HIDE DEF t
  <1>2. CASE OfOneSeed(t.items)
    BY <1>1, <1>2, OneSeedShows DEF t
  <1>3. CASE ~OfOneSeed(t.items)
    <2>1. s.items # {} /\ m.items # {}
      BY <1>1, <1>3 DEF OfOneSeed
    <2>2. s.seeded /\ TextOf(s) # {} /\ ClientsOfUpdate(m) # {}
      BY <2>1 DEF ClientsOfUpdate
    <2>3. Clients(s) \cap ClientsOfUpdate(m) = {}
      <3>1. SUFFICES ASSUME NEW i \in s.items, NEW j \in m.items, i.client = j.client
                     PROVE  FALSE
        BY DEF Clients, ClientsOfUpdate, Integrated
      <3>2. \A k \in t.items : k.client.seed = i.client.seed
        BY <1>1, <3>1 DEF OfOneSeed
      <3> QED  BY <1>3, <3>2 DEF OfOneSeed
    <2>4. TextOf(m) = {}
      BY <2>2, <2>3 DEF ForeignWholeDocument
    <2>5. \A i \in Visible(t) : i.client.by = <<>> => i \in s.items
      <3>1. SUFFICES ASSUME NEW i \in Visible(t), i.client.by = <<>>, i \in m.items  PROVE FALSE
        BY <1>1 DEF Visible, Integrated
      <3>2. i.root = NoClient
        BY <1>s, <3>1 DEF Item
      <3>3. i \in m.gone
        BY <2>4, <3>1, <3>2 DEF TextOf, Visible, Integrated
      <3> QED  BY <1>1, <3>1, <3>3 DEF Visible
    <2>6. \A c, d \in Client : c.seed = d.seed /\ c.by = d.by => c = d
      BY DEF Client
    <2>7. \A i \in s.items : i.client \in Client
      BY <1>s DEF Item
    <2> QED  BY <2>5, <2>6, <2>7 DEF ShowsOneSeed, OfOneSeed, t
  <1> QED  BY <1>2, <1>3

LEMMA ServedShowsOne ==
    ASSUME NEW s \in Document, NEW asks, ShowsOneSeed(s)
    PROVE  ShowsOneSeed(Served(s, asks))
  <1> DEFINE t == Served(s, asks)
  <1>1. CASE t = s
    BY <1>1
  <1>2. CASE t.items = SeedItems(TextOf(s))
    <2>1. TextOf(s) \in Content
      BY TextIs DEF Document
    <2>2. t.items \subseteq Item /\ \A i \in t.items : i.client.seed = TextOf(s)
      BY <1>2, <2>1, SeedItemsAre
    <2>3. OfOneSeed(t.items)
      BY <2>2 DEF OfOneSeed
    <2> QED  BY <2>2, <2>3, OneSeedShows
  <1> QED  BY <1>1, <1>2, ServedIs

\* What is not seeded shows nothing; only a document that is seeded is compared with
\* what was read of its file.
SeedsFirst ==
    \A w \in Watcher :
        /\ ~held[w].seeded => TextOf(held[w]) = {}
        /\ reading[w] # {} => held[w].open /\ held[w].seeded

RtInv == RealtimeTypeOK /\ SeedsFirst

HeldTypeOK ==
    /\ held \in [Watcher -> Document]
    /\ \A w \in Watcher : ~held[w].open => held[w] = Closed

LEMMA CoherentShows ==
    ASSUME HeldTypeOK, Coherent, NEW w \in Watcher
    PROVE  ShowsOneSeed(held[w])
  <1>1. held[w].items \subseteq Item /\ OfOneSeed(held[w].items)
    BY DEF HeldTypeOK, Document, Coherent
  <1> QED  BY <1>1, OneSeedShows

\* A step that makes doc the document of w.
LEMMA HeldStep ==
    ASSUME RtInv, NEW w \in Watcher, NEW doc \in Document, doc.open \/ doc = Closed,
           ~doc.seeded => TextOf(doc) = {},
           held' = [held EXCEPT ![w] = doc],
           reading'[w] # {} => doc.open /\ doc.seeded,
           \A v \in Watcher \ {w} : reading'[v] # {} => reading[v] # {}
    PROVE  /\ HeldTypeOK' /\ SeedsFirst'
           /\ Coherent /\ ShowsOneSeed(doc) => SeededOnce'
  <1>1. HeldTypeOK'
    BY DEF HeldTypeOK, RtInv, RealtimeTypeOK
  <1>2. SeedsFirst'
    BY DEF SeedsFirst, RtInv, RealtimeTypeOK
  <1>3. ASSUME Coherent, ShowsOneSeed(doc)  PROVE SeededOnce'
    BY <1>3, CoherentShows DEF SeededOnce, RtInv, RealtimeTypeOK, HeldTypeOK
  <1> QED  BY <1>1, <1>2, <1>3

LEMMA HeldSame ==
    ASSUME RtInv, UNCHANGED held, \A v \in Watcher : reading'[v] # {} => reading[v] # {}
    PROVE  /\ HeldTypeOK' /\ SeedsFirst'
           /\ Coherent => SeededOnce'
  <1>1. HeldTypeOK'
    BY DEF HeldTypeOK, RtInv, RealtimeTypeOK
  <1>2. SeedsFirst'
    BY DEF SeedsFirst, RtInv
  <1>3. ASSUME Coherent  PROVE SeededOnce'
    BY <1>3, CoherentShows DEF SeededOnce, RtInv, RealtimeTypeOK, HeldTypeOK
  <1> QED  BY <1>1, <1>2, <1>3

LEMMA HeldIs ==
    ASSUME RtInv, NEW w \in Watcher
    PROVE  /\ Held(w) \in Document /\ Held(w).open /\ Asks(w) \subseteq Frame
           /\ ~Held(w).seeded => TextOf(Held(w)) = {}
           /\ reading[w] # {} => Held(w).seeded
           /\ Coherent => /\ OfOneSeed(Held(w).items) /\ ShowsOneSeed(Held(w))
                          /\ TextOf(Held(w)) = {} => Held(w).items = {}
  <1> DEFINE fresh == [Closed EXCEPT !.open = TRUE]
  <1>1. fresh \in Document /\ fresh.open /\ fresh.items = {} /\ TextOf(fresh) = {} /\ ~fresh.seeded
    <2>1. fresh \in Document /\ fresh.open /\ fresh.items = {} /\ ~fresh.seeded
      BY ClosedIs DEF Closed, Document
    <2> QED  BY <2>1 DEF TextOf, Visible, Integrated
  <1>2. Held(w) = IF held[w].open THEN held[w] ELSE fresh
    BY DEF Held
  <1> HIDE DEF fresh
  <1>3. w \in Node /\ {} \in Content /\ Blank.items \subseteq Item /\ Blank.gone \subseteq Item
    BY DEF Node, Content, Blank
  <1>4. Asks(w) \subseteq Frame
    BY <1>3, ToRoomIs DEF Asks
  <1>5. held[w] \in Document
    BY DEF RtInv, RealtimeTypeOK
  <1>6. Held(w) \in Document /\ Held(w).open
    <2>1. CASE held[w].open
      BY <1>2, <1>5, <2>1
    <2>2. CASE ~held[w].open
      BY <1>1, <1>2, <2>2
    <2> QED  BY <2>1, <2>2
  <1>7. ~Held(w).seeded => TextOf(Held(w)) = {}
    BY <1>1, <1>2 DEF RtInv, SeedsFirst
  <1>8. reading[w] # {} => Held(w).seeded
    BY <1>1, <1>2 DEF RtInv, SeedsFirst
  <1>9. ASSUME Coherent
        PROVE  OfOneSeed(Held(w).items) /\ (TextOf(Held(w)) = {} => Held(w).items = {})
    BY <1>1, <1>2, <1>9 DEF Coherent, OfOneSeed
  <1>10. Coherent => ShowsOneSeed(Held(w))
    BY <1>6, <1>9, OneSeedShows DEF Document
  <1> QED  BY <1>4, <1>6, <1>7, <1>8, <1>9, <1>10

\* What is shown depends on the items alone.
LEMMA SameShown ==
    ASSUME NEW a, NEW b, a.items = b.items, a.gone = b.gone
    PROVE  TextOf(a) = TextOf(b) /\ (ShowsOneSeed(a) <=> ShowsOneSeed(b))
  BY DEF TextOf, Visible, ShowsOneSeed

LEMMA WaitsSet ==
    ASSUME NEW s \in Document, NEW x \in SUBSET Frame
    PROVE  LET d == [s EXCEPT !.waits = x] IN
           /\ d \in Document /\ d.open = s.open /\ d.seeded = s.seeded
           /\ d.items = s.items /\ d.gone = s.gone
  BY DEF Document

LEMMA BusySet ==
    ASSUME NEW s \in Document, NEW x \in BOOLEAN
    PROVE  LET d == [s EXCEPT !.busy = x] IN
           /\ d \in Document /\ d.open = s.open /\ d.seeded = s.seeded
           /\ d.items = s.items /\ d.gone = s.gone
  BY DEF Document

LEMMA LastSet ==
    ASSUME NEW s \in Document, NEW x \in Optional(Content)
    PROVE  LET d == [s EXCEPT !.last = x] IN
           /\ d \in Document /\ d.open = s.open /\ d.seeded = s.seeded
           /\ d.items = s.items /\ d.gone = s.gone
  BY DEF Document

LEMMA WroteSet ==
    ASSUME NEW s \in Document, NEW x \in SUBSET Content
    PROVE  LET d == [s EXCEPT !.wrote = x] IN
           /\ d \in Document /\ d.open = s.open /\ d.seeded = s.seeded
           /\ d.items = s.items /\ d.gone = s.gone
  BY DEF Document

LEMMA SeededSet ==
    ASSUME NEW s \in Document
    PROVE  LET d == [s EXCEPT !.seeded = TRUE] IN
           /\ d \in Document /\ d.open = s.open /\ d.seeded
           /\ d.items = s.items /\ d.gone = s.gone
  BY DEF Document

LEMMA SeededShows ==
    ASSUME NEW s \in Document, NEW content \in Content, OfOneSeed(s.items),
           TextOf(s) = {} => s.items = {}
    PROVE  ShowsOneSeed(SeededFrom(s, content))
  <1> DEFINE t == SeededFrom(s, content)
  <1>1. t \in Document /\ t.items = IF TextOf(s) = {} THEN s.items \cup SeedItems(content) ELSE s.items
    BY SeededFromIs
  <1> HIDE DEF t
  <1>2. OfOneSeed(t.items)
    BY <1>1, SeedItemsAre DEF OfOneSeed
  <1> QED  BY <1>1, <1>2, OneSeedShows DEF Document, t

LEMMA CurrentIs ==
    ASSUME RtInv, NEW w \in Watcher
    PROVE  Current(w) \in Content
  <1>1. file[w] \in Optional(Content)
    BY DEF RtInv, RealtimeTypeOK
  <1>2. {} \in Content
    BY DEF Content
  <1> QED  BY <1>1, <1>2 DEF Current, Optional

Kept == RtInv' /\ (Coherent => SeededOnce')

\* What a seed, and the answers to who waited, leave of a document.
LEMMA SeededThenServed ==
    ASSUME NEW s \in Document, NEW asks \in SUBSET Frame, s.seeded
    PROVE  LET d == [Served(s, asks) EXCEPT !.waits = {}] IN
           /\ d \in Document /\ d.open = s.open /\ d.seeded
           /\ ShowsOneSeed(s) => ShowsOneSeed(d)
  <1> DEFINE t == Served(s, asks)
             d == [t EXCEPT !.waits = {}]
  <1>1. t \in Document /\ t.open = s.open /\ t.seeded
    BY ServedIs
  <1>2. ShowsOneSeed(s) => ShowsOneSeed(t)
    BY ServedShowsOne
  <1> HIDE DEF t
  <1>3. d \in Document /\ d.open = t.open /\ d.seeded = t.seeded /\ d.items = t.items /\ d.gone = t.gone
    BY <1>1, WaitsSet
  <1> QED  BY <1>1, <1>2, <1>3, SameShown DEF t

LEMMA AskKept ==
    ASSUME RealtimeAssumption, RtInv, NEW w \in Watcher, NEW m \in mail, ReceiveAsk(w, m)
    PROVE  Kept
  <1> DEFINE s == Held(w)
             matches == file[w] = {m.base} /\ m.base # {}
             sown == IF matches /\ ~s.seeded THEN SeededFrom(s, Current(w)) ELSE s
             asks == IF sown.seeded THEN s.waits \cup {m} ELSE {}
             doc == IF sown.seeded THEN [Served(sown, asks) EXCEPT !.waits = {}]
                                     ELSE [sown EXCEPT !.waits = @ \cup {m}]
  <1>0. mail \subseteq Frame /\ m \in Frame
    BY DEF RtInv, RealtimeTypeOK
  <1>1. /\ s \in Document /\ s.open /\ Asks(w) \subseteq Frame
        /\ ~s.seeded => TextOf(s) = {}
        /\ reading[w] # {} => s.seeded
        /\ Coherent => OfOneSeed(s.items) /\ ShowsOneSeed(s) /\ (TextOf(s) = {} => s.items = {})
    BY HeldIs
  <1>a. /\ \/ held' = [held EXCEPT ![w] = s] /\ Post(Asks(w), mail \ {m})
           \/ held' = [held EXCEPT ![w] = doc] /\ Post(Asks(w) \cup Answers(w, sown, asks), mail \ {m})
        /\ UNCHANGED <<file, tab, reading, writing, pieces, stirs>>
    BY DEF ReceiveAsk
  <1> HIDE DEF s, matches
  <1>2. /\ sown \in Document /\ sown.open
        /\ ~sown.seeded => TextOf(sown) = {} /\ reading[w] = {}
        /\ Coherent => ShowsOneSeed(sown)
    BY <1>1, CurrentIs, SeededFromIs, SeededShows
  <1> HIDE DEF sown
  <1>3. asks \in SUBSET Frame
    BY <1>0, <1>1 DEF Document
  <1> HIDE DEF asks
  <1>4. Answers(w, sown, asks) \subseteq Frame
    BY <1>2, <1>3, AnswersAre
  <1>5. doc \in Document /\ doc.open /\ (doc.seeded <=> sown.seeded)
        /\ (~doc.seeded => TextOf(doc) = {} /\ reading[w] = {}) /\ (Coherent => ShowsOneSeed(doc))
    <2>1. CASE sown.seeded
      BY <1>2, <1>3, <2>1, SeededThenServed
    <2>2. CASE ~sown.seeded
      <3>1. sown.waits \cup {m} \in SUBSET Frame
        BY <1>0, <1>2 DEF Document
      <3>2. doc = [sown EXCEPT !.waits = sown.waits \cup {m}]
        BY <2>2
      <3> HIDE DEF doc
      <3>3. /\ doc \in Document /\ doc.open = sown.open /\ doc.seeded = sown.seeded
            /\ doc.items = sown.items /\ doc.gone = sown.gone
        BY <1>2, <3>1, <3>2, WaitsSet
      <3> QED  BY <1>2, <2>2, <3>3, SameShown
    <2> QED  BY <2>1, <2>2
  <1> HIDE DEF doc
  <1>6. HeldTypeOK' /\ SeedsFirst' /\ (Coherent => SeededOnce')
    <2>1. CASE held' = [held EXCEPT ![w] = s]
      BY <1>1, <1>a, <2>1, HeldStep
    <2>2. CASE held' = [held EXCEPT ![w] = doc]
      BY <1>5, <1>a, <2>2, HeldStep
    <2> QED  BY <1>a, <2>1, <2>2
  <1>7. mail' \subseteq Frame /\ Cardinality(mail') <= MaxInFlight
    <2>1. CASE Post(Asks(w), mail \ {m})
      BY <1>0, <1>1, <2>1, PostIs DEF Post
    <2>2. CASE Post(Asks(w) \cup Answers(w, sown, asks), mail \ {m})
      BY <1>0, <1>1, <1>4, <2>2, PostIs DEF Post
    <2> QED  BY <1>a, <2>1, <2>2
  <1> QED  BY <1>a, <1>6, <1>7 DEF Kept, RtInv, RealtimeTypeOK, HeldTypeOK

LEMMA FallbackKept ==
    ASSUME RealtimeAssumption, RtInv, NEW w \in Watcher, SeedFallback(w)
    PROVE  Kept
  <1> DEFINE s == SeededFrom(held[w], Current(w))
             doc == Served(s, held[w].waits)
  <1>a. /\ held[w].open /\ ~held[w].seeded
        /\ held' = [held EXCEPT ![w] = doc]
        /\ Post(Answers(w, s, held[w].waits), mail)
        /\ UNCHANGED <<file, tab, reading, writing, pieces, stirs>>
    BY DEF SeedFallback
  <1>0. held[w] \in Document /\ held[w].waits \in SUBSET Frame /\ mail \subseteq Frame
    BY DEF RtInv, RealtimeTypeOK, Document
  <1>1. s \in Document /\ s.open /\ s.seeded
    BY <1>a, <1>0, CurrentIs, SeededFromIs
  <1>2. Coherent => ShowsOneSeed(s)
    BY <1>0, CurrentIs, SeededShows DEF Coherent
  <1> HIDE DEF s
  <1>3. doc \in Document /\ doc.open /\ doc.seeded
    BY <1>1, ServedIs
  <1>4. Coherent => ShowsOneSeed(doc)
    BY <1>1, <1>2, ServedShowsOne
  <1>5. Answers(w, s, held[w].waits) \subseteq Frame
    BY <1>0, <1>1, AnswersAre
  <1> HIDE DEF doc
  <1>6. HeldTypeOK' /\ SeedsFirst' /\ (Coherent => SeededOnce')
    BY <1>a, <1>3, <1>4, HeldStep
  <1>7. mail' \subseteq Frame /\ Cardinality(mail') <= MaxInFlight
    BY <1>a, <1>0, <1>5, PostIs DEF Post
  <1> QED  BY <1>a, <1>6, <1>7 DEF Kept, RtInv, RealtimeTypeOK, HeldTypeOK

LEMMA RequestKept ==
    ASSUME RealtimeAssumption, RtInv, NEW w \in Watcher, NEW n \in Node, RequestAll(w, n)
    PROVE  Kept
  <1>a. /\ Post({Message(w, n, "ask", held[w], {})}, mail)
        /\ stirs' = stirs + 1 /\ stirs < MaxStirs
        /\ UNCHANGED <<file, held, tab, reading, writing, pieces>>
    BY DEF RequestAll, Stirs
  <1>0. held[w] \in Document /\ mail \subseteq Frame /\ w \in Node /\ {} \in Content
    BY DEF RtInv, RealtimeTypeOK, Node, Content
  <1>1. Message(w, n, "ask", held[w], {}) \in Frame
    BY <1>0, MessageIs DEF Document
  <1>6. HeldTypeOK' /\ SeedsFirst' /\ (Coherent => SeededOnce')
    BY <1>a, HeldSame
  <1>7. mail' \subseteq Frame /\ Cardinality(mail') <= MaxInFlight
    BY <1>a, <1>0, <1>1, PostIs DEF Post
  <1>8. stirs' \in 0 .. MaxStirs
    BY <1>a DEF RtInv, RealtimeTypeOK, RealtimeAssumption
  <1> QED  BY <1>a, <1>6, <1>7, <1>8 DEF Kept, RtInv, RealtimeTypeOK, HeldTypeOK

LEMMA DocumentKept ==
    ASSUME RealtimeAssumption, RtInv, NEW w \in Watcher, NEW m \in mail, ReceiveDocument(w, m)
    PROVE  Kept
  <1> DEFINE s == Held(w)
             applied == Apply(s, m)
             seeds == ~s.seeded /\ TextOf(applied) # {}
             u == [applied EXCEPT !.seeded = TRUE]
             t == IF seeds THEN [applied EXCEPT !.seeded = TRUE, !.waits = {}] ELSE applied
             asks == IF seeds THEN s.waits ELSE {}
             v == Served(t, asks)
             doc == [v EXCEPT !.busy = t.seeded]
             foreign == ForeignWholeDocument(s, m)
  <1>0. mail \subseteq Frame /\ m \in Frame
    BY DEF RtInv, RealtimeTypeOK
  <1>1. /\ s \in Document /\ s.open /\ Asks(w) \subseteq Frame
        /\ ~s.seeded => TextOf(s) = {}
        /\ reading[w] # {} => s.seeded
        /\ Coherent => OfOneSeed(s.items) /\ ShowsOneSeed(s) /\ (TextOf(s) = {} => s.items = {})
    BY HeldIs
  <1>a. /\ \/ /\ foreign /\ held' = [held EXCEPT ![w] = s]
              /\ Post({}, mail \ {m}) /\ writing' = writing
           \/ /\ ~foreign /\ held' = [held EXCEPT ![w] = doc]
              /\ writing' = [writing EXCEPT ![w] = IF t.seeded THEN @ \cup {TextOf(t)} ELSE @]
              /\ Post(Asks(w) \cup Answers(w, t, asks), mail \ {m})
        /\ UNCHANGED <<file, tab, reading, pieces, stirs>>
    BY DEF ReceiveDocument
  <1>b. Coherent /\ ~foreign => ShowsOneSeed(applied)
    <2> SUFFICES ASSUME Coherent, ~foreign  PROVE ShowsOneSeed(applied)
      OBVIOUS
    <2>1. OfOneSeed(m.items)
      BY DEF Coherent
    <2> HIDE DEF s
    <2> QED  BY <1>0, <1>1, <2>1, MergedShowsOne
  <1> HIDE DEF s, foreign
  <1>2. applied \in Document /\ applied.open /\ applied.seeded = s.seeded
    BY <1>0, <1>1, AppliedIs DEF Frame
  <1>3. u \in Document /\ u.open /\ u.seeded /\ u.items = applied.items /\ u.gone = applied.gone
    <2> HIDE DEF applied
    <2> QED  BY <1>2, SeededSet
  <1>4. /\ t \in Document /\ t.open
        /\ TextOf(t) = TextOf(applied) /\ (ShowsOneSeed(t) <=> ShowsOneSeed(applied))
        /\ t.seeded <=> (s.seeded \/ seeds)
    <2>1. CASE seeds
      <3>1. t = [u EXCEPT !.waits = {}]
        BY <2>1, <1>2 DEF Document
      <3> HIDE DEF t, u, applied
      <3>2. t \in Document /\ t.open /\ t.seeded /\ t.items = u.items /\ t.gone = u.gone
        BY <1>3, <3>1, WaitsSet
      <3> QED  BY <1>3, <2>1, <3>2, SameShown
    <2>2. CASE ~seeds
      <3>1. t = applied
        BY <2>2
      <3> HIDE DEF t, applied
      <3> QED  BY <1>2, <2>2, <3>1
    <2> QED  BY <2>1, <2>2
  <1>5. asks \in SUBSET Frame
    BY <1>1 DEF Document
  <1>6. ~t.seeded => TextOf(t) = {}
    BY <1>4
  <1> HIDE DEF u, t, asks, seeds, applied
  <1>7. /\ v \in Document /\ v.open /\ v.seeded = t.seeded
        /\ ShowsOneSeed(t) => ShowsOneSeed(v)
    BY <1>4, ServedIs, ServedShowsOne
  <1>8. ~v.seeded => TextOf(v) = {}
    <2>1. CASE v = t
      BY <1>6, <2>1
    <2>2. CASE v.items = SeedItems(TextOf(t)) /\ v.gone = {}
      <3> SUFFICES ASSUME ~t.seeded  PROVE TextOf(v) = {}
        BY <1>7
      <3>1. v.items = {}
        BY <1>6, <2>2 DEF SeedItems
      <3> QED  BY <3>1 DEF TextOf, Visible, Integrated
    <2> QED  BY <1>4, <2>1, <2>2, ServedIs
  <1> HIDE DEF v
  <1>9. /\ doc \in Document /\ doc.open /\ doc.seeded = t.seeded
        /\ TextOf(doc) = TextOf(v) /\ (ShowsOneSeed(doc) <=> ShowsOneSeed(v))
    <2>1. t.seeded \in BOOLEAN
      BY <1>4 DEF Document
    <2>2. /\ doc \in Document /\ doc.open = v.open /\ doc.seeded = v.seeded
          /\ doc.items = v.items /\ doc.gone = v.gone
      BY <1>7, <2>1, BusySet
    <2> HIDE DEF doc
    <2> QED  BY <1>7, <2>2, SameShown
  <1> HIDE DEF doc
  <1>10. HeldTypeOK' /\ SeedsFirst' /\ (Coherent => SeededOnce')
    <2>1. CASE held' = [held EXCEPT ![w] = s]
      BY <1>1, <1>a, <2>1, HeldStep
    <2>2. CASE ~foreign /\ held' = [held EXCEPT ![w] = doc]
      <3>1. reading[w] # {} => doc.seeded
        BY <1>1, <1>4, <1>9
      <3>2. ~doc.seeded => TextOf(doc) = {}
        BY <1>7, <1>8, <1>9
      <3>3. Coherent => ShowsOneSeed(doc)
        BY <1>b, <1>4, <1>7, <1>9, <2>2
      <3> QED  BY <1>9, <1>a, <2>2, <3>1, <3>2, <3>3, HeldStep
    <2> QED  BY <1>a, <2>1, <2>2
  <1>11. mail' \subseteq Frame /\ Cardinality(mail') <= MaxInFlight
    <2>1. CASE Post({}, mail \ {m})
      BY <1>0, <2>1, PostIs DEF Post
    <2>2. CASE Post(Asks(w) \cup Answers(w, t, asks), mail \ {m})
      <3>1. Answers(w, t, asks) \subseteq Frame
        BY <1>4, <1>5, AnswersAre
      <3> QED  BY <1>0, <1>1, <3>1, <2>2, PostIs DEF Post
    <2> QED  BY <1>a, <2>1, <2>2
  <1>12. writing' \in [Watcher -> SUBSET Content]
    <2>1. TextOf(t) \in Content
      BY <1>4, TextIs DEF Document
    <2> QED  BY <1>a, <2>1 DEF RtInv, RealtimeTypeOK
  <1> QED  BY <1>a, <1>10, <1>11, <1>12 DEF Kept, RtInv, RealtimeTypeOK, HeldTypeOK

LEMMA WriteKept ==
    ASSUME RealtimeAssumption, RtInv, NEW w \in Watcher, WriteEnds(w)
    PROVE  Kept
  <1>a. PICK content \in writing[w] :
            /\ writing' = [writing EXCEPT ![w] = @ \ {content}]
            /\ \/ /\ file' = [file EXCEPT ![w] = {content}]
                  /\ held' = IF held[w].open
                               THEN [held EXCEPT ![w].busy = FALSE, ![w].last = {content},
                                                 ![w].wrote = @ \cup {content}]
                               ELSE held
               \/ /\ held' = [held EXCEPT ![w].busy = FALSE]
                  /\ UNCHANGED file
    BY DEF WriteEnds
  <1>b. UNCHANGED <<tab, reading, mail, pieces, stirs>>
    BY DEF WriteEnds
  <1>0. /\ held \in [Watcher -> Document] /\ held[w] \in Document
        /\ ~held[w].open => held[w] = Closed
        /\ content \in Content /\ {content} \in Optional(Content)
    BY DEF RtInv, RealtimeTypeOK, Optional
  <1> DEFINE a == [held[w] EXCEPT !.busy = FALSE]
             b == [a EXCEPT !.last = {content}]
             c == [b EXCEPT !.wrote = @ \cup {content}]
  <1>1. /\ a \in Document /\ a.open = held[w].open /\ a.seeded = held[w].seeded
        /\ a.items = held[w].items /\ a.gone = held[w].gone
    BY <1>0, BusySet
  <1>2. a.open \/ a = Closed
    <2>1. \A r \in Document : r.busy = FALSE => [r EXCEPT !.busy = FALSE] = r
      BY DEF Document
    <2>2. Closed \in Document /\ Closed.busy = FALSE
      BY ClosedIs DEF Closed
    <2> QED  BY <1>0, <1>1, <2>1, <2>2
  <1>3. ASSUME held[w].open, held' = [held EXCEPT ![w].busy = FALSE, ![w].last = {content},
                                                 ![w].wrote = @ \cup {content}]
        PROVE  held' = [held EXCEPT ![w] = c]
    BY <1>0, <1>3 DEF Document
  <1>4. ASSUME held' = [held EXCEPT ![w].busy = FALSE]
        PROVE  held' = [held EXCEPT ![w] = a]
    BY <1>0, <1>4
  <1> HIDE DEF a
  <1>5. /\ b \in Document /\ b.open = a.open /\ b.seeded = a.seeded
        /\ b.items = a.items /\ b.gone = a.gone
    BY <1>0, <1>1, LastSet
  <1> HIDE DEF b
  <1>6. /\ c \in Document /\ c.open = a.open /\ c.seeded = a.seeded
        /\ c.items = a.items /\ c.gone = a.gone
    <2>1. b.wrote \cup {content} \in SUBSET Content
      BY <1>0, <1>5 DEF Document
    <2> QED  BY <1>5, <2>1, WroteSet
  <1> HIDE DEF c
  <1>7. /\ TextOf(a) = TextOf(held[w]) /\ (ShowsOneSeed(held[w]) <=> ShowsOneSeed(a))
        /\ TextOf(c) = TextOf(held[w]) /\ (ShowsOneSeed(held[w]) <=> ShowsOneSeed(c))
    BY <1>1, <1>6, SameShown
  <1>8. /\ ~held[w].seeded => TextOf(held[w]) = {}
        /\ reading[w] # {} => held[w].open /\ held[w].seeded
        /\ Coherent => ShowsOneSeed(held[w])
    BY CoherentShows DEF RtInv, SeedsFirst, HeldTypeOK, RealtimeTypeOK
  <1>9. HeldTypeOK' /\ SeedsFirst' /\ (Coherent => SeededOnce')
    <2>1. CASE held' = held
      BY <1>b, <2>1, HeldSame
    <2>2. CASE held[w].open /\ held' = [held EXCEPT ![w] = c]
      BY <1>b, <1>1, <1>6, <1>7, <1>8, <2>2, HeldStep
    <2>3. CASE held' = [held EXCEPT ![w] = a]
      BY <1>b, <1>1, <1>2, <1>7, <1>8, <2>3, HeldStep
    <2> QED  BY <1>a, <1>3, <1>4, <2>1, <2>2, <2>3
  <1>10. /\ writing' \in [Watcher -> SUBSET Content]
         /\ file' \in [Watcher -> Optional(Content)]
    BY <1>a, <1>0 DEF RtInv, RealtimeTypeOK
  <1> QED  BY <1>b, <1>9, <1>10 DEF Kept, RtInv, RealtimeTypeOK, HeldTypeOK

LEMMA FileEventKept ==
    ASSUME RealtimeAssumption, RtInv, NEW w \in Watcher, FileEvent(w)
    PROVE  Kept
  <1> DEFINE doc == IF file[w] = {} THEN Closed ELSE held[w]
  <1>a. /\ held[w].open /\ held[w].seeded
        /\ reading' = [reading EXCEPT ![w] = file[w]]
        /\ held' = [held EXCEPT ![w] = doc]
        /\ UNCHANGED <<file, tab, writing, mail, pieces, stirs>>
    BY DEF FileEvent
  <1>0. /\ held[w] \in Document /\ file[w] \in Optional(Content)
        /\ reading \in [Watcher -> Optional(Content)]
    BY DEF RtInv, RealtimeTypeOK
  <1>1. /\ doc \in Document
        /\ doc.open \/ doc = Closed
        /\ ~doc.seeded => TextOf(doc) = {}
        /\ file[w] # {} => doc.open /\ doc.seeded
        /\ Coherent => ShowsOneSeed(doc)
    <2>1. CASE file[w] = {}
      <3>1. TextOf(Closed) = {} /\ ShowsOneSeed(Closed)
        BY DEF Closed, TextOf, Visible, Integrated, ShowsOneSeed
      <3> QED  BY <2>1, <3>1, ClosedIs
    <2>2. CASE file[w] # {}
      BY <1>a, <1>0, <2>2, CoherentShows DEF RtInv, RealtimeTypeOK, HeldTypeOK
    <2> QED  BY <2>1, <2>2
  <1> HIDE DEF doc
  <1>2. /\ reading'[w] # {} => doc.open /\ doc.seeded
        /\ \A v \in Watcher \ {w} : reading'[v] # {} => reading[v] # {}
    BY <1>a, <1>0, <1>1
  <1>3. HeldTypeOK' /\ SeedsFirst' /\ (Coherent => SeededOnce')
    BY <1>a, <1>1, <1>2, HeldStep
  <1>4. reading' \in [Watcher -> Optional(Content)]
    BY <1>a, <1>0
  <1> QED  BY <1>a, <1>3, <1>4 DEF Kept, RtInv, RealtimeTypeOK, HeldTypeOK

\* An edit of the file adds what goes back to no seed of its own.
LEMMA HandleKept ==
    ASSUME RealtimeAssumption, RtInv, NEW w \in Watcher, HandleFile(w)
    PROVE  Kept
  <1> DEFINE s == held[w]
             added(content) == {Inserted(w, s, p) : p \in content \ Baseline(s)}
             removed(content) == {i \in Visible(s) : i.piece \in Baseline(s) \ content}
             edit(content) == [items |-> added(content), gone |-> removed(content)]
             t(content) == Apply(s, edit(content))
             bounced == [held EXCEPT ![w].last = {}, ![w].busy = TRUE]
             taken(content) == [held EXCEPT ![w] = [t(content) EXCEPT !.last = {}, !.busy = TRUE]]
  <1>a. /\ \E content \in reading[w] :
            \/ UNCHANGED <<held, writing, mail>>
            \/ held' = [held EXCEPT ![w].last = {content}] /\ UNCHANGED <<writing, mail>>
            \/ /\ held' = bounced
               /\ writing' = [writing EXCEPT ![w] = @ \cup {TextOf(s)}]
               /\ UNCHANGED mail
            \/ /\ held' = taken(content)
               /\ writing' = [writing EXCEPT ![w] = @ \cup {TextOf(t(content))}]
               /\ Post(ToRoom(w, "update", edit(content), {}), mail)
        /\ reading' = [reading EXCEPT ![w] = {}]
        /\ UNCHANGED <<file, tab, pieces, stirs>>
    BY DEF HandleFile
  <1>b. PICK content \in reading[w] :
            \/ UNCHANGED <<held, writing, mail>>
            \/ held' = [held EXCEPT ![w].last = {content}] /\ UNCHANGED <<writing, mail>>
            \/ /\ held' = bounced
               /\ writing' = [writing EXCEPT ![w] = @ \cup {TextOf(s)}]
               /\ UNCHANGED mail
            \/ /\ held' = taken(content)
               /\ writing' = [writing EXCEPT ![w] = @ \cup {TextOf(t(content))}]
               /\ Post(ToRoom(w, "update", edit(content), {}), mail)
    BY <1>a
  <1> DEFINE e == edit(content)
             x == t(content)
             a == [s EXCEPT !.last = {content}]
             b == [s EXCEPT !.last = {}]
             c == [b EXCEPT !.busy = TRUE]
             y == [x EXCEPT !.last = {}]
             z == [y EXCEPT !.busy = TRUE]
  <1>0. /\ held \in [Watcher -> Document] /\ s \in Document /\ s.open /\ s.seeded
        /\ content \in Content /\ {content} \in Optional(Content) /\ {} \in Optional(Content)
        /\ reading \in [Watcher -> Optional(Content)] /\ stirs \in 0 .. MaxStirs
        /\ mail \subseteq Frame /\ w \in Node /\ {} \in Content
    <2>1. reading[w] \in Optional(Content)
      BY DEF RtInv, RealtimeTypeOK
    <2>2. content \in Content
      BY <2>1 DEF Optional
    <2>3. s.open /\ s.seeded
      BY DEF RtInv, SeedsFirst
    <2> QED  BY <2>2, <2>3 DEF RtInv, RealtimeTypeOK, Optional, Node, Content
  <1>1. /\ e.items \subseteq Item /\ \A i \in e.items : i.client.by # <<>>
        /\ e.gone \subseteq Item
    <2>1. \A p \in content : p \in 0 .. MaxPieces
      BY <1>0 DEF Content
    <2>2. s.items \subseteq Item
      BY <1>0 DEF Document
    <2>3. \A p \in content : Inserted(w, s, p) \in Item /\ Inserted(w, s, p).client.by # <<>>
      BY <1>0, <2>1, <2>2, InsertedIs
    <2>4. Visible(s) \subseteq Item
      BY <2>2, TextIs
    <2> QED  BY <2>3, <2>4
  <1>2. /\ ~s.seeded => TextOf(s) = {}
        /\ Coherent => OfOneSeed(s.items) /\ ShowsOneSeed(s)
    BY <1>0, CoherentShows DEF Coherent, RtInv, RealtimeTypeOK, HeldTypeOK
  <1>3. held' = [held EXCEPT ![w].last = {content}] => held' = [held EXCEPT ![w] = a]
    BY <1>0
  <1>4. held' = bounced => held' = [held EXCEPT ![w] = c]
    BY <1>0 DEF Document
  <1>5. x \in Document /\ x.open /\ x.seeded /\ x.items = s.items \cup e.items
    BY <1>0, <1>1, AppliedIs
  <1>6. held' = taken(content) => held' = [held EXCEPT ![w] = z]
    <2> HIDE DEF t
    <2> QED  BY <1>0, <1>5 DEF Document
  <1>7. Coherent => ShowsOneSeed(x)
    <2> SUFFICES ASSUME Coherent,
                        NEW i \in Visible(x), NEW j \in Visible(x),
                        i.client.by = <<>>, j.client.by = <<>>
                 PROVE  i.client = j.client
      BY DEF ShowsOneSeed
    <2>1. i \in s.items /\ j \in s.items
      <3>1. Visible(x) \subseteq x.items
        BY DEF Visible, Integrated
      <3> QED  BY <1>1, <1>5, <3>1
    <2>2. i.client \in Client /\ j.client \in Client /\ i.client.seed = j.client.seed
      BY <1>0, <1>2, <2>1 DEF Document, Item, OfOneSeed
    <2> QED  BY <2>2 DEF Client
  <1>8. /\ a \in Document /\ a.open /\ a.seeded /\ a.items = s.items /\ a.gone = s.gone
        /\ b \in Document /\ b.open /\ b.seeded /\ b.items = s.items /\ b.gone = s.gone
    BY <1>0, LastSet
  <1> HIDE DEF t
  <1>9. y \in Document /\ y.open /\ y.seeded /\ y.items = x.items /\ y.gone = x.gone
    BY <1>0, <1>5, LastSet
  <1> HIDE DEF b, y
  <1>10. /\ c \in Document /\ c.open /\ c.seeded /\ c.items = s.items /\ c.gone = s.gone
         /\ z \in Document /\ z.open /\ z.seeded /\ z.items = x.items /\ z.gone = x.gone
    <2>1. c \in Document /\ c.open = b.open /\ c.seeded = b.seeded /\ c.items = b.items /\ c.gone = b.gone
      BY <1>8, BusySet
    <2>2. z \in Document /\ z.open = y.open /\ z.seeded = y.seeded /\ z.items = y.items /\ z.gone = y.gone
      BY <1>9, BusySet
    <2> QED  BY <1>8, <1>9, <2>1, <2>2
  <1> HIDE DEF a, c, z
  <1>11. /\ ShowsOneSeed(s) <=> ShowsOneSeed(a) /\ ShowsOneSeed(c)
         /\ ShowsOneSeed(x) <=> ShowsOneSeed(z)
    <2>1. (ShowsOneSeed(s) <=> ShowsOneSeed(a)) /\ (ShowsOneSeed(s) <=> ShowsOneSeed(c))
          /\ (ShowsOneSeed(x) <=> ShowsOneSeed(z))
      BY <1>8, <1>10, SameShown
    <2> QED  BY <2>1
  <1>12. \A v \in Watcher : reading'[v] # {} => v # w /\ reading[v] # {}
    BY <1>a, <1>0
  <1>13. HeldTypeOK' /\ SeedsFirst' /\ (Coherent => SeededOnce')
    <2>1. CASE held' = held
      BY <1>12, <2>1, HeldSame
    <2>2. CASE held' = [held EXCEPT ![w] = a]
      BY <1>2, <1>8, <1>11, <1>12, <2>2, HeldStep
    <2>3. CASE held' = [held EXCEPT ![w] = c]
      BY <1>2, <1>10, <1>11, <1>12, <2>3, HeldStep
    <2>4. CASE held' = [held EXCEPT ![w] = z]
      BY <1>7, <1>10, <1>11, <1>12, <2>4, HeldStep
    <2> QED  BY <1>b, <1>3, <1>4, <1>6, <2>1, <2>2, <2>3, <2>4
  <1>14. writing' \in [Watcher -> SUBSET Content]
    <2>1. TextOf(s) \in Content /\ TextOf(x) \in Content
      BY <1>0, <1>5, TextIs DEF Document
    <2> QED  BY <1>b, <2>1 DEF RtInv, RealtimeTypeOK
  <1>15. mail' \subseteq Frame /\ Cardinality(mail') <= MaxInFlight
    <2>1. CASE UNCHANGED mail
      BY <2>1 DEF RtInv, RealtimeTypeOK
    <2>2. CASE Post(ToRoom(w, "update", e, {}), mail)
      <3>1. ToRoom(w, "update", e, {}) \subseteq Frame
        BY <1>0, <1>1, ToRoomIs
      <3> QED  BY <1>0, <3>1, <2>2, PostIs DEF Post
    <2> QED  BY <1>b, <2>1, <2>2
  <1>16. reading' \in [Watcher -> Optional(Content)]
    BY <1>a, <1>0
  <1> QED  BY <1>a, <1>13, <1>14, <1>15, <1>16 DEF Kept, RtInv, RealtimeTypeOK, HeldTypeOK

\* What leaves the documents, or closes one.
LEMMA FilesKept ==
    ASSUME RealtimeAssumption, RtInv, NEW w \in Watcher, NEW content \in Content,
           file' = [file EXCEPT ![w] = {content}],
           pieces' \in 0 .. MaxPieces, stirs' \in 0 .. MaxStirs,
           UNCHANGED <<held, tab, reading, writing, mail>>
    PROVE  Kept
  <1>1. HeldTypeOK' /\ SeedsFirst' /\ (Coherent => SeededOnce')
    BY HeldSame
  <1>2. file' \in [Watcher -> Optional(Content)]
    BY DEF RtInv, RealtimeTypeOK, Optional
  <1> QED  BY <1>1, <1>2 DEF Kept, RtInv, RealtimeTypeOK, HeldTypeOK

LEMMA ClosesKept ==
    ASSUME RealtimeAssumption, RtInv, NEW w \in Watcher,
           file' \in [Watcher -> Optional(Content)], writing' \in [Watcher -> SUBSET Content],
           held' = [held EXCEPT ![w] = Closed], reading' = [reading EXCEPT ![w] = {}],
           stirs' \in 0 .. MaxStirs, UNCHANGED <<tab, mail, pieces>>
    PROVE  Kept
  <1>0. reading \in [Watcher -> Optional(Content)]
    BY DEF RtInv, RealtimeTypeOK
  <1>1. TextOf(Closed) = {} /\ ShowsOneSeed(Closed)
    BY DEF Closed, TextOf, Visible, Integrated, ShowsOneSeed
  <1>2. reading'[w] = {} /\ \A v \in Watcher \ {w} : reading'[v] # {} => reading[v] # {}
    BY <1>0
  <1>3. HeldTypeOK' /\ SeedsFirst' /\ (Coherent => SeededOnce')
    BY <1>1, <1>2, ClosedIs, HeldStep
  <1>4. reading' \in [Watcher -> Optional(Content)]
    BY <1>0 DEF Optional
  <1> QED  BY <1>3, <1>4 DEF Kept, RtInv, RealtimeTypeOK, HeldTypeOK

LEMMA Counted ==
    ASSUME RealtimeAssumption, RtInv
    PROVE  /\ Fresh => pieces' \in 0 .. MaxPieces /\ pieces + 1 \in 0 .. MaxPieces
           /\ Stirs => stirs' \in 0 .. MaxStirs
  BY DEF Fresh, Stirs, RtInv, RealtimeTypeOK, RealtimeAssumption

LEMMA PeopleKept ==
    ASSUME RealtimeAssumption, RtInv, NEW w \in Watcher,
           \/ PersonEditsFile(w) \/ PersonCutsFile(w) \/ MoveItem(w) \/ OverlayStraggles(w)
           \/ RestartWatcher(w) \/ \E v \in Watcher : OverlayCopies(v, w)
    PROVE  Kept
  <1>0. /\ file \in [Watcher -> Optional(Content)] /\ writing \in [Watcher -> SUBSET Content]
        /\ held \in [Watcher -> Document]
        /\ pieces \in 0 .. MaxPieces /\ stirs \in 0 .. MaxStirs
    BY DEF RtInv, RealtimeTypeOK
  <1>1. CASE PersonEditsFile(w)
    <2>1. PICK content \in file[w] : file' = [file EXCEPT ![w] = {content \cup {pieces + 1}}]
      BY <1>1 DEF PersonEditsFile
    <2>2. content \in Content
      BY <1>0, <2>1 DEF Optional
    <2>3. pieces' \in 0 .. MaxPieces /\ pieces + 1 \in 0 .. MaxPieces
      BY <1>1, Counted DEF PersonEditsFile
    <2>4. content \cup {pieces + 1} \in Content
      BY <2>2, <2>3 DEF Content
    <2> QED  BY <1>0, <1>1, <2>1, <2>3, <2>4, FilesKept DEF PersonEditsFile
  <1>2. CASE PersonCutsFile(w)
    <2>1. PICK cut \in Content : file' = [file EXCEPT ![w] = {cut}]
      BY <1>2 DEF PersonCutsFile
    <2>2. pieces' \in 0 .. MaxPieces
      BY <1>2, Counted DEF PersonCutsFile
    <2> QED  BY <1>0, <1>2, <2>1, <2>2, FilesKept DEF PersonCutsFile
  <1>3. CASE MoveItem(w)
    <2>1. stirs' \in 0 .. MaxStirs
      BY <1>3, Counted DEF MoveItem
    <2>2. file' \in [Watcher -> Optional(Content)]
      BY <1>0, <1>3 DEF MoveItem, Optional
    <2> QED  BY <1>0, <1>3, <2>1, <2>2, ClosesKept DEF MoveItem
  <1>4. CASE OverlayStraggles(w)
    <2>1. PICK content \in held[w].wrote : file' = [file EXCEPT ![w] = {content}]
      BY <1>4 DEF OverlayStraggles
    <2>2. content \in Content
      BY <1>0, <2>1 DEF Document
    <2>3. stirs' \in 0 .. MaxStirs
      BY <1>4, Counted DEF OverlayStraggles
    <2> QED  BY <1>0, <1>4, <2>1, <2>2, <2>3, FilesKept DEF OverlayStraggles
  <1>5. CASE RestartWatcher(w)
    <2>1. stirs' \in 0 .. MaxStirs
      BY <1>5, Counted DEF RestartWatcher
    <2>2. writing' \in [Watcher -> SUBSET Content]
      BY <1>0, <1>5 DEF RestartWatcher
    <2> QED  BY <1>0, <1>5, <2>1, <2>2, ClosesKept DEF RestartWatcher
  <1>6. ASSUME NEW v \in Watcher, OverlayCopies(v, w)  PROVE Kept
    <2>1. PICK content \in Content : file[v] = {content}
      BY <1>0, <1>6 DEF OverlayCopies, Optional
    <2>2. stirs' \in 0 .. MaxStirs
      BY <1>6, Counted DEF OverlayCopies
    <2> QED  BY <1>0, <1>6, <2>1, <2>2, FilesKept DEF OverlayCopies
  <1> QED  BY <1>1, <1>2, <1>3, <1>4, <1>5, <1>6

\* Browsers do not change what watchers hold.
LEMMA TabsKept ==
    ASSUME RealtimeAssumption, RtInv,
           tab' \in [Browser -> [items : SUBSET Item, gone : SUBSET Item]],
           mail' \subseteq Frame, Cardinality(mail') <= MaxInFlight,
           pieces' \in 0 .. MaxPieces, stirs' \in 0 .. MaxStirs,
           UNCHANGED <<file, held, reading, writing>>
    PROVE  Kept
  <1>1. HeldTypeOK' /\ SeedsFirst' /\ (Coherent => SeededOnce')
    BY HeldSame
  <1> QED  BY <1>1 DEF Kept, RtInv, RealtimeTypeOK, HeldTypeOK

LEMMA BrowserKept ==
    ASSUME RealtimeAssumption, RtInv, NEW b \in Browser,
           \/ BrowserAsks(b) \/ BrowserTypes(b) \/ BrowserReloads(b)
           \/ \E m \in mail : BrowserReceives(b, m)
    PROVE  Kept
  <1> DEFINE Tabs == [items : SUBSET Item, gone : SUBSET Item]
  <1>0. /\ tab \in [Browser -> Tabs] /\ tab[b] \in Tabs /\ b \in Node /\ {} \in Content
        /\ mail \subseteq Frame /\ Cardinality(mail) <= MaxInFlight
        /\ file \in [Watcher -> Optional(Content)]
        /\ pieces \in 0 .. MaxPieces /\ stirs \in 0 .. MaxStirs
    BY DEF RtInv, RealtimeTypeOK, Node, Content
  <1>e. Blank \in Tabs
    BY ClosedIs
  <1>a. \A m : \A d \in Tabs : m.items \subseteq Item /\ m.gone \subseteq Item => Apply(d, m) \in Tabs
    BY DEF Apply
  <1>1. CASE BrowserAsks(b)
    <2>1. PICK base \in UNION {file[w] : w \in Watcher} : Post(ToRoom(b, "ask", Blank, base), mail)
      BY <1>1 DEF BrowserAsks
    <2>2. base \in Content
      BY <1>0, <2>1 DEF Optional
    <2>3. ToRoom(b, "ask", Blank, base) \subseteq Frame
      BY <1>0, <1>e, <2>2, ToRoomIs
    <2>4. mail' \subseteq Frame /\ Cardinality(mail') <= MaxInFlight
      BY <1>0, <2>1, <2>3, PostIs DEF Post
    <2>5. stirs' \in 0 .. MaxStirs
      BY <1>1, Counted DEF BrowserAsks
    <2> QED  BY <1>0, <1>1, <2>4, <2>5, TabsKept DEF BrowserAsks
  <1>2. CASE BrowserTypes(b)
    <2> DEFINE e == [items |-> {Inserted(b, tab[b], pieces + 1)}, gone |-> {}]
    <2>1. /\ Fresh /\ tab' = [tab EXCEPT ![b] = Apply(@, e)]
          /\ Post(ToRoom(b, "update", e, {}), mail)
          /\ UNCHANGED <<file, held, reading, writing, stirs>>
      BY <1>2 DEF BrowserTypes
    <2>2. pieces' \in 0 .. MaxPieces /\ pieces + 1 \in 0 .. MaxPieces
      BY <2>1, Counted
    <2>3. e.items \subseteq Item /\ e.gone \subseteq Item
      BY <1>0, <2>2, InsertedIs
    <2> HIDE DEF e
    <2>4. tab' \in [Browser -> Tabs]
      BY <1>0, <1>a, <2>1, <2>3
    <2>5. ToRoom(b, "update", e, {}) \subseteq Frame
      BY <1>0, <2>3, ToRoomIs
    <2>6. mail' \subseteq Frame /\ Cardinality(mail') <= MaxInFlight
      BY <1>0, <2>1, <2>5, PostIs DEF Post
    <2> QED  BY <1>0, <2>1, <2>2, <2>4, <2>6, TabsKept
  <1>3. CASE BrowserReloads(b)
    <2>1. stirs' \in 0 .. MaxStirs
      BY <1>3, Counted DEF BrowserReloads
    <2>2. tab' \in [Browser -> Tabs]
      BY <1>0, <1>e, <1>3 DEF BrowserReloads
    <2> QED  BY <1>0, <1>3, <2>1, <2>2, TabsKept DEF BrowserReloads
  <1>4. ASSUME NEW m \in mail, BrowserReceives(b, m)  PROVE Kept
    <2> DEFINE whole == [items |-> m.items, gone |-> m.gone]
               answer == Message(b, m.from, "answer", Lacking(tab[b], m.items), {})
    <2>0. m \in Frame /\ m.items \subseteq Item /\ m.gone \subseteq Item /\ m.from \in Node
      BY <1>0 DEF Frame
    <2>1. \E d \in {tab[b], whole, Apply(tab[b], m)} : tab' = [tab EXCEPT ![b] = d]
      BY <1>4 DEF BrowserReceives
    <2>2. tab' \in [Browser -> Tabs]
      <3>1. {tab[b], whole, Apply(tab[b], m)} \subseteq Tabs
        BY <1>0, <1>a, <2>0
      <3> QED  BY <1>0, <2>1, <3>1
    <2>3. answer \in Frame
      <3>1. Lacking(tab[b], m.items).items \subseteq Item /\ Lacking(tab[b], m.items).gone \subseteq Item
        BY <1>0 DEF Lacking
      <3> QED  BY <1>0, <2>0, <3>1, MessageIs
    <2>4. Post({answer}, mail \ {m}) \/ Post({}, mail \ {m})
      BY <1>4 DEF BrowserReceives
    <2> HIDE DEF answer
    <2>5. mail' \subseteq Frame /\ Cardinality(mail') <= MaxInFlight
      BY <1>0, <2>3, <2>4, PostIs DEF Post
    <2>6. UNCHANGED <<file, held, reading, writing, pieces, stirs>>
      BY <1>4 DEF BrowserReceives
    <2> QED  BY <1>0, <2>2, <2>5, <2>6, TabsKept
  <1> QED  BY <1>1, <1>2, <1>3, <1>4

LEMMA RealtimeBegins ==
    ASSUME RealtimeAssumption, RealtimeInit
    PROVE  RtInv
  <1>1. {0} \in Content /\ {0, 1} \in Content
    BY DEF RealtimeAssumption, Content
  <1>2. file \in [Watcher -> Optional(Content)]
    BY <1>1 DEF RealtimeInit, Optional
  <1>3. Cardinality({}) = 0
    BY FS_EmptySet
  <1>4. TextOf(Closed) = {}
    BY DEF Closed, TextOf, Visible, Integrated
  <1>5. RealtimeTypeOK
    BY <1>2, <1>3, ClosedIs DEF RealtimeInit, RealtimeTypeOK, RealtimeAssumption, Optional
  <1>6. SeedsFirst
    BY <1>4 DEF RealtimeInit, SeedsFirst
  <1> QED  BY <1>5, <1>6 DEF RtInv

LEMMA RealtimeStep ==
    ASSUME RealtimeAssumption, RtInv, [RealtimeNext]_rvars
    PROVE  Kept
  <1>1. ASSUME NEW w \in Watcher,
               \/ SeedFallback(w) \/ WriteEnds(w) \/ FileEvent(w) \/ HandleFile(w)
               \/ PersonEditsFile(w) \/ PersonCutsFile(w) \/ MoveItem(w)
               \/ OverlayStraggles(w) \/ RestartWatcher(w)
               \/ \E v \in Watcher : OverlayCopies(v, w)
               \/ \E n \in Node : RequestAll(w, n)
        PROVE  Kept
    BY <1>1, FallbackKept, WriteKept, FileEventKept, HandleKept, PeopleKept, RequestKept
  <1>2. ASSUME NEW b \in Browser, BrowserAsks(b) \/ BrowserTypes(b) \/ BrowserReloads(b)
        PROVE  Kept
    BY <1>2, BrowserKept
  <1>3. ASSUME NEW m \in mail,
               \/ m.to \in Watcher /\ (ReceiveAsk(m.to, m) \/ ReceiveDocument(m.to, m))
               \/ m.to \in Browser /\ BrowserReceives(m.to, m)
        PROVE  Kept
    BY <1>3, AskKept, DocumentKept, BrowserKept
  <1>4. CASE UNCHANGED rvars
    <2>1. HeldTypeOK' /\ SeedsFirst' /\ (Coherent => SeededOnce')
      BY <1>4, HeldSame DEF rvars
    <2> QED  BY <1>4, <2>1 DEF rvars, Kept, RtInv, RealtimeTypeOK
  <1> QED  BY <1>1, <1>2, <1>3, <1>4 DEF RealtimeNext

\* The live editor's variables keep their types, for any watchers, browsers and bounds.
THEOREM RealtimeTypesHold == RealtimeSpec => []RealtimeTypeOK
  <1>1. RealtimeInit => RtInv
    BY RealtimeBegins, RealtimeAssumption
  <1>2. RtInv /\ [RealtimeNext]_rvars => RtInv'
    BY RealtimeStep, RealtimeAssumption DEF Kept
  <1>3. RtInv => RealtimeTypeOK
    BY DEF RtInv
  <1> QED  BY <1>1, <1>2, <1>3, PTL DEF RealtimeSpec

\* foreignWholeDocument keeps seeds apart: where every document and message goes back to
\* one seed, or to none, and shows something if it holds anything, no step makes a
\* watcher's document show two, however many watchers seed, rebuild and come back.
THEOREM SeedsStayApartAlways == RealtimeSpec => SeedsStayApart
  <1>1. RealtimeInit => RtInv
    BY RealtimeBegins, RealtimeAssumption
  <1>2. RtInv /\ [RealtimeNext]_rvars => RtInv' /\ [~SeededOnce' => ~Coherent]_rvars
    BY RealtimeStep, RealtimeAssumption DEF Kept
  <1> QED  BY <1>1, <1>2, PTL DEF RealtimeSpec, SeedsStayApart

-----------------------------------------------------------------------------
\* Both side by side, as they are checked: whichever a behaviour follows, it is one of
\* each, and all variables keep their types.
THEOREM TypesHold == MCSpec => []TypesOK
  <1>1. MCInit => Init /\ RealtimeInit
    BY DEF MCInit
  <1>2. [MCNext]_<<part, vars, rvars>> => [Next]_vars /\ [RealtimeNext]_rvars
    BY DEF MCNext
  <1>3. TypeOK /\ RealtimeTypeOK => TypesOK
    BY DEF TypesOK
  <1> QED  BY <1>1, <1>2, <1>3, TypeCorrect, RealtimeTypesHold, PTL DEF MCSpec, Spec, RealtimeSpec

=============================================================================
