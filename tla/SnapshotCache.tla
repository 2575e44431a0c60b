---------------------------- MODULE SnapshotCache ----------------------------
(***************************************************************************)
(* The disk cache of one device (src/src/cache.js) with the activities of   *)
(* src/src/protocol.js that share it: publishLocal, which caches chunks and *)
(* a manifest and then prunes; the import of another device's snapshot,     *)
(* which runs beside it; and the prune itself, which awaits between listing *)
(* the manifests, removing the stale ones, listing the chunks and removing  *)
(* those nothing kept refers to.                                            *)
(*                                                                          *)
(* Chunks are content addressed, so two snapshots may share some.  A        *)
(* manifest names the chunks of its bundle, of its files and of its trash.  *)
(* Time passes in ticks between publications, each of which is shorter than *)
(* one.  The PeerPigeon store is external.                                  *)
(***************************************************************************)
EXTENDS Naturals, FiniteSets

CONSTANTS
    Own,          \* snapshots this device may publish, as positive numbers
    Foreign,      \* snapshots the other device may publish
    Chunk,        \* chunks
    BundleOf,     \* the chunks of a snapshot's bundle
    FilesOf,      \* the chunks of its private and live files
    TrashOf,      \* the chunks of its trash
    Role,         \* storage roles this device may be given
    Retained,     \* how many of the newest snapshots each role keeps
    Window,       \* for how many ticks a snapshot is recent
    MaxTime,      \* bound: ticks
    MaxCrashes    \* bound: kills

Snapshot == Own \cup Foreign

ASSUME SnapshotAssumption == Snapshot \subseteq Nat \ {0}
ASSUME ChunkAssumption ==
    /\ BundleOf \in [Snapshot -> SUBSET Chunk]
    /\ FilesOf \in [Snapshot -> SUBSET Chunk]
    /\ TrashOf \in [Snapshot -> SUBSET Chunk]
ASSUME RoleAssumption ==
    /\ Role \subseteq {"archive", "standard", "transient"}
    /\ Retained \in [{"standard", "transient"} -> Nat]
ASSUME BoundAssumption == Window \in Nat /\ MaxTime \in Nat /\ MaxCrashes \in Nat

None == 0

VARIABLES
    now,        \* the time
    manifests,  \* the manifests on disk
    created,    \* createdAt in each of them
    chunks,     \* the chunks on disk
    seeded,     \* the chunk records in the frozen store, in memory (external)
    up,         \* is the synchronizer started, or starting?
    own,        \* this.state.heads[this device]
    other,      \* this.state.heads[the other]
    imported,   \* this.state.imported[the other]
    saved,      \* the three, as the state file has them
    pub,        \* what start() or publishLocal() is doing
    imp,        \* what the import is doing, and the chunks it still needs
    pass,       \* what the prune pass has read
    published,  \* when each snapshot was last published (history)
    crashes     \* how many kills there were

vars == <<now, manifests, created, chunks, seeded, up, own, other, imported, saved,
          pub, imp, pass, published, crashes>>

Known == Snapshot \cup {None}
ContentOf(s) == BundleOf[s] \cup FilesOf[s]
NotPruning == [phase |-> "idle", keep |-> {}, set |-> {}]
NoImport == [phase |-> "idle", snap |-> None, need |-> {}]
NotPublishing == [phase |-> "idle", snap |-> None]
Never == [s \in Snapshot |-> {}]
State == [own : Known, other : Known, imported : Known]

TypeOK ==
    /\ now \in Nat /\ crashes \in Nat
    /\ manifests \subseteq Snapshot
    /\ created \in [Snapshot -> Nat]
    /\ chunks \subseteq Chunk /\ seeded \subseteq Chunk
    /\ up \in BOOLEAN
    /\ own \in Known /\ other \in Known /\ imported \in Known
    /\ saved \in State
    /\ pub \in [phase : {"idle", "start", "rehydrate", "cache", "manifest", "head", "prune"},
                snap : Known]
    /\ imp \in [phase : {"idle", "manifest", "chunks"}, snap : Known, need : SUBSET Chunk]
    /\ pass.phase \in {"idle", "list", "manifests", "chunks", "sweep", "frozen", "evict"}
    /\ published \in [Snapshot -> SUBSET Nat]

Init ==
    /\ now = 0 /\ crashes = 0
    /\ manifests = {} /\ created = [s \in Snapshot |-> 0]
    /\ chunks = {} /\ seeded = {}
    /\ up = FALSE
    /\ own = None /\ other = None /\ imported = None
    /\ saved = [own |-> None, other |-> None, imported |-> None]
    /\ pub = NotPublishing /\ imp = NoImport /\ pass = NotPruning
    /\ published = Never

disk == <<manifests, created, chunks>>
state == <<own, other, imported, saved>>

-----------------------------------------------------------------------------
SaveState == saved' = [own |-> own', other |-> other', imported |-> imported']

\* cache.writeManifest: the manifest of a snapshot is written once.
WriteManifest(s, createdAt) ==
    /\ manifests' = manifests \cup {s}
    /\ created' = IF s \in manifests THEN created ELSE [created EXCEPT ![s] = createdAt]

\* start(): the state is loaded, and a prune comes first.
Start ==
    /\ ~up
    /\ up' = TRUE
    /\ own' = saved.own /\ other' = saved.other /\ imported' = saved.imported
    /\ pub' = [phase |-> "start", snap |-> None]
    /\ UNCHANGED <<now, disk, seeded, saved, imp, pass, published, crashes>>

\* #rehydrateCurrentSnapshots: the snapshots of the heads are seeded from disk.
\* One that is not whole is given up at the chunk that is missing.
RehydrateCurrentSnapshots ==
    /\ pub.phase = "rehydrate"
    /\ \E some \in [{own, other} \cap manifests -> SUBSET chunks] :
          /\ \A s \in DOMAIN some :
                /\ some[s] \subseteq ContentOf(s)
                /\ ContentOf(s) \subseteq chunks => some[s] = ContentOf(s)
          /\ seeded' = seeded \cup UNION {some[s] : s \in DOMAIN some}
    /\ pub' = NotPublishing
    /\ UNCHANGED <<now, disk, up, state, imp, pass, published, crashes>>

\* publishLocal with something new.  When no ref has changed since the head, the
\* bundle of the head's manifest is used again, and its chunks not cached anew.
PublishLocal(s) ==
    /\ up /\ pub = NotPublishing
    /\ s # own \/ s \notin manifests
    /\ pub' = [phase |-> "cache", snap |-> s]
    /\ UNCHANGED <<now, disk, seeded, up, state, imp, pass, published, crashes>>

SameBundle(s) == own \in manifests /\ BundleOf[own] = BundleOf[s]

CacheChunks ==
    /\ pub.phase = "cache"
    /\ LET s == pub.snap
           fresh == IF SameBundle(s) THEN FilesOf[s] ELSE ContentOf(s)
       IN  chunks' = chunks \cup fresh \cup TrashOf[s]
    /\ pub' = [pub EXCEPT !.phase = "manifest"]
    /\ UNCHANGED <<now, manifests, created, seeded, up, state, imp, pass, published,
                   crashes>>

\* The manifest is written, and it and its chunks, but no trash, are seeded.
SeedManifest ==
    /\ pub.phase = "manifest"
    /\ WriteManifest(pub.snap, now)
    /\ seeded' = seeded \cup ContentOf(pub.snap)
    /\ pub' = [pub EXCEPT !.phase = "head"]
    /\ UNCHANGED <<now, chunks, up, state, imp, pass, published, crashes>>

\* The head is put, recorded and saved, and the cache pruned.
RecordHead ==
    /\ pub.phase = "head"
    /\ own' = pub.snap
    /\ UNCHANGED <<other, imported>>
    /\ SaveState
    /\ published' = [published EXCEPT ![pub.snap] = {now}]
    /\ pub' = [pub EXCEPT !.phase = "prune"]
    /\ UNCHANGED <<now, disk, seeded, up, imp, pass, crashes>>

-----------------------------------------------------------------------------
\* Mutant of PruneDone: the prune after a publication ends in no phase.
PruneForgets == pub' = [phase |-> "pruned", snap |-> None]

\* What start() or publishLocal() does after its prune.
PruneDone ==
    pub' = IF pub.phase = "start" THEN [pub EXCEPT !.phase = "rehydrate"]
                                  ELSE NotPublishing

\* Mutant of PruneCache: the heads are not kept, only what the plan retains.
PruneCacheByAge ==
    /\ pub.phase \in {"start", "prune"}
    /\ pass = NotPruning
    /\ Role \ {"archive"} # {}
    /\ pass' = [phase |-> "list", keep |-> {}, set |-> {}]
    /\ UNCHANGED <<now, disk, seeded, up, state, pub, imp, published, crashes>>

\* #pruneCache: an archive keeps everything; else the heads of this moment are
\* kept, and the plan follows from the role.
PruneCache ==
    /\ pub.phase \in {"start", "prune"}
    /\ pass = NotPruning
    /\ \/ /\ "archive" \in Role
          /\ PruneDone
          /\ UNCHANGED pass
       \/ /\ Role \ {"archive"} # {}
          /\ pass' = [phase |-> "list", keep |-> {own, other}, set |-> {}]
          /\ UNCHANGED pub
    /\ UNCHANGED <<now, disk, seeded, up, state, imp, published, crashes>>

\* The newest of them, by createdAt and then by name.
Newest(set, n) ==
    {s \in set : Cardinality({t \in set : \/ created[t] > created[s]
                                          \/ created[t] = created[s] /\ t > s}) < n}

\* retentionPlan: transient is thinned only while an archive is online.
RetainSnapshots(role, archiveOnline) ==
    IF role = "transient" /\ archiveOnline THEN Retained["transient"]
                                           ELSE Retained["standard"]

\* cache.prune lists and reads the manifests.
ListManifests ==
    /\ pass.phase = "list"
    /\ \E role \in Role \ {"archive"}, archiveOnline \in BOOLEAN :
          LET recent == {s \in manifests : now - created[s] < Window}
              kept == pass.keep \cup recent
                        \cup Newest(manifests, RetainSnapshots(role, archiveOnline))
          IN  pass' = [phase |-> "manifests", keep |-> kept \cap manifests,
                       set |-> manifests \ kept]
    /\ UNCHANGED <<now, disk, seeded, up, state, pub, imp, published, crashes>>

RemoveManifests ==
    /\ pass.phase = "manifests"
    /\ manifests' = manifests \ pass.set
    /\ pass' = [pass EXCEPT !.phase = "chunks", !.set = {}]
    /\ UNCHANGED <<now, created, chunks, seeded, up, state, pub, imp, published,
                   crashes>>

\* The chunks on disk by now that none of the kept manifests refers to.
ListChunks ==
    /\ pass.phase = "chunks"
    /\ pass' = [phase |-> "sweep", keep |-> {},
                set |-> chunks \ UNION {ContentOf(s) : s \in pass.keep}]
    /\ UNCHANGED <<now, disk, seeded, up, state, pub, imp, published, crashes>>

RemoveChunks ==
    /\ pass.phase = "sweep"
    /\ chunks' = chunks \ pass.set
    /\ pass' = [phase |-> "frozen", keep |-> {}, set |-> {}]
    /\ UNCHANGED <<now, manifests, created, seeded, up, state, pub, imp, published,
                   crashes>>

\* Mutant of ListReferenced: the chunks of the files are forgotten.
ListReferencedBundles ==
    /\ pass.phase = "frozen"
    /\ pass' = [phase |-> "evict", keep |-> {},
                set |-> UNION {BundleOf[s] : s \in manifests}]
    /\ UNCHANGED <<now, disk, seeded, up, state, pub, imp, published, crashes>>

\* #evictFrozenChunks: the chunks the manifests on disk refer to ...
ListReferenced ==
    /\ pass.phase = "frozen"
    /\ pass' = [phase |-> "evict", keep |-> {},
                set |-> UNION {ContentOf(s) \cup TrashOf[s] : s \in manifests}]
    /\ UNCHANGED <<now, disk, seeded, up, state, pub, imp, published, crashes>>

\* ... and the others are dropped from memory.
EvictFrozenChunks ==
    /\ pass.phase = "evict"
    /\ seeded' = seeded \cap pass.set
    /\ pass' = NotPruning
    /\ PruneDone
    /\ UNCHANGED <<now, disk, up, state, imp, published, crashes>>

-----------------------------------------------------------------------------
\* #acceptHead: the head of the other device is recorded and saved, and its
\* snapshot imported unless it was before.
AcceptHead(s) ==
    /\ up /\ imp = NoImport
    /\ pub.phase # "start"
    /\ s # imported
    /\ other' = s
    /\ UNCHANGED <<own, imported>>
    /\ SaveState
    /\ imp' = [phase |-> "manifest", snap |-> s, need |-> {}]
    /\ UNCHANGED <<now, disk, seeded, up, pub, pass, published, crashes>>

\* The manifest is on disk, or retrieved, made at some earlier time.
RetrieveManifest ==
    /\ imp.phase = "manifest"
    /\ \E createdAt \in 0..now : WriteManifest(imp.snap, createdAt)
    /\ imp' = [imp EXCEPT !.phase = "chunks", !.need = ContentOf(imp.snap)]
    /\ UNCHANGED <<now, chunks, seeded, up, state, pub, pass, published, crashes>>

\* A chunk is on disk, or retrieved and cached; the frozen store then has it too.
RetrieveChunk(c) ==
    /\ imp.phase = "chunks" /\ c \in imp.need
    /\ chunks' = chunks \cup {c}
    /\ seeded' = IF c \in chunks THEN seeded ELSE seeded \cup {c}
    /\ imp' = [imp EXCEPT !.need = @ \ {c}]
    /\ UNCHANGED <<now, manifests, created, up, state, pub, pass, published, crashes>>

\* All is applied, and that is recorded and saved.
ImportDone ==
    /\ imp.phase = "chunks" /\ imp.need = {}
    /\ imported' = imp.snap
    /\ UNCHANGED <<own, other>>
    /\ SaveState
    /\ imp' = NoImport
    /\ UNCHANGED <<now, disk, seeded, up, pub, pass, published, crashes>>

\* Something could not be had: the import is put off.
ImportFails ==
    /\ imp.phase \in {"manifest", "chunks"}
    /\ imp' = NoImport
    /\ UNCHANGED <<now, disk, seeded, up, state, pub, pass, published, crashes>>

Tick ==
    /\ now < MaxTime
    /\ pub = NotPublishing
    /\ now' = now + 1
    /\ UNCHANGED <<disk, seeded, up, state, pub, imp, pass, published, crashes>>

\* The process is killed: what is on disk stays.
Crash ==
    /\ up /\ crashes < MaxCrashes
    /\ crashes' = crashes + 1
    /\ up' = FALSE
    /\ seeded' = {}
    /\ own' = None /\ other' = None /\ imported' = None
    /\ pub' = NotPublishing /\ imp' = NoImport /\ pass' = NotPruning
    /\ UNCHANGED <<now, disk, saved, published>>

Next ==
    \/ Start \/ RehydrateCurrentSnapshots
    \/ \E s \in Own : PublishLocal(s)
    \/ CacheChunks \/ SeedManifest \/ RecordHead
    \/ PruneCache \/ ListManifests \/ RemoveManifests \/ ListChunks \/ RemoveChunks
    \/ ListReferenced \/ EvictFrozenChunks
    \/ \E s \in Foreign : AcceptHead(s)
    \/ RetrieveManifest \/ (\E c \in Chunk : RetrieveChunk(c))
    \/ ImportDone \/ ImportFails
    \/ Tick \/ Crash

Spec == Init /\ [][Next]_vars

-----------------------------------------------------------------------------
(***************************************************************************)
(* Properties.                                                              *)
(***************************************************************************)

Whole(s) == s \in manifests /\ ContentOf(s) \subseteq chunks

\* The snapshot of the own head is whole on disk, during a prune and after a
\* kill too, although a publication does not cache again the chunks of a bundle
\* it takes from the last head's manifest (publishLocal, cache.prune).
OwnHeadIsWhole ==
    /\ own # None => Whole(own)
    /\ saved.own # None => Whole(saved.own)

\* And a started device answers for it: neither a prune nor an eviction, nor an
\* import that shares chunks with it, takes from memory what its head names.
OwnHeadIsSeeded ==
    up /\ own # None /\ pub.phase \notin {"start", "rehydrate"}
        => ContentOf(own) \subseteq seeded

\* README.md:440: "Once retrieved, the new device caches and re-seeds that
\* snapshot too".  The snapshot a device imported last is whole in its cache.
ImportedIsWhole ==
    up /\ imported # None /\ imported = other => Whole(imported)

\* The comment in cache.prune: "another machine may still be fetching its chunks
\* over a slow path".  What was published less than a window ago is whole.
\* Known not to hold (README): content that is published twice.
PublishedStaysWhole ==
    \A s \in Own : (\E t \in published[s] : now - t < Window) => Whole(s)

\* The comment in publishLocal: "every machine mirrors every tombstone, so a
\* deleted file is recoverable anywhere".  The trash that the newest manifest
\* lists can be had from the device that lists it.
\* Known not to hold (README): the prune after a publication.
TombstonesAreKept ==
    up /\ own # None => TrashOf[own] \subseteq chunks \cup seeded

=============================================================================
