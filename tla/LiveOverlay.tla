---------------------------- MODULE LiveOverlay -----------------------------
(***************************************************************************)
(* What happens to uncommitted work: src/src/live-workspace.js with the     *)
(* parts of src/src/git.js and of #acceptValidatedHead in                   *)
(* src/src/protocol.js that call it.                                        *)
(*                                                                          *)
(* One file on one branch that every device has checked out.  A text is     *)
(* named by a number: 0 is no file, 1 what the first commit holds, and each *)
(* typing makes the next one.  A device publishes its commits and, when its *)
(* file deviates from HEAD, the file.  An import looks at the file, runs    *)
(* git, and then writes: its user may edit in between.                      *)
(***************************************************************************)
EXTENDS Naturals, FiniteSets, SequencesExt

CONSTANTS
    Device,
    MaxTexts,     \* bound: texts that are typed
    MaxUndos,     \* bound: deletions, reverts and stagings by users
    MaxCommits,   \* bound: commits on a branch, after the first
    MaxCrashes    \* bound: crashes in the middle of an import

ASSUME BoundAssumption ==
    MaxTexts \in Nat /\ MaxUndos \in Nat /\ MaxCommits \in Nat /\ MaxCrashes \in Nat
ASSUME DeviceAssumption == Device # {}

VARIABLES
    tree,        \* the file
    index,       \* the file in git's index
    commits,     \* HEAD: the file in every commit, with who made it
    trash,       \* the quarantine
    copies,      \* [d][e]: the conflict copy of what e sent
    baselines,   \* [d][e]: liveBaselines, {} when there is none
    published,   \* the snapshot that is offered, {} when there is none
    imported,    \* [d][e]: state.imported, {} when there is none
    refs,        \* [d][e]: state.importedRefs, {} when there is none
    import,      \* the import that runs
    lineage,     \* a text and those it was typed over (history)
    forgone,     \* texts a user gave up, or edited away inside an import (history)
    displaced,   \* texts an import has put back and left in a conflict copy (history)
    undos,       \* how many deletions, reverts and stagings there were
    crashes      \* how many crashes there were

files == <<tree, index, commits>>
saved == <<baselines, imported, refs>>
history == <<lineage, forgone, displaced, undos, crashes>>
vars == <<files, trash, copies, published, saved, import, history>>

Absent == 0
First == 1
Text == Absent..(First + MaxTexts)

Optional(S) == {{}} \cup {{x} : x \in S}
Commit == [text : Text, by : SUBSET Device]
Branch == Seq(Commit) \ {<<>>}
Snapshot == [commits : Branch, overlay : Optional(Text)]
Phase == {"prepare", "restore", "merge", "apply", "write"}
Import == [phase : Phase, from : Device, snapshot : Snapshot, seen : Text, taken : Text,
           merged : BOOLEAN, retry : BOOLEAN, before : Optional(Text)]
Idle == [phase |-> "idle"]

HeadText(d) == Last(commits[d]).text                     \* headFile
HasStagedChanges(d) == index[d] # HeadText(d)
IsClean(d) == tree[d] = HeadText(d) /\ ~HasStagedChanges(d)

TypeOK ==
    /\ tree \in [Device -> Text] /\ index \in [Device -> Text]
    /\ commits \in [Device -> Branch]
    /\ trash \in [Device -> SUBSET Text]
    /\ copies \in [Device -> [Device -> Text]]
    /\ baselines \in [Device -> [Device -> Optional(Text)]]
    /\ published \in [Device -> SUBSET Snapshot]
    /\ imported \in [Device -> [Device -> SUBSET Snapshot]]
    /\ refs \in [Device -> [Device -> SUBSET Branch]]
    /\ \A d, e \in Device :
          /\ Cardinality(published[d]) <= 1
          /\ Cardinality(imported[d][e]) <= 1 /\ Cardinality(refs[d][e]) <= 1
    /\ import \in [Device -> Import \cup {Idle}]
    /\ lineage \in [Text -> SUBSET Text]
    /\ forgone \subseteq Text /\ displaced \subseteq Text
    /\ undos \in 0..MaxUndos /\ crashes \in 0..MaxCrashes

Init ==
    /\ tree = [d \in Device |-> First] /\ index = [d \in Device |-> First]
    /\ commits = [d \in Device |-> <<[text |-> First, by |-> {}]>>]
    /\ trash = [d \in Device |-> {}]
    /\ copies = [d \in Device |-> [e \in Device |-> Absent]]
    /\ baselines = [d \in Device |-> [e \in Device |-> {}]]
    /\ published = [d \in Device |-> {}]
    /\ imported = [d \in Device |-> [e \in Device |-> {}]]
    /\ refs = [d \in Device |-> [e \in Device |-> {}]]
    /\ import = [d \in Device |-> Idle]
    /\ lineage = [t \in Text |-> IF t = First THEN {First} ELSE {}]
    /\ forgone = {} /\ displaced = {}
    /\ undos = 0 /\ crashes = 0

-----------------------------------------------------------------------------
(***************************************************************************)
(* Users.                                                                   *)
(***************************************************************************)

\* What a user of d now has is another text; what was there may be given up.
Edit(d, t, given) ==
    /\ tree' = [tree EXCEPT ![d] = t]
    /\ forgone' = forgone \cup given
    /\ UNCHANGED <<commits, trash, copies, published, saved, import, displaced, crashes>>

Type(d) ==
    \E t \in Text \ {Absent} :
        /\ lineage[t] = {} /\ lineage[t - 1] # {}
        /\ lineage' = [lineage EXCEPT ![t] = {t} \cup lineage[tree[d]]]
        /\ Edit(d, t, {})
        /\ UNCHANGED <<index, undos>>

\* The file is deleted, or reverted to what HEAD has.
Undo(d, t) ==
    /\ undos < MaxUndos
    /\ undos' = undos + 1
    /\ t \in {Absent, HeadText(d)} \ {tree[d]}
    /\ Edit(d, t, lineage[tree[d]] \ lineage[t])
    /\ UNCHANGED <<index, lineage>>

\* git add.
Stage(d) ==
    /\ undos < MaxUndos
    /\ undos' = undos + 1
    /\ index[d] # tree[d]
    /\ index' = [index EXCEPT ![d] = tree[d]]
    /\ UNCHANGED <<tree, commits, trash, copies, published, saved, import, lineage,
                   forgone, displaced, crashes>>

\* git commit -a.
CommitAll(d) ==
    /\ tree[d] # HeadText(d)
    /\ Len(commits[d]) <= MaxCommits
    /\ commits' = [commits EXCEPT ![d] = Append(@, [text |-> tree[d], by |-> {d}])]
    /\ index' = [index EXCEPT ![d] = tree[d]]
    /\ UNCHANGED <<tree, trash, copies, published, saved, import, history>>

-----------------------------------------------------------------------------
(***************************************************************************)
(* The session.                                                             *)
(***************************************************************************)

\* What an import has put back to HEAD and has not written again.
TakenAway(d) ==
    IF import[d] = Idle THEN {} ELSE lineage[import[d].taken] \ lineage[tree[d]]

\* publishLocal: the file is listed when it is not what HEAD has.
PublishLocal(d) ==
    LET snapshot == [commits |-> commits[d],
                     overlay |-> {tree[d]} \ {HeadText(d)}]
    IN /\ published[d] # {snapshot}
       /\ published' = [published EXCEPT ![d] = {snapshot}]
       /\ forgone' = forgone \cup TakenAway(d)
       /\ UNCHANGED <<files, trash, copies, saved, import, lineage, displaced, undos, crashes>>

\* #acceptValidatedHead, until everything is retrieved.
Accept(d, e) ==
    /\ d # e /\ import[d] = Idle
    /\ imported[d][e] # published[e]
    /\ \E snapshot \in published[e] :
          import' = [import EXCEPT ![d] =
              [phase |-> "prepare", from |-> e, snapshot |-> snapshot, seen |-> Absent,
               taken |-> Absent, merged |-> FALSE, retry |-> FALSE, before |-> baselines[d][e]]]
    /\ UNCHANGED <<files, trash, copies, published, saved, history>>

Proceed(d, phase) ==
    import' = [import EXCEPT ![d].phase = phase]

\* The file is not as the peer of the import has last sent it.
IsMine(d) == tree[d] \notin baselines[d][import[d].from] \/ HasStagedChanges(d)

\* prepare() looks at a file this peer has sent before, when it sends none now
\* or other commits.  It is left alone when it is not as received.
PrepareLooks(d) ==
    LET e == import[d].from
        s == import[d].snapshot
        target == baselines[d][e] # {} /\ (refs[d][e] # {s.commits} \/ s.overlay = {})
    IN /\ import[d].phase = "prepare"
       /\ \/ /\ target /\ ~IsMine(d) /\ tree[d] # HeadText(d)
             /\ import' = [import EXCEPT ![d].phase = "restore", ![d].seen = tree[d]]
             /\ UNCHANGED baselines
          \/ /\ target /\ ~IsMine(d) /\ tree[d] = HeadText(d)
             /\ Proceed(d, "merge")
             /\ baselines' = [baselines EXCEPT ![d][e] = {}]
          \/ /\ ~target \/ IsMine(d)
             /\ Proceed(d, "merge")
             /\ UNCHANGED baselines
    /\ UNCHANGED <<files, trash, copies, published, imported, refs, history>>

\* The file becomes t, and what a user has put there since it was looked at is
\* gone; the quarantine keeps what t takes away when that is no file.
Replace(d, t) ==
    /\ tree' = [tree EXCEPT ![d] = t]
    /\ \/ /\ t = Absent
          /\ trash' = [trash EXCEPT ![d] = @ \cup ({tree[d]} \ {Absent})]
          /\ UNCHANGED forgone
       \/ /\ t # Absent
          /\ forgone' = IF tree[d] = import[d].seen THEN forgone
                        ELSE forgone \cup (lineage[tree[d]] \ lineage[t])
          /\ UNCHANGED trash

\* and puts back what HEAD has: nothing, or what is in the index.
PrepareRestores(d) ==
    /\ import[d].phase = "restore"
    /\ Replace(d, IF HeadText(d) = Absent THEN Absent ELSE index[d])
    /\ baselines' = [baselines EXCEPT ![d][import[d].from] = {}]
    /\ import' = [import EXCEPT ![d].phase = "merge", ![d].taken = tree[d]]
    /\ UNCHANGED <<index, commits, copies, published, imported, refs, lineage,
                   displaced, undos, crashes>>

\* importBundle: the branch moves forward when the checkout is clean.
ImportBundle(d) ==
    LET theirs == import[d].snapshot.commits
        ahead == commits[d] # theirs /\ IsPrefix(commits[d], theirs)
        Goes(merged, retry) ==
            import' = [import EXCEPT ![d].phase = "apply", ![d].merged = merged,
                                     ![d].retry = retry]
    IN /\ import[d].phase = "merge"
       /\ \/ /\ IsPrefix(theirs, commits[d])
             /\ Goes(TRUE, FALSE)
             /\ UNCHANGED files
          \/ /\ ahead /\ IsClean(d)
             /\ commits' = [commits EXCEPT ![d] = theirs]
             /\ tree' = [tree EXCEPT ![d] = Last(theirs).text]
             /\ index' = [index EXCEPT ![d] = Last(theirs).text]
             /\ Goes(TRUE, FALSE)
          \/ /\ ahead /\ ~IsClean(d)
             /\ Goes(FALSE, TRUE)
             /\ UNCHANGED files
          \/ /\ ~ahead /\ ~IsPrefix(theirs, commits[d])
             /\ Goes(FALSE, FALSE)
             /\ UNCHANGED files
       /\ UNCHANGED <<trash, copies, published, saved, history>>

\* The end of #acceptValidatedHead.
Finish(d) ==
    LET e == import[d].from
        s == import[d].snapshot
    IN /\ imported' = IF import[d].retry THEN imported
                      ELSE [imported EXCEPT ![d][e] = {s}]
       /\ refs' = IF import[d].merged THEN [refs EXCEPT ![d][e] = {s.commits}] ELSE refs
       /\ import' = [import EXCEPT ![d] = Idle]

\* Mutant of Safe: whatever this peer has sent before may be replaced.
SafeOnce(d, next) ==
    \/ tree[d] = next
    \/ ~HasStagedChanges(d) /\ tree[d] = Last(import[d].snapshot.commits).text
    \/ baselines[d][import[d].from] # {}

\* May what the peer sends replace the file?  (cleanHead adds nothing: a file
\* without changes that HEAD has is what HEAD has.)
Safe(d, next) ==
    \/ tree[d] = next
    \/ ~HasStagedChanges(d) /\ tree[d] = Last(import[d].snapshot.commits).text
    \/ tree[d] \in baselines[d][import[d].from]

\* Mutant of WriteConflict: no copy of the first text of a peer.
WriteConflictAgain(d, e, next) ==
    copies' = IF next = Absent \/ baselines[d][e] = {} THEN copies
              ELSE [copies EXCEPT ![d][e] = next]

\* #writeConflict; of a deletion there is only a mark.
WriteConflict(d, e, next) ==
    copies' = IF next = Absent THEN copies ELSE [copies EXCEPT ![d][e] = next]

\* apply() looks at the file: nothing to do, nothing to write, a conflict whose
\* copy replaces the last one of this peer, or something to write.
ApplyLooks(d) ==
    LET e == import[d].from
        s == import[d].snapshot
    IN /\ import[d].phase = "apply"
       /\ \/ /\ s.overlay = {}
             /\ Finish(d)
             /\ UNCHANGED <<copies, baselines, displaced>>
          \/ \E next \in s.overlay :
                /\ Safe(d, next) /\ tree[d] = next
                /\ baselines' = [baselines EXCEPT ![d][e] = {next}]
                /\ Finish(d)
                /\ UNCHANGED <<copies, displaced>>
          \/ \E next \in s.overlay :
                /\ ~Safe(d, next)
                /\ WriteConflict(d, e, next)
                /\ displaced' = displaced \cup TakenAway(d)
                /\ baselines' = [baselines EXCEPT ![d][e] = {next}]
                /\ Finish(d)
          \/ \E next \in s.overlay :
                /\ Safe(d, next) /\ tree[d] # next
                /\ import' = [import EXCEPT ![d].phase = "write", ![d].seen = tree[d]]
                /\ UNCHANGED <<copies, baselines, imported, refs, displaced>>
       /\ UNCHANGED <<files, trash, published, lineage, forgone, undos, crashes>>

\* Mutant of ApplyWrites: what was received before stays a baseline.
ApplyWritesToo(d) ==
    \E next \in Text :
        /\ import[d].phase = "write" /\ next \in import[d].snapshot.overlay
        /\ Replace(d, next)
        /\ baselines' = [baselines EXCEPT ![d][import[d].from] = @ \cup {next}]
        /\ Finish(d)
        /\ UNCHANGED <<index, commits, copies, published, lineage, displaced, undos, crashes>>

\* and writes it, or moves it to the quarantine.
ApplyWrites(d) ==
    \E next \in Text :
        /\ import[d].phase = "write" /\ next \in import[d].snapshot.overlay
        /\ Replace(d, next)
        /\ baselines' = [baselines EXCEPT ![d][import[d].from] = {next}]
        /\ Finish(d)
        /\ UNCHANGED <<index, commits, copies, published, lineage, displaced, undos, crashes>>

\* The process dies in an import.  The baselines are saved with its end.
Crash(d) ==
    /\ import[d] # Idle
    /\ crashes < MaxCrashes
    /\ crashes' = crashes + 1
    /\ baselines' = [baselines EXCEPT ![d][import[d].from] = import[d].before]
    /\ import' = [import EXCEPT ![d] = Idle]
    /\ forgone' = forgone \cup TakenAway(d)
    /\ UNCHANGED <<files, trash, copies, published, imported, refs, lineage, displaced,
                   undos>>

Session(d) ==
    \/ PublishLocal(d) \/ \E e \in Device : Accept(d, e)
    \/ PrepareLooks(d) \/ PrepareRestores(d) \/ ImportBundle(d)
    \/ ApplyLooks(d) \/ ApplyWrites(d)

Next ==
    \E d \in Device :
        \/ Type(d) \/ (\E t \in Text : Undo(d, t)) \/ Stage(d) \/ CommitAll(d)
        \/ Session(d) \/ Crash(d)

Spec == Init /\ [][Next]_vars

\* Changes are published, and imports run to their end.
FairSpec ==
    /\ Spec
    /\ \A d \in Device :
          /\ WF_vars(PublishLocal(d))
          /\ \A e \in Device : SF_vars(Accept(d, e))
          /\ WF_vars(PrepareLooks(d) \/ PrepareRestores(d) \/ ImportBundle(d)
                        \/ ApplyLooks(d) \/ ApplyWrites(d))

-----------------------------------------------------------------------------
(***************************************************************************)
(* Properties.                                                              *)
(***************************************************************************)

\* The texts that a device shows, has committed or quarantined, or is importing.
Kept(d) ==
    {tree[d]} \cup trash[d] \cup {commits[d][i].text : i \in DOMAIN commits[d]}
        \cup (IF import[d] = Idle THEN {} ELSE import[d].snapshot.overlay)

\* Everything that was typed is still kept on some device, itself or a text typed over
\* it, and not just staged or in a conflict copy, unless it was given up in one of four
\* ways: its user deleted or reverted it; it was typed inside an import, between the
\* look at the file and the write; an import had put the file back to HEAD, and before
\* it wrote the text again the session published or crashed; or the file was edited
\* then, so that the text stays in a conflict copy, which the next one replaces.
NothingIsLost ==
    \A t \in Text : lineage[t] # {} /\ t \notin forgone \cup displaced =>
        \E d \in Device : \E k \in Kept(d) : t \in lineage[k]

\* docs/PROTOCOL.md: "Concurrent local edits are never overwritten".  What an
\* import replaces is what it looked at.
EditsAreKept ==
    [][\A d \in Device :
          ApplyWrites(d) \/ PrepareRestores(d) => tree[d] = import[d].seen]_vars

\* d does not take the commits of e: the branches have diverged, or d has changes
\* of its own that are not committed.
Holds(d, e) ==
    /\ ~IsPrefix(commits[e], commits[d])
    /\ IsPrefix(commits[d], commits[e]) => ~IsClean(d)

\* Two devices may end up with different files: one has the other's as a conflict
\* copy, or does not take its commits.
MayDiffer(d, e) == copies[d][e] # Absent \/ Holds(d, e)

\* Once the users are done the files come to rest, and are the same everywhere
\* but for conflicts that are kept, provided nothing was given up: a revert that
\* crosses the other device's copy, or a snapshot taken inside an import, has
\* the devices hand two texts to and fro for ever (baselines say what a peer
\* sent last, never which text is the newer).
FilesAgree ==
    \/ <>(forgone # {})
    \/ <>[](\A d, e \in Device : tree[d] = tree[e] \/ MayDiffer(d, e)
                                                    \/ MayDiffer(e, d))
=============================================================================
