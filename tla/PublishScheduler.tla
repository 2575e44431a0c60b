-------------------------- MODULE PublishScheduler --------------------------
(***************************************************************************)
(* What makes a running session publish (startSession in src/src/cli.js):   *)
(* activate() publishes once and then watches the repository; a change      *)
(* arms a timer, the timer calls publishChanges(), and that compares the    *)
(* digest of the repository with the one it published for.  While the       *)
(* filesystem watcher is not there, an interval calls publishChanges.       *)
(*                                                                          *)
(* Each read of the repository is a step of its own, since somebody may     *)
(* edit it between two of them.  publishLocal is the subject of HeadSync:   *)
(* here it is one read, and the head names what it read.                    *)
(***************************************************************************)
EXTENDS Naturals

CONSTANTS
    Content,     \* what the repository may contain
    MaxEdits,    \* bound: changes of the content
    MaxCloses    \* bound: how often the session is closed, and started again

ASSUME BoundAssumption == MaxEdits \in Nat /\ MaxCloses \in Nat

VARIABLES
    content,         \* what the repository contains
    head,            \* what the own head names
    mode,            \* where activate() is
    previousDigest,  \* previousDigest
    pub,             \* what publishChanges() is doing, and its nextDigest
    watcher,         \* is there a filesystemWatcher?
    event,           \* does it have an event to deliver?
    changeTimer,     \* is changeTimer set?
    retryTimer,      \* is watcherRetryTimer set?
    polling,         \* is watcherFallbackTimer set?
    polled,          \* has it fired since the last attempt to watch?
    lost,            \* how a change was missed, while it is (history)
    edits,           \* how often the content changed
    closes           \* how often the session was closed

watchVars == <<watcher, event, retryTimer, polling, polled>>
vars == <<content, head, mode, previousDigest, pub, watchVars, changeTimer, lost,
          edits, closes>>

None == "none"
Digest == Content \cup {None}
Idle == [phase |-> "idle", next |-> None]
Reason == {"start", "busy", "unchanged", "failed", "unwatched"}

TypeOK ==
    /\ content \in Content
    /\ head \in Digest
    /\ mode \in {"down", "publish", "digest", "watch", "started"}
    /\ previousDigest \in Digest
    /\ pub \in [phase : {"idle", "digest", "publish", "record", "share"},
               next : Digest]
    /\ watcher \in BOOLEAN /\ event \in BOOLEAN
    /\ changeTimer \in BOOLEAN /\ retryTimer \in BOOLEAN
    /\ polling \in BOOLEAN /\ polled \in BOOLEAN
    /\ lost \subseteq Reason
    /\ edits \in Nat /\ closes \in Nat

Init ==
    /\ content \in Content
    /\ head = None
    /\ mode = "down"
    /\ previousDigest = None
    /\ pub = Idle
    /\ watcher = FALSE /\ event = FALSE
    /\ changeTimer = FALSE /\ retryTimer = FALSE
    /\ polling = FALSE /\ polled = FALSE
    /\ lost = {}
    /\ edits = 0 /\ closes = 0

-----------------------------------------------------------------------------
\* Somebody edits the repository; a watcher has that to tell.
Edit(c) ==
    /\ edits < MaxEdits
    /\ c # content
    /\ content' = c
    /\ edits' = edits + 1
    /\ event' = (event \/ watcher)
    /\ UNCHANGED <<head, mode, previousDigest, pub, watcher, changeTimer, retryTimer,
                   polling, polled, lost, closes>>

\* activate(), and again when a peer connects after it threw.
Activate ==
    /\ mode = "down"
    /\ mode' = "publish"
    /\ UNCHANGED <<content, head, previousDigest, pub, watchVars, changeTimer, lost,
                   edits, closes>>

\* synchronizer.start() publishes.
StartPublishes ==
    /\ mode = "publish"
    /\ head' = content
    /\ mode' = "digest"
    /\ lost' = {}
    /\ UNCHANGED <<content, previousDigest, pub, watchVars, changeTimer, edits, closes>>

StartThrows ==
    /\ mode = "publish"
    /\ closes < MaxCloses
    /\ closes' = closes + 1
    /\ mode' = "down"
    /\ UNCHANGED <<content, head, previousDigest, pub, watchVars, changeTimer, lost,
                   edits>>

\* The digest to compare with is read again, after that.
ReadStartDigest ==
    /\ mode = "digest"
    /\ previousDigest' = content
    /\ mode' = "watch"
    /\ UNCHANGED <<content, head, pub, watchVars, changeTimer, lost, edits, closes>>

\* Mutant of ScheduleWatcherRetry: no polling until the first retry.
ScheduleRetryOnly ==
    /\ retryTimer' = TRUE
    /\ polled' = FALSE
    /\ UNCHANGED polling

\* scheduleWatcherRetry.
ScheduleWatcherRetry ==
    /\ retryTimer' = TRUE
    /\ polling' = TRUE
    /\ polled' = FALSE

\* startFilesystemWatcher: there is one from now on, and no polling; or it
\* failed to start.  What changed before is not looked at.
StartFilesystemWatcher(reason) ==
    /\ event' = FALSE
    /\ \/ /\ watcher' = TRUE
          /\ retryTimer' = FALSE /\ polling' = FALSE /\ polled' = FALSE
          /\ lost' = IF head # content /\ pub.phase \notin {"digest", "publish"}
                        /\ ~changeTimer
                     THEN lost \cup {reason} ELSE lost
       \/ /\ watcher' = FALSE
          /\ ScheduleWatcherRetry
          /\ UNCHANGED lost

StartDone ==
    /\ mode = "watch"
    /\ mode' = "started"
    /\ StartFilesystemWatcher("start")
    /\ UNCHANGED <<content, head, previousDigest, pub, changeTimer, edits, closes>>

-----------------------------------------------------------------------------
\* Mutant of FilesystemChanged: what is told during a publication is ignored.
FilesystemChangedUnlessBusy ==
    /\ watcher /\ event
    /\ event' = FALSE
    /\ changeTimer' = (changeTimer \/ pub.phase = "idle")
    /\ UNCHANGED <<content, head, mode, previousDigest, pub, watcher, retryTimer,
                   polling, polled, lost, edits, closes>>

\* The watcher tells of a change, and schedulePublish sets the timer anew.
FilesystemChanged ==
    /\ watcher /\ event
    /\ event' = FALSE
    /\ changeTimer' = TRUE
    /\ UNCHANGED <<content, head, mode, previousDigest, pub, watcher, retryTimer,
                   polling, polled, lost, edits, closes>>

\* publishChanges() begins, unless one is under way: then the call is dropped,
\* which loses what that one has read too early.
PublishChanges ==
    \/ /\ pub.phase = "idle"
       /\ pub' = [phase |-> "digest", next |-> None]
       /\ UNCHANGED lost
    \/ /\ pub.phase # "idle"
       /\ lost' = IF pub.phase \in {"record", "share"} /\ head # content
                  THEN lost \cup {"busy"} ELSE lost
       /\ UNCHANGED pub

TimerFires ==
    /\ changeTimer
    /\ changeTimer' = FALSE
    /\ PublishChanges
    /\ UNCHANGED <<content, head, mode, previousDigest, watchVars, edits, closes>>

PollFires ==
    /\ polling
    /\ polled' = TRUE
    /\ PublishChanges
    /\ UNCHANGED <<content, head, mode, previousDigest, watcher, event, changeTimer,
                   retryTimer, polling, edits, closes>>

\* publishChanges reads the digest; there is nothing to do when it is the one
\* published for.
ReadDigest ==
    /\ pub.phase = "digest"
    /\ \/ /\ content = previousDigest
          /\ pub' = Idle
          /\ lost' = IF head # content THEN lost \cup {"unchanged"} ELSE lost
       \/ /\ content # previousDigest
          /\ pub' = [phase |-> "publish", next |-> content]
          /\ UNCHANGED lost
    /\ UNCHANGED <<content, head, mode, previousDigest, watchVars, changeTimer, edits,
                   closes>>

\* publishLocal reads the repository itself.
PublishLocal ==
    /\ pub.phase = "publish"
    /\ head' = content
    /\ lost' = {}
    /\ pub' = [pub EXCEPT !.phase = "record"]
    /\ UNCHANGED <<content, mode, previousDigest, watchVars, changeTimer, edits, closes>>

\* It throws: that is logged.
PublishFails ==
    /\ pub.phase = "publish"
    /\ pub' = Idle
    /\ lost' = IF head # content THEN lost \cup {"failed"} ELSE lost
    /\ UNCHANGED <<content, head, mode, previousDigest, watchVars, changeTimer, edits,
                   closes>>

RecordDigest ==
    /\ pub.phase = "record"
    /\ previousDigest' = pub.next
    /\ pub' = [pub EXCEPT !.phase = "share"]
    /\ UNCHANGED <<content, head, mode, watchVars, changeTimer, lost, edits, closes>>

\* The commits have gone to the share room too.
ShareDone ==
    /\ pub.phase = "share"
    /\ pub' = Idle
    /\ UNCHANGED <<content, head, mode, previousDigest, watchVars, changeTimer, lost,
                   edits, closes>>

-----------------------------------------------------------------------------
\* The watcher dies, and what it had to tell may go with it.
WatcherDies ==
    /\ watcher
    /\ watcher' = FALSE
    /\ event' = FALSE
    /\ ScheduleWatcherRetry
    /\ UNCHANGED <<content, head, mode, previousDigest, pub, changeTimer, lost, edits,
                   closes>>

\* The retry timer is as slow as the polling, or slower.
RetryWatcher ==
    /\ retryTimer /\ polled
    /\ StartFilesystemWatcher("unwatched")
    /\ UNCHANGED <<content, head, mode, previousDigest, pub, changeTimer, edits, closes>>

\* The session is closed when publishChanges is done, and begins anew.
Close ==
    /\ mode = "started" /\ pub.phase = "idle"
    /\ closes < MaxCloses
    /\ closes' = closes + 1
    /\ mode' = "down"
    /\ previousDigest' = None
    /\ watcher' = FALSE /\ event' = FALSE /\ changeTimer' = FALSE
    /\ retryTimer' = FALSE /\ polling' = FALSE /\ polled' = FALSE
    /\ UNCHANGED <<content, head, pub, lost, edits>>

Next ==
    \/ \E c \in Content : Edit(c)
    \/ Activate \/ StartPublishes \/ StartThrows \/ ReadStartDigest \/ StartDone
    \/ FilesystemChanged \/ TimerFires \/ PollFires
    \/ ReadDigest \/ PublishLocal \/ PublishFails \/ RecordDigest \/ ShareDone
    \/ WatcherDies \/ RetryWatcher \/ Close

Spec == Init /\ [][Next]_vars

-----------------------------------------------------------------------------
(***************************************************************************)
(* Properties.                                                              *)
(***************************************************************************)

\* The comment above startFallbackPolling: "A repository must NEVER silently
\* lose change detection".  A started session watches, or polls and is going to
\* watch again, however creations, errors and retries follow each other.
WatchesOrPolls ==
    mode = "started" => IF watcher THEN ~polling /\ ~retryTimer
                                   ELSE polling /\ retryTimer

\* A change the head does not name is on its way to publishChanges (an event, a
\* timer, the polling, a call that has yet to read), or was missed in one of
\* five ways: it came while the session was starting; its timer fired at a
\* publication that had read before; the digest was that of the last comparison
\* although something else is published; its publication failed; it came while
\* nothing watched, after the last poll.
MissedOnlyThus ==
    \/ head = content \/ lost # {}
    \/ mode # "started"
    \/ event \/ changeTimer \/ polling
    \/ pub.phase \in {"digest", "publish"}

\* What is on its way arrives: while the session is up, the head ends up naming the
\* content, or one of the five has happened since the last publication.
PublishedUnlessMissed == <>[](head = content \/ lost # {} \/ mode = "down")

\* None of the five should happen: once the repository changes no more, the
\* head ends up naming its content.
\* Known not to hold (README): the five ways of MissedOnlyThus.
EditsArePublished == <>[](head = content)

=============================================================================
