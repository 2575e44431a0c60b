---------------------------- MODULE NativeStorage ----------------------------
(***************************************************************************)
(* PersistentStore of src/src/native-storage.js: the records PeerPigeon     *)
(* keeps, in memory, and the file they are flushed to after a pause.        *)
(*                                                                          *)
(* The records are as old as the number of changes they have seen; a change *)
(* of the ephemeral space is none.  A flush is called by the debounce       *)
(* timer, by a database being closed, and by flushNativeStorage.  A write   *)
(* is a temporary file that is renamed, so two could run at once and land   *)
(* in any order.  What follows the await of a promise that is settled       *)
(* already runs before anything else does.                                  *)
(***************************************************************************)
EXTENDS Naturals

CONSTANTS
    MaxChanges,    \* bound: changes of the records
    MaxWaiting,    \* bound: calls of flush that wait at one time
    MaxFailures,   \* bound: writes that fail
    MaxKills       \* bound: kills of the process

ASSUME StoreBoundAssumption ==
    /\ MaxChanges \in Nat /\ MaxWaiting \in Nat
    /\ MaxFailures \in Nat /\ MaxKills \in Nat

VARIABLES
    records,    \* the changes the records in memory have seen
    disk,       \* the changes the file has seen
    dirty,      \* this.dirty
    flushTimer, \* is this.flushTimer set?
    writes,     \* the writes that are running, by what they write
    flushing,   \* this.flushing: none yet, or how the last write stands
    waiting,    \* how many calls of flush await it
    changes,    \* how many changes there were
    failures,   \* how many writes failed
    kills       \* how many kills there were

storeVars == <<records, disk, dirty, flushTimer, writes, flushing, waiting, changes,
          failures, kills>>

StoreTypeOK ==
    /\ records \in Nat /\ disk \in Nat
    /\ dirty \in BOOLEAN /\ flushTimer \in BOOLEAN
    /\ writes \subseteq Nat
    /\ flushing \in {"none", "running", "written", "failed"}
    /\ waiting \in Nat
    /\ changes \in Nat /\ failures \in Nat /\ kills \in Nat

StoreInit ==
    /\ records = 0 /\ disk = 0
    /\ dirty = FALSE /\ flushTimer = FALSE
    /\ writes = {} /\ flushing = "none" /\ waiting = 0
    /\ changes = 0 /\ failures = 0 /\ kills = 0

-----------------------------------------------------------------------------
\* put or delete of a durable record, with schedule().
Change ==
    /\ changes < MaxChanges
    /\ changes' = changes + 1
    /\ records' = records + 1
    /\ dirty' = TRUE
    /\ flushTimer' = TRUE
    /\ UNCHANGED <<disk, writes, flushing, waiting, failures, kills>>

\* What flush() does when there is nothing to wait for.
BeginWrite ==
    /\ dirty' = FALSE
    /\ writes' = writes \cup {records}
    /\ flushing' = "running"

\* Mutant of Flush: the write that is running is not awaited.
FlushAtOnce ==
    \/ dirty /\ BeginWrite /\ UNCHANGED waiting
    \/ ~dirty /\ UNCHANGED <<dirty, writes, flushing, waiting>>

\* flush(), up to where it awaits.  this.flushing is never reset: its finally
\* compares it with another promise, so every later call awaits the last write,
\* and throws when that one failed.
Flush ==
    \/ /\ flushing = "running"
       /\ waiting < MaxWaiting
       /\ waiting' = waiting + 1
       /\ UNCHANGED <<dirty, writes, flushing>>
    \/ /\ flushing = "failed" \/ (flushing # "running" /\ ~dirty)
       /\ UNCHANGED <<dirty, writes, flushing, waiting>>
    \/ /\ flushing \in {"none", "written"} /\ dirty
       /\ BeginWrite
       /\ UNCHANGED waiting

FlushTimerFires ==
    /\ flushTimer
    /\ flushTimer' = FALSE
    /\ Flush
    /\ UNCHANGED <<records, disk, changes, failures, kills>>

\* ShimDatabase.close and flushNativeStorage.
FlushNow ==
    /\ Flush
    /\ UNCHANGED <<records, disk, flushTimer, changes, failures, kills>>

\* Mutant of WriteLands: the calls that waited do not look at dirty again.
WriteLandsForAll(w) ==
    /\ w \in writes
    /\ disk' = w
    /\ writes' = writes \ {w}
    /\ flushing' = "written"
    /\ waiting' = 0
    /\ UNCHANGED <<records, dirty, flushTimer, changes, failures, kills>>

\* Mutant of WriteLands: each write serves one call that waited.
WriteLandsForOne(w) ==
    /\ w \in writes
    /\ disk' = w
    /\ writes' = writes \ {w}
    /\ flushing' = "written"
    /\ waiting' = waiting - 1
    /\ UNCHANGED <<records, dirty, flushTimer, changes, failures, kills>>

\* A write is renamed into place.  Of the calls that waited the first goes on
\* to write what is dirty by now; the others find nothing dirty and return.
WriteLands(w) ==
    /\ w \in writes
    /\ disk' = w
    /\ waiting' = 0
    /\ \/ /\ dirty /\ waiting > 0
          /\ dirty' = FALSE
          /\ writes' = (writes \ {w}) \cup {records}
          /\ UNCHANGED flushing
       \/ /\ ~dirty \/ waiting = 0
          /\ writes' = writes \ {w}
          /\ flushing' = "written"
          /\ UNCHANGED dirty
    /\ UNCHANGED <<records, flushTimer, changes, failures, kills>>

\* A write fails, and with it every call that awaits it.
WriteFails(w) ==
    /\ w \in writes
    /\ failures < MaxFailures
    /\ failures' = failures + 1
    /\ writes' = writes \ {w}
    /\ flushing' = "failed"
    /\ waiting' = 0
    /\ UNCHANGED <<records, disk, dirty, flushTimer, changes, kills>>

\* The process is killed, and the next one opens the file.
Kill ==
    /\ kills < MaxKills
    /\ kills' = kills + 1
    /\ records' = disk
    /\ dirty' = FALSE /\ flushTimer' = FALSE
    /\ writes' = {} /\ flushing' = "none" /\ waiting' = 0
    /\ UNCHANGED <<disk, changes, failures>>

StoreNext ==
    \/ Change \/ FlushTimerFires \/ FlushNow \/ Kill
    \/ \E w \in writes : WriteLands(w) \/ WriteFails(w)

StoreSpec == StoreInit /\ [][StoreNext]_storeVars

-----------------------------------------------------------------------------
(***************************************************************************)
(* Properties.                                                              *)
(***************************************************************************)

\* What DurableStore promises: the file only moves on, to what the records have been, and
\* a kill loses what it lacks and nothing else.  Flushes that overlap, from the timer and
\* from a database being closed, never let an older write land over a newer one (flush,
\* whose calls await each other, and open).
Store == INSTANCE DurableStore WITH memory <- records, file <- disk
StoresDurably == Store!Spec

\* No change is forgotten: what the file lacks is being written, or will be by
\* a timer that is set or a call that waits, unless a write has failed (schedule
\* and flush set and clear dirty, the timer and the promise separately).
ChangesArePending ==
    records = disk \/ flushing = "failed" \/ records \in writes
        \/ (dirty /\ (flushTimer \/ waiting > 0))

\* And it arrives: with no failed write the file catches up, again and again.
DiskCatchesUp == []<>(records = disk \/ flushing = "failed")

\* The comment in schedule(): after a flush that failed "the next mutation
\* retries".  A change that comes after a failed write reaches the file.
\* Known not to hold (README): this.flushing stays the failed promise.
MutationRetries ==
    \A n \in 1..MaxChanges :
        (flushing = "failed" /\ dirty /\ flushTimer /\ records = n) ~> (disk >= n)

=============================================================================
