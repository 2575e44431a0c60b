---------------------------- MODULE DurableStore ----------------------------
(***************************************************************************)
(* What PersistentStore of src/src/native-storage.js promises of the records *)
(* and their file, without timers, flushes, promises or writes in flight:    *)
(* the file moves on, to something the records have been since; and a kill   *)
(* takes the records back to exactly what the file has.                      *)
(***************************************************************************)
EXTENDS Naturals

VARIABLES
    memory,   \* the changes the records have seen
    file      \* the changes the file has seen

vars == <<memory, file>>

Init == memory = 0 /\ file = 0

\* A record is changed in memory.
Alter == memory' = memory + 1 /\ UNCHANGED file

\* The file takes in some of the changes it lacks.
Save == file' \in (file + 1)..memory /\ UNCHANGED memory

\* The process ends, and the next one reads the file.
Lose == memory' = file /\ UNCHANGED file

Next == Alter \/ Save \/ Lose

Spec == Init /\ [][Next]_vars
=============================================================================
