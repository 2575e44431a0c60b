-------------------------- MODULE MCWatcherService --------------------------
(***************************************************************************)
(* WatcherService for TLC: three processes, the agent, and a command.  That  *)
(* services are replaced is checked where nobody stops them by command.      *)
(***************************************************************************)
EXTENDS WatcherService

AnyCommand == [c \in Caller |-> IF c \in Watchdog THEN {"start"} ELSE {"start", "stop", "restart"}]
NewerUser == [c \in Caller |-> IF c \in Watchdog THEN 1 ELSE 2]

LiveNext == Next /\ command' = None
LiveSpec == Init /\ [][LiveNext]_vars /\ Fairness
=============================================================================
