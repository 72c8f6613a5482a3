---------------------------- MODULE MCUartReceive ----------------------------
(* An instance of UartReceive for TLC: two tasks of equal priority, one      *)
(* that reads the ring and one that polls.                                   *)
EXTENDS UartReceive

MCUserPriority == [t \in 0 .. UserTasks - 1 |-> 2]
=============================================================================
