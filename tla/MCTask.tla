------------------------------- MODULE MCTask -------------------------------
(* Instances of Task for TLC: three application tasks, two of them of the   *)
(* same, highest priority, beside the idle task.                            *)
EXTENDS Task

MCUserPriority == [t \in 0 .. UserTasks - 1 |-> IF t = 0 THEN 1 ELSE 2]
=============================================================================
