----------------------------- MODULE MCSemaphore -----------------------------
(* Instances of Semaphore for TLC: s1 is a pool that starts full and that   *)
(* tasks give back, s2 starts empty and is given by a timer callback.       *)
EXTENDS Semaphore

CONSTANTS s1, s2

MCUserPriority == [t \in 0 .. UserTasks - 1 |-> IF t = 2 THEN 2 ELSE 1]

MCInitialCount == [s \in Semaphores |-> IF s = s1 THEN 2 ELSE 0]

MCMaxCount == [s \in Semaphores |-> IF s = s1 THEN 2 ELSE 1]
=============================================================================
