------------------------------- MODULE MCMutex -------------------------------
(* Instances of Mutex for TLC: three application tasks of three priorities. *)
EXTENDS Mutex

MCUserPriority == [t \in 0 .. UserTasks - 1 |-> t + 1]
=============================================================================
