------------------------------- MODULE MCQueue -------------------------------
(* Instances of Queue for TLC.  Blocks and payloads are interchangeable.     *)
EXTENDS Queue, TLC

MCUserPriority == [t \in 0 .. UserTasks - 1 |-> IF t = 1 THEN 1 ELSE 2]

MCMaxItems == [q \in Queues |-> 2]

MCMaxItemsOne == [q \in Queues |-> 1]

Interchangeable == Permutations(Nodes) \cup Permutations(Items)
=============================================================================
