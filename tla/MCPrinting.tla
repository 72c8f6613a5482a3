----------------------------- MODULE MCPrinting -----------------------------
(* An instance of Printing for TLC: a printer of the lowest priority, two   *)
(* of the highest, and a task between them that computes.                   *)
EXTENDS Printing

MCUserPriority ==
  [t \in 0 .. UserTasks - 1 |-> IF t = 0 THEN 1 ELSE IF t = 1 THEN 2 ELSE 3]
=============================================================================
