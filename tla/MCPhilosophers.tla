--------------------------- MODULE MCPhilosophers ---------------------------
(* An instance of Philosophers for TLC: main()'s priorities and forks for   *)
(* NUM_PHILOSOPHER philosophers.                                            *)
EXTENDS Philosophers

MCUserPriority == [t \in 0 .. UserTasks - 1 |-> t + 2]

MCForks == 0 .. NUM_PHILOSOPHER - 1
=============================================================================
