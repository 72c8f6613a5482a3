------------------------------- MODULE MCTimer -------------------------------
(* An instance of Timer for TLC: a one-shot timer, a periodic one, and one   *)
(* that finds the table full.                                                *)
EXTENDS Timer

CONSTANTS one_shot, periodic, dropped

MCCreated == <<one_shot, periodic, dropped>>

MCPeriod ==
  [t \in Timers |-> IF t = one_shot THEN 3 ELSE IF t = periodic THEN 2 ELSE 1]

MCRepeating == [t \in Timers |-> t = periodic]
=============================================================================
