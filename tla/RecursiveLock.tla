---------------------------- MODULE RecursiveLock ----------------------------
(***************************************************************************)
(* What a recursive mutex promises to its clients, whoever schedules them: *)
(* depth[t][m] is the number of takes of m that have returned to t less    *)
(* the gives t has called.  At most one client has taken a lock; the same  *)
(* client may take it again, and it is free after as many gives.           *)
(***************************************************************************)
EXTENDS Naturals

CONSTANTS Clients, Locks

VARIABLE depth

Init == depth = [t \in Clients |-> [m \in Locks |-> 0]]

Take(t, m) ==
  /\ \A u \in Clients \ {t} : depth[u][m] = 0
  /\ depth' = [depth EXCEPT ![t][m] = @ + 1]

Give(t, m) ==
  /\ depth[t][m] > 0
  /\ depth' = [depth EXCEPT ![t][m] = @ - 1]

Next == \E t \in Clients, m \in Locks : Take(t, m) \/ Give(t, m)

Spec == Init /\ [][Next]_depth
=============================================================================
