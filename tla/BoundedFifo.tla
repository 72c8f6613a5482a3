----------------------------- MODULE BoundedFifo -----------------------------
(***************************************************************************)
(* What a message queue promises: items leave in the order in which their  *)
(* sends took effect, none is lost, made up or delivered twice, and no     *)
(* more than its capacity wait (capacity 0: no limit).  buffer[t] is what  *)
(* the last receive of task t stored.                                      *)
(***************************************************************************)
EXTENDS Naturals, Sequences

CONSTANTS Clients, Queues, Items, Capacity, NoItem

VARIABLES items, buffer

vars == <<items, buffer>>

Init ==
  /\ items = [q \in Queues |-> <<>>]
  /\ buffer = [t \in Clients |-> NoItem]

Send(q, d) ==
  /\ Capacity[q] = 0 \/ Len(items[q]) < Capacity[q]
  /\ items' = [items EXCEPT ![q] = Append(@, d)]
  /\ UNCHANGED buffer

Receive(t, q) ==
  /\ items[q] # <<>>
  /\ items' = [items EXCEPT ![q] = Tail(@)]
  /\ buffer' = [buffer EXCEPT ![t] = Head(items[q])]

Next == \E q \in Queues :
  \/ \E d \in Items : Send(q, d)
  \/ \E t \in Clients : Receive(t, q)

Spec == Init /\ [][Next]_vars
=============================================================================
