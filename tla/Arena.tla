-------------------------------- MODULE Arena --------------------------------
(***************************************************************************)
(* What an allocator promises: each client holds regions [at, len] of one  *)
(* arena, and no two regions overlap, whoever holds them.                  *)
(***************************************************************************)
EXTENDS Naturals

CONSTANTS Clients, ArenaSize

VARIABLE regions

Cells(r) == r.at .. r.at + r.len - 1

Held == UNION { regions[c] : c \in Clients }

Init == regions = [c \in Clients |-> {}]

Alloc(c) == \E at \in 0 .. ArenaSize : \E len \in 0 .. ArenaSize - at :
  LET new == [at |-> at, len |-> len]
  IN  /\ regions' = [regions EXCEPT ![c] = @ \cup {new}]
      /\ \A r \in Held : r.at # at /\ Cells(r) \cap Cells(new) = {}

Free(c) == \E r \in regions[c] : regions' = [regions EXCEPT ![c] = @ \ {r}]

Next == \E c \in Clients : Alloc(c) \/ Free(c)

Spec == Init /\ [][Next]_regions
=============================================================================
