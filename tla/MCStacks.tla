------------------------------ MODULE MCStacks ------------------------------
(* An instance of Stacks for TLC: a heap with room for up to three control  *)
(* blocks and a pool with room for three stacks, or two of the larger ones. *)
EXTENDS Stacks

CONSTANTS main, app
=============================================================================
