------------------------------- MODULE MCHeap -------------------------------
(* A heap of a few blocks: requests that split a block, take it whole, take  *)
(* none, and need two coalesced neighbours.                                  *)
EXTENDS Heap
=============================================================================
