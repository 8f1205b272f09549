------------------------------- MODULE MCHeap -------------------------------
(* A heap of 136 bytes that does not start at a multiple of 32; blocks at  *)
(* the size of a list node, just above it, one-byte and over-aligned.    *)
EXTENDS Heap

MCLayouts == {[size |-> 1, align |-> 1], [size |-> 17, align |-> 4], [size |-> 40, align |-> 8], [size |-> 20, align |-> 32]}
=============================================================================
