--------------------------- MODULE MCSlabAllocator ---------------------------
(* Instances of SlabAllocator for TLC. *)
EXTENDS SlabAllocator

CONSTANTS t1, t2, t3

ThreadSymmetry == Permutations(Threads)
=============================================================================
