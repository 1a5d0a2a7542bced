--------------------------- MODULE MCLocklessQueue ---------------------------
(* Instances of LocklessQueue for TLC. *)
EXTENDS LocklessQueue, TLC

CONSTANTS w1, w2, w3

WriterSymmetry == Permutations(Writers)
=============================================================================
