--------------------------- MODULE MCKindRegistry ---------------------------
(* Instances of KindRegistry for TLC. *)
EXTENDS KindRegistry, TLC

CONSTANTS t1, t2
TwoThreads == {t1, t2}
OneThread == {t1}
Symmetric == Permutations(TwoThreads)
=============================================================================
