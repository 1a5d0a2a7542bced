-------------------------- MODULE MCHotnessPipeline --------------------------
(* Instances of HotnessPipeline for TLC. *)
EXTENDS HotnessPipeline, TLC

CONSTANTS t1, t2
OneThread == {t1}
TwoThreads == {t1, t2}
Symmetric == Permutations(TwoThreads)
=============================================================================
