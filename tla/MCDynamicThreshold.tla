------------------------- MODULE MCDynamicThreshold -------------------------
EXTENDS DynamicThreshold, TLC

MCTriggers == {Frac(-1, 10), Frac(0, 1)}
MCDegrees == {Frac(-1, 10), Frac(1, 1), Frac(3, 2)}
Symmetry == Permutations(Threads) \cup Permutations(Kinds)
=============================================================================
