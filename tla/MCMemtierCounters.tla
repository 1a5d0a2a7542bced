-------------------------- MODULE MCMemtierCounters --------------------------
(* Instances of MemtierCounters for TLC: MEMKIND_DEFAULT is partition 0, the *)
(* second tier a file-backed kind.                                           *)
EXTENDS MemtierCounters, TLC

CONSTANTS t1, t2
TwoThreads == {t1, t2}
OneBucket == [t \in Threads |-> 0]
TwoTiers == <<0, 7>>
OneTier == <<0>>
TwoToOne == <<2, 1>>
Single == <<1>>
Symmetric == Permutations(TwoThreads)
=============================================================================
