----------------------------- MODULE RankingBag -----------------------------
(***************************************************************************)
(* What the ranking promises its users: it is a bag that holds, for every  *)
(* hotness, the total size of what is that hot.                            *)
(***************************************************************************)
EXTENDS Integers

CONSTANTS Hotness, MaxSize

VARIABLE size

Init == size = [h \in Hotness |-> 0]

Add(h, s) == size' = [size EXCEPT ![h] = @ + s]

Remove(h, s) == s =< size[h] /\ size' = [size EXCEPT ![h] = @ - s]

Next == \E h \in Hotness, s \in 1..MaxSize : Add(h, s) \/ Remove(h, s)

Spec == Init /\ [][Next]_size
=============================================================================
