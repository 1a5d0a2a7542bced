----------------------------- MODULE ElementPool -----------------------------
(***************************************************************************)
(* What slab_allocator.h promises its callers: an element is handed out to *)
(* one caller at a time, and only comes back when it is freed or when the  *)
(* whole pool is destroyed.                                                *)
(***************************************************************************)
EXTENDS Naturals

CONSTANT Elements

VARIABLE inuse   \* how many callers hold each element

Init == inuse = [n \in Elements |-> 0]

Malloc(n) == inuse[n] = 0 /\ inuse' = [inuse EXCEPT ![n] = 1]
Free(n) == inuse[n] = 1 /\ inuse' = [inuse EXCEPT ![n] = 0]
Destroy == inuse' = [n \in Elements |-> 0]

Next == Destroy \/ \E n \in Elements : Malloc(n) \/ Free(n)

Spec == Init /\ [][Next]_inuse
=============================================================================
