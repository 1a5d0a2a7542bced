------------------------ MODULE MemtierCountersProofs ------------------------
(***************************************************************************)
(* What holds of the allocation counters for any number of threads, any    *)
(* sharing of buckets and any tiers: type correctness, that no size is     *)
(* stranded in a bucket, and that the counters of the kinds and the total  *)
(* conserve the sizes, modulo the range of size_t.                         *)
(***************************************************************************)
EXTENDS MemtierCounters, FiniteSetTheorems, TLAPS

(* Sums over finite sets: the sum of f[x] for the x of S, SumFunctionOnSet of
   module Functions.  The library defines it by a recursive function on the
   subsets; that this function exists and that the order of the elements does
   not matter is shown with a minimal counterexample. *)

Pick(s) == CHOOSE x \in s : TRUE
Rest(s) == s \ {Pick(s)}

\* g is the recursive function of the library, on the subsets of S.
Solves(g, f, S) ==
  g = [s \in SUBSET S |-> IF s = {} THEN 0 ELSE f[Pick(s)] + g[Rest(s)]]
Solution(f, S) == CHOOSE g : Solves(g, f, S)

\* The element picked is one of the set.
LEMMA PickIn == ASSUME NEW s, s # {} PROVE Pick(s) \in s
BY DEF Pick

\* The sum in the terms of this module.
LEMMA SumIsSolution ==
  ASSUME NEW f, NEW S PROVE SumFunctionOnSet(f, S) = Solution(f, S)[S]
BY DEF SumFunctionOnSet, FoldFunctionOnSet, MapThenFoldSet, Solution, Solves, Pick, Rest

\* Induction over the finite subsets of S, in the form the provers can use: a
\* set of them that is not empty has a member none of whose proper subsets is
\* in it.
LEMMA MinimalSubset ==
  ASSUME NEW S, IsFiniteSet(S), NEW T \in SUBSET SUBSET S, T # {}
  PROVE  \E x \in T : \A y \in T : y \subseteq x => y = x
<1>1. FiniteSubsetsOf(S) = SUBSET S
  BY FS_FiniteSubsetsOfFinite
<1>2. IsWellFoundedOn(StrictSubsetOrdering(S), SUBSET S)
  BY <1>1, FS_StrictSubsetOrderingWellFounded
<1>3. PICK x \in T : \A y \in T : ~(<<y, x>> \in StrictSubsetOrdering(S))
  BY <1>2, WFMin
<1>4. ASSUME NEW y \in T, y \subseteq x PROVE y = x
  BY <1>3, <1>4 DEF StrictSubsetOrdering
<1> QED BY <1>4

\* Two solutions agree where both are defined.
LEMMA SolutionsAgree ==
  ASSUME NEW f, NEW A, IsFiniteSet(A), NEW B, NEW g, Solves(g, f, A), NEW h, Solves(h, f, B),
         NEW v, v \subseteq A, v \subseteq B
  PROVE  g[v] = h[v]
<1> DEFINE T == {s \in SUBSET A : s \subseteq B /\ g[s] # h[s]}
<1> SUFFICES T = {}
  OBVIOUS
<1> SUFFICES ASSUME T # {} PROVE FALSE
  OBVIOUS
<1>1. PICK s \in T : \A y \in T : y \subseteq s => y = s
  <2>1. T \in SUBSET SUBSET A
    OBVIOUS
  <2> HIDE DEF T
  <2> QED BY <2>1, MinimalSubset
<1>2. g[s] = IF s = {} THEN 0 ELSE f[Pick(s)] + g[Rest(s)]
  BY DEF Solves
<1>3. h[s] = IF s = {} THEN 0 ELSE f[Pick(s)] + h[Rest(s)]
  BY DEF Solves
<1>4. s # {}
  BY <1>2, <1>3
<1>5. Rest(s) \subseteq s /\ Rest(s) # s
  BY <1>4, PickIn DEF Rest
<1>6. Rest(s) \notin T
  BY <1>1, <1>5
<1>7. g[Rest(s)] = h[Rest(s)]
  BY <1>5, <1>6
<1> QED BY <1>2, <1>3, <1>4, <1>7

\* There is a solution for every finite set.
LEMMA SolutionExists ==
  ASSUME NEW f, NEW S, IsFiniteSet(S)
  PROVE  Solves(Solution(f, S), f, S)
<1> DEFINE T == {s \in SUBSET S : ~Solves(Solution(f, s), f, s)}
<1> SUFFICES T = {}
  OBVIOUS
<1> SUFFICES ASSUME T # {} PROVE FALSE
  OBVIOUS
<1>1. PICK A \in T : \A y \in T : y \subseteq A => y = A
  <2>1. T \in SUBSET SUBSET S
    OBVIOUS
  <2> HIDE DEF T
  <2> QED BY <2>1, MinimalSubset
<1>2. ASSUME NEW u, u \subseteq A, u # A PROVE Solves(Solution(f, u), f, u)
  BY <1>1, <1>2
<1> DEFINE g == [s \in SUBSET A |->
                   IF s = {} THEN 0 ELSE f[Pick(s)] + Solution(f, Rest(s))[Rest(s)]]
<1>3. ASSUME NEW s \in SUBSET A, s # {} PROVE g[Rest(s)] = Solution(f, Rest(s))[Rest(s)]
  <2> DEFINE u == Rest(s)
  <2>1. u \subseteq A /\ u # A
    BY <1>3, PickIn DEF Rest
  <2>2. Solution(f, u)[u] = IF u = {} THEN 0 ELSE f[Pick(u)] + Solution(f, u)[Rest(u)]
    BY <2>1, <1>2 DEF Solves
  <2>3. CASE u = {}
    BY <2>1, <2>2, <2>3
  <2>4. CASE u # {}
    <3>1. Rest(u) \subseteq u /\ Rest(u) # A /\ IsFiniteSet(u)
      BY <2>1, FS_Subset DEF Rest
    <3>2. Solves(Solution(f, Rest(u)), f, Rest(u)) /\ Solves(Solution(f, u), f, u)
      BY <3>1, <2>1, <1>2
    <3>3. Solution(f, u)[Rest(u)] = Solution(f, Rest(u))[Rest(u)]
      BY <3>1, <3>2, SolutionsAgree
    <3> QED BY <2>1, <2>2, <2>4, <3>3
  <2> QED BY <2>3, <2>4
<1>4. Solves(g, f, A)
  <2> DEFINE h == [s \in SUBSET A |-> IF s = {} THEN 0 ELSE f[Pick(s)] + g[Rest(s)]]
  <2>1. ASSUME NEW s \in SUBSET A PROVE g[s] = h[s]
    BY <1>3
  <2>2. g = h
    BY <2>1
  <2> QED BY <2>2 DEF Solves
<1>5. Solves(Solution(f, A), f, A)
  <2> HIDE DEF g
  <2> QED BY <1>4 DEF Solution
<1> QED BY <1>5

-----------------------------------------------------------------------------
\* The sum over the empty set.
LEMMA SumEmpty == ASSUME NEW f PROVE SumFunctionOnSet(f, {}) = 0
<1>1. Solves(Solution(f, {}), f, {})
  BY SolutionExists, FS_EmptySet
<1> QED BY <1>1, SumIsSolution DEF Solves

\* The recursion of the definition.
LEMMA SumPick ==
  ASSUME NEW f, NEW S, IsFiniteSet(S), S # {}
  PROVE  SumFunctionOnSet(f, S) = f[Pick(S)] + SumFunctionOnSet(f, Rest(S))
<1>1. Rest(S) \subseteq S /\ IsFiniteSet(Rest(S))
  BY FS_Subset DEF Rest
<1>2. Solves(Solution(f, S), f, S) /\ Solves(Solution(f, Rest(S)), f, Rest(S))
  BY <1>1, SolutionExists
<1>3. Solution(f, S)[Rest(S)] = Solution(f, Rest(S))[Rest(S)]
  BY <1>1, <1>2, SolutionsAgree
<1>4. Solution(f, S)[S] = f[Pick(S)] + Solution(f, S)[Rest(S)]
  BY <1>2 DEF Solves
<1> QED BY <1>3, <1>4, SumIsSolution

\* A sum of integers is an integer.
LEMMA SumInt ==
  ASSUME NEW f, NEW S, IsFiniteSet(S), \A x \in S : f[x] \in Int
  PROVE  SumFunctionOnSet(f, S) \in Int
<1> DEFINE T == {s \in SUBSET S : SumFunctionOnSet(f, s) \notin Int}
<1> SUFFICES T = {}
  OBVIOUS
<1> SUFFICES ASSUME T # {} PROVE FALSE
  OBVIOUS
<1>1. PICK A \in T : \A y \in T : y \subseteq A => y = A
  <2>1. T \in SUBSET SUBSET S
    OBVIOUS
  <2> HIDE DEF T
  <2> QED BY <2>1, MinimalSubset
<1>2. A # {}
  BY SumEmpty
<1>3. Pick(A) \in A /\ Rest(A) \subseteq A /\ Rest(A) # A /\ IsFiniteSet(A)
  BY <1>2, PickIn, FS_Subset DEF Rest
<1>4. SumFunctionOnSet(f, Rest(A)) \in Int
  BY <1>1, <1>3
<1>5. SumFunctionOnSet(f, A) = f[Pick(A)] + SumFunctionOnSet(f, Rest(A))
  BY <1>2, <1>3, SumPick
<1>6. f[Pick(A)] \in Int
  BY <1>3
<1> QED BY <1>4, <1>5, <1>6

\* Any element of the set may be taken out first.
LEMMA SumRemove ==
  ASSUME NEW f, NEW S, IsFiniteSet(S), \A x \in S : f[x] \in Int, NEW e \in S
  PROVE  SumFunctionOnSet(f, S) = f[e] + SumFunctionOnSet(f, S \ {e})
<1> DEFINE Sum(s) == SumFunctionOnSet(f, s)
           T == {s \in SUBSET S : \E x \in s : Sum(s) # f[x] + Sum(s \ {x})}
<1> SUFFICES T = {}
  OBVIOUS
<1> SUFFICES ASSUME T # {} PROVE FALSE
  OBVIOUS
<1>1. PICK A \in T : \A y \in T : y \subseteq A => y = A
  <2>1. T \in SUBSET SUBSET S
    OBVIOUS
  <2> HIDE DEF T
  <2> QED BY <2>1, MinimalSubset
<1>2. PICK x \in A : Sum(A) # f[x] + Sum(A \ {x})
  OBVIOUS
<1> DEFINE p == Pick(A)
<1>3. p \in A /\ IsFiniteSet(A) /\ Sum(A) = f[p] + Sum(A \ {p})
  <2>1. A # {} /\ IsFiniteSet(A)
    BY FS_Subset
  <2> QED BY <2>1, PickIn, SumPick DEF Rest
<1>4. x # p
  BY <1>2, <1>3
<1>5. A \ {p} \notin T /\ A \ {x} \notin T /\ A \ {p} \in SUBSET S /\ A \ {x} \in SUBSET S
  BY <1>1, <1>3
<1>6. Sum(A \ {p}) = f[x] + Sum((A \ {p}) \ {x})
  BY <1>4, <1>5
<1>7. Sum(A \ {x}) = f[p] + Sum((A \ {x}) \ {p})
  BY <1>3, <1>4, <1>5
<1>8. (A \ {x}) \ {p} = (A \ {p}) \ {x}
  OBVIOUS
<1>9. Sum((A \ {x}) \ {p}) \in Int /\ f[x] \in Int /\ f[p] \in Int
  <2>1. IsFiniteSet((A \ {x}) \ {p}) /\ \A y \in (A \ {x}) \ {p} : f[y] \in Int
    BY <1>3, FS_Subset
  <2> QED BY <2>1, <1>3, SumInt
<1>10. Sum(A) = f[p] + (f[x] + Sum((A \ {x}) \ {p}))
  BY <1>3, <1>6, <1>8
<1>11. f[p] + (f[x] + Sum((A \ {x}) \ {p})) = f[x] + (f[p] + Sum((A \ {x}) \ {p}))
  <2> HIDE DEF Sum, p, T
  <2> QED BY <1>9
<1> QED BY <1>2, <1>7, <1>10, <1>11

\* A sum depends on the values in the set only.
LEMMA SumEqual ==
  ASSUME NEW f, NEW g, NEW S, IsFiniteSet(S), \A x \in S : f[x] \in Int /\ g[x] = f[x]
  PROVE  SumFunctionOnSet(g, S) = SumFunctionOnSet(f, S)
<1> DEFINE T == {s \in SUBSET S : SumFunctionOnSet(g, s) # SumFunctionOnSet(f, s)}
<1> SUFFICES T = {}
  OBVIOUS
<1> SUFFICES ASSUME T # {} PROVE FALSE
  OBVIOUS
<1>1. PICK A \in T : \A y \in T : y \subseteq A => y = A
  <2>1. T \in SUBSET SUBSET S
    OBVIOUS
  <2> HIDE DEF T
  <2> QED BY <2>1, MinimalSubset
<1>2. A # {}
  BY SumEmpty
<1>3. Pick(A) \in A /\ Rest(A) \subseteq A /\ Rest(A) # A /\ IsFiniteSet(A)
  BY <1>2, PickIn, FS_Subset DEF Rest
<1>4. SumFunctionOnSet(g, Rest(A)) = SumFunctionOnSet(f, Rest(A))
  BY <1>1, <1>3
<1>5. /\ SumFunctionOnSet(f, A) = f[Pick(A)] + SumFunctionOnSet(f, Rest(A))
      /\ SumFunctionOnSet(g, A) = g[Pick(A)] + SumFunctionOnSet(g, Rest(A))
  BY <1>2, <1>3, SumPick
<1>6. f[Pick(A)] = g[Pick(A)]
  BY <1>3
<1> QED BY <1>4, <1>5, <1>6

\* When one value changes, the sum changes by as much.
LEMMA SumChange ==
  ASSUME NEW f, NEW g, NEW S, IsFiniteSet(S), NEW e \in S,
         \A x \in S : f[x] \in Int /\ g[x] \in Int,
         \A x \in S \ {e} : g[x] = f[x]
  PROVE  SumFunctionOnSet(g, S) = SumFunctionOnSet(f, S) + g[e] - f[e]
<1>1. IsFiniteSet(S \ {e})
  BY FS_Subset
<1>2. SumFunctionOnSet(g, S \ {e}) = SumFunctionOnSet(f, S \ {e})
  BY <1>1, SumEqual
<1>3. SumFunctionOnSet(f, S \ {e}) \in Int
  BY <1>1, SumInt
<1>4. /\ SumFunctionOnSet(f, S) = f[e] + SumFunctionOnSet(f, S \ {e})
      /\ SumFunctionOnSet(g, S) = g[e] + SumFunctionOnSet(g, S \ {e})
  BY SumRemove
<1>5. f[e] \in Int /\ g[e] \in Int
  OBVIOUS
<1> QED BY <1>2, <1>3, <1>4, <1>5

\* A sum of zeros is zero.
LEMMA SumZero ==
  ASSUME NEW f, NEW S, IsFiniteSet(S), \A x \in S : f[x] = 0
  PROVE  SumFunctionOnSet(f, S) = 0
<1> DEFINE T == {s \in SUBSET S : SumFunctionOnSet(f, s) # 0}
<1> SUFFICES T = {}
  OBVIOUS
<1> SUFFICES ASSUME T # {} PROVE FALSE
  OBVIOUS
<1>1. PICK A \in T : \A y \in T : y \subseteq A => y = A
  <2>1. T \in SUBSET SUBSET S
    OBVIOUS
  <2> HIDE DEF T
  <2> QED BY <2>1, MinimalSubset
<1>2. A # {}
  BY SumEmpty
<1>3. Pick(A) \in A /\ Rest(A) \subseteq A /\ Rest(A) # A /\ IsFiniteSet(A)
  BY <1>2, PickIn, FS_Subset DEF Rest
<1>4. SumFunctionOnSet(f, Rest(A)) = 0
  BY <1>1, <1>3
<1>5. SumFunctionOnSet(f, A) = f[Pick(A)] + SumFunctionOnSet(f, Rest(A))
  BY <1>2, <1>3, SumPick
<1> QED BY <1>3, <1>4, <1>5

-----------------------------------------------------------------------------

PCs == Flushing \cup {"idle", "readFirst", "readTier", "realloc",
                      "increment", "decrement", "sum"}

\* The facts about the kinds and the buckets that the steps use.
LEMMA Config ==
  /\ Len(Cfg) \in Nat \ {0} /\ \A i \in 1..Len(Cfg) : Cfg[i] \in Kinds
  /\ Kinds \subseteq Nat /\ Kinds \subseteq Counters
  /\ TOTAL \in Counters /\ HotTierId \in Counters
  /\ \A t \in Threads : BucketOf[t] \in Buckets
BY CfgAssumption, HotAssumption, BucketAssumption DEF Kinds, Counters, Buckets

\* The number of tiers.
LEMMA CfgLength == Len(Cfg) \in Nat /\ Len(Cfg) >= 1 /\ Cfg[1] \in Kinds
<1>1. Len(Cfg) \in Nat /\ Len(Cfg) # 0
  BY CfgAssumption
<1>2. 1 \in 1..Len(Cfg)
  BY <1>1
<1> QED BY <1>1, <1>2 DEF Kinds

\* Locals that a call starts with.
LEMMA FreshLocals == NoLocals \in Locals
BY DEF NoLocals, Locals

\* Updates of locals by the values of their fields.
LEMMA UpdatedLocals ==
  ASSUME NEW r \in Locals, NEW k \in Nat, NEW s \in Nat, NEW x \in {"return", "realloc"},
         NEW b \in {NoBlock} \cup (Kinds \X Sizes), NEW n \in Nat
  PROVE  /\ [r EXCEPT !.kind = k, !.size = s] \in Locals
         /\ [r EXCEPT !.kind = k, !.size = s, !.block = b] \in Locals
         /\ [r EXCEPT !.kind = k, !.size = s, !.next = x, !.block = b] \in Locals
         /\ [r EXCEPT !.amount = 0, !.total = n] \in Locals
<1>1. [r EXCEPT !.kind = k] \in Locals
  BY DEF Locals
<1>2. ASSUME NEW q \in Locals
      PROVE  /\ [q EXCEPT !.size = s] \in Locals /\ [q EXCEPT !.next = x] \in Locals
             /\ [q EXCEPT !.block = b] \in Locals /\ [q EXCEPT !.total = n] \in Locals
             /\ [q EXCEPT !.amount = 0] \in Locals
  BY DEF Locals
<1> QED BY <1>1, <1>2

\* A thread that moves to p with locals l keeps the types of all threads, when
\* those of its own are right: the frame of every step.
LEMMA MoveThread ==
  ASSUME pc \in [Threads -> PCs], loc \in [Threads -> Locals],
         \A t \in Threads : LocalsOK(t),
         NEW u \in Threads, NEW p \in PCs, NEW l \in Locals, Goto(u, p, l),
         p \in {"readFirst", "readTier"} => l.size \in Sizes,
         p = "readFirst" => Len(Cfg) > 1,
         p = "readTier" => l.tier \in 2..Len(Cfg) /\ l.dest \in 1..Len(Cfg),
         p \notin {"idle", "readFirst", "readTier"} => l.kind \in Kinds,
         p \notin {"readFirst", "readTier"} /\ l.next = "realloc"
           => l.size \in Sizes /\ l.block # NoBlock,
         p = "realloc" => l.next = "realloc",
         p \in {"readHot", "publish"} => l.total < Word,
         p = "increment" /\ l.block # NoBlock => l.size =< l.block[2]
  PROVE  /\ pc' \in [Threads -> PCs] /\ loc' \in [Threads -> Locals]
         /\ \A t \in Threads : LocalsOK(t)'
<1>1. pc' \in [Threads -> PCs] /\ loc' \in [Threads -> Locals]
  BY DEF Goto
<1>2. ASSUME NEW t \in Threads PROVE LocalsOK(t)'
  <2>1. CASE t = u
    <3>1. pc'[t] = p /\ loc'[t] = l
      BY <2>1 DEF Goto
    <3> QED BY <3>1 DEF LocalsOK
  <2>2. CASE t # u
    <3>1. pc'[t] = pc[t] /\ loc'[t] = loc[t]
      BY <2>2 DEF Goto
    <3> QED BY <3>1 DEF LocalsOK
  <2> QED BY <2>1, <2>2
<1> QED BY <1>1, <1>2

\* The state without the calls of the threads has its types.
DataOK ==
  /\ tAlloc \in [Kinds -> [Buckets -> Int]]
  /\ gAlloc \in [Counters -> 0..Word - 1] /\ gTotal \in 0..Word - 1
  /\ ops \in 0..MaxOps /\ taken \in [Kinds -> Nat]
CallsOK ==
  /\ owned \in [Kinds \X Sizes -> Nat]
  /\ pc \in [Threads -> PCs] /\ loc \in [Threads -> Locals]
  /\ \A t \in Threads : LocalsOK(t)

\* TypeOK in the two parts that the steps are proved in.
LEMMA TypeParts == TypeOK <=> DataOK /\ CallsOK
BY DEF TypeOK, DataOK, CallsOK, PCs

\* MoveThread for a step that leaves the blocks alone.
LEMMA Move ==
  ASSUME CallsOK, UNCHANGED owned,
         NEW u \in Threads, NEW p \in PCs, NEW l \in Locals, Goto(u, p, l),
         p \in {"readFirst", "readTier"} => l.size \in Sizes,
         p = "readFirst" => Len(Cfg) > 1,
         p = "readTier" => l.tier \in 2..Len(Cfg) /\ l.dest \in 1..Len(Cfg),
         p \notin {"idle", "readFirst", "readTier"} => l.kind \in Kinds,
         p \notin {"readFirst", "readTier"} /\ l.next = "realloc"
           => l.size \in Sizes /\ l.block # NoBlock,
         p = "realloc" => l.next = "realloc",
         p \in {"readHot", "publish"} => l.total < Word,
         p = "increment" /\ l.block # NoBlock => l.size =< l.block[2]
  PROVE  CallsOK'
BY MoveThread DEF CallsOK

\* The end of an increment or decrement keeps the types of the calls.
LEMMA ProceedCalls ==
  ASSUME CallsOK, NEW t \in Threads, Proceed(t),
         pc[t] \in {"increment", "decrement", "publish", "addKind", "sum"}
  PROVE  CallsOK'
<1> USE DEF CallsOK
<1>1. loc[t] \in Locals /\ LocalsOK(t)
  OBVIOUS
<1>2. CASE loc[t].next = "return"
  <2>1. Goto(t, "idle", NoLocals)
    BY <1>2 DEF Proceed, Return
  <2>2. owned' \in [Kinds \X Sizes -> Nat]
    <3>1. loc[t].block \in {NoBlock} \cup (Kinds \X Sizes)
      BY <1>1 DEF Locals
    <3>2. CASE loc[t].block = NoBlock
      BY <1>2, <3>2 DEF Proceed, Return
    <3>3. CASE loc[t].block \in Kinds \X Sizes /\ loc[t].block # NoBlock
      <4>1. owned' = [owned EXCEPT ![loc[t].block] = @ + 1]
        BY <1>2, <3>3 DEF Proceed, Return
      <4>2. owned[loc[t].block] + 1 \in Nat
        BY <3>3
      <4> QED BY <4>1, <4>2
    <3> QED BY <3>1, <3>2, <3>3
  <2>3. NoLocals \in Locals /\ NoLocals.next = "return" /\ "idle" \in PCs
    BY FreshLocals DEF NoLocals, PCs
  <2> QED BY <2>1, <2>2, <2>3, MoveThread
<1>3. CASE loc[t].next = "realloc"
  <2>1. Goto(t, "realloc", loc[t]) /\ UNCHANGED owned
    BY <1>3 DEF Proceed
  <2>2. /\ loc[t].size \in Sizes /\ loc[t].block # NoBlock /\ loc[t].kind \in Kinds
    BY <1>1, <1>3 DEF LocalsOK
  <2>3. "realloc" \in PCs
    BY DEF PCs
  <2> QED BY <1>1, <1>3, <2>1, <2>2, <2>3, Move
<1>4. loc[t].next \in {"return", "realloc"}
  BY <1>1 DEF Locals
<1> QED BY <1>2, <1>3, <1>4

\* An update of one bucket to an integer, or to zero wherever it is.
LEMMA BucketUpdate ==
  ASSUME NEW f \in [Kinds -> [Buckets -> Int]], NEW k, NEW b, NEW n \in Int
  PROVE  [f EXCEPT ![k][b] = n] \in [Kinds -> [Buckets -> Int]]
<1>1. ASSUME NEW g \in [Buckets -> Int] PROVE [g EXCEPT ![b] = n] \in [Buckets -> Int]
  OBVIOUS
<1>2. [f EXCEPT ![k][b] = n] = [i \in Kinds |-> IF i = k THEN [f[k] EXCEPT ![b] = n] ELSE f[i]]
  OBVIOUS
<1> QED BY <1>1, <1>2

\* What memkind_pmem_destroy does to the counters of its kind and to no other.
Destroyed(k) ==
  /\ k \in Kinds /\ UNCHANGED <<gTotal, pc, loc>>
  /\ \A u \in Threads : pc[u] # "idle" => loc[u].kind # k
  /\ tAlloc' = [tAlloc EXCEPT ![k] = [b \in Buckets |-> 0]]
  /\ gAlloc' = [gAlloc EXCEPT ![k] = 0] /\ taken' = [taken EXCEPT ![k] = 0]
  /\ owned' = [x \in Kinds \X Sizes |-> IF x[1] = k THEN 0 ELSE owned[x]]
  /\ apart' = apart - gAlloc[k]

LEMMA DestroyEffect ==
  ASSUME NEW t \in Threads, PmemDestroy(t) PROVE \E k \in Kinds : Destroyed(k)
BY PmemAssumption DEF PmemDestroy, Destroyed

\* Every step keeps the types of the counters: what is added is reduced to a
\* size_t, and a bucket is a signed number.
LEMMA DataStep ==
  ASSUME DataOK, CallsOK, NEW t \in Threads,
         \/ Malloc(t) \/ ReadFirst(t) \/ ReadTier(t)
         \/ Free(t) \/ Realloc(t) \/ Reallocate(t) \/ ReallocFails(t)
         \/ Increment(t) \/ Decrement(t)
         \/ Exchange(t) \/ AddKind(t) \/ AddTotal(t) \/ ReadHot(t) \/ Publish(t)
         \/ Query(t) \/ SumBucket(t) \/ AddSum(t) \/ PmemDestroy(t)
  PROVE  DataOK'
<1> USE DEF DataOK
<1>0. /\ loc[t] \in Locals /\ LocalsOK(t)
      /\ BucketOf[t] \in Buckets /\ Kinds \subseteq Counters /\ TOTAL \in Counters
      /\ HotTierId \in Counters
  BY Config DEF CallsOK
<1>1. ASSUME NEW c \in Calls, Begin(t, c) PROVE ops' \in 0..MaxOps
  BY <1>1, WordAssumption DEF Begin
<1>2. CASE Malloc(t)
  BY <1>1, <1>2 DEF Malloc, Begin
<1>3. CASE ReadFirst(t)
  BY <1>3 DEF ReadFirst
<1>4. CASE ReadTier(t)
  BY <1>4 DEF ReadTier
<1>5. CASE Free(t)
  BY <1>1, <1>5 DEF Free, Begin
<1>6. CASE Realloc(t)
  BY <1>1, <1>6 DEF Realloc, Begin
<1>7. CASE Reallocate(t) \/ ReallocFails(t)
  BY <1>7 DEF Reallocate, ReallocFails
<1>8. CASE Increment(t)
  <2>1. loc[t].kind \in Kinds /\ loc[t].size \in Nat
    BY <1>0, <1>8 DEF Increment, LocalsOK, Locals
  <2>2. tAlloc' \in [Kinds -> [Buckets -> Int]]
    <3>1. tAlloc' = [tAlloc EXCEPT ![loc[t].kind][BucketOf[t]] = tAlloc[loc[t].kind][BucketOf[t]] + loc[t].size]
      BY <1>8 DEF Increment
    <3>2. tAlloc[loc[t].kind][BucketOf[t]] + loc[t].size \in Int
      BY <1>0, <2>1
    <3> QED BY <3>1, <3>2, BucketUpdate
  <2>3. taken' \in [Kinds -> Nat]
    <3>1. CASE loc[t].block = NoBlock
      BY <1>8, <3>1 DEF Increment
    <3>2. CASE loc[t].block # NoBlock
      <4>1. taken' = [taken EXCEPT ![loc[t].kind] = @ + (loc[t].block[2] - loc[t].size)]
        BY <1>8, <3>2 DEF Increment
      <4>2. loc[t].block \in Kinds \X Sizes
        BY <1>0, <3>2 DEF Locals
      <4>3. loc[t].block[2] \in Nat
        BY <4>2, SizeAssumption
      <4>4. loc[t].size =< loc[t].block[2]
        BY <1>0, <1>8, <3>2 DEF LocalsOK, Increment
      <4>5. taken[loc[t].kind] + (loc[t].block[2] - loc[t].size) \in Nat
        BY <2>1, <4>3, <4>4
      <4> QED BY <4>1, <4>5
    <3> QED BY <3>1, <3>2
  <2> QED BY <1>8, <2>2, <2>3 DEF Increment
<1>9. CASE Decrement(t)
  <2>1. loc[t].kind \in Kinds /\ loc[t].size \in Nat
    BY <1>0, <1>9 DEF Decrement, LocalsOK, Locals
  <2>2. tAlloc' = [tAlloc EXCEPT ![loc[t].kind][BucketOf[t]] = tAlloc[loc[t].kind][BucketOf[t]] - loc[t].size]
    BY <1>9 DEF Decrement
  <2>3. tAlloc' \in [Kinds -> [Buckets -> Int]]
    <3>1. tAlloc[loc[t].kind][BucketOf[t]] - loc[t].size \in Int
      BY <1>0, <2>1
    <3> QED BY <2>2, <3>1, BucketUpdate
  <2> QED BY <1>9, <2>3 DEF Decrement
<1>10. CASE Exchange(t)
  <2>1. tAlloc' = [tAlloc EXCEPT ![loc[t].kind][BucketOf[t]] = 0]
    BY <1>10 DEF Exchange
  <2>2. tAlloc' \in [Kinds -> [Buckets -> Int]]
    <3>1. 0 \in Int /\ tAlloc \in [Kinds -> [Buckets -> Int]]
      OBVIOUS
    <3> QED BY <2>1, <3>1, BucketUpdate, Zenon
  <2> QED BY <1>10, <2>2 DEF Exchange
<1>11. ASSUME NEW n \in Int PROVE n % Word \in 0..Word - 1
  BY WordAssumption
<1>12. CASE AddKind(t) \/ AddSum(t)
  <2>1. gAlloc' = [gAlloc EXCEPT ![loc[t].kind] = (@ + loc[t].amount) % Word]
    BY <1>12 DEF AddKind, AddSum
  <2>2. loc[t].kind \in Kinds /\ loc[t].amount \in Int
    BY <1>0, <1>12 DEF AddKind, AddSum, LocalsOK, Locals
  <2>3. (gAlloc[loc[t].kind] + loc[t].amount) % Word \in 0..Word - 1
    BY <1>0, <1>11, <2>2
  <2>4. gAlloc' \in [Counters -> 0..Word - 1]
    BY <2>1, <2>3
  <2> QED BY <1>12, <2>4 DEF AddKind, AddSum
<1>13. CASE AddTotal(t)
  <2>1. gAlloc' = [gAlloc EXCEPT ![TOTAL] = (gAlloc[TOTAL] + loc[t].amount) % Word]
    BY <1>13 DEF AddTotal
  <2>2. (gAlloc[TOTAL] + loc[t].amount) % Word \in 0..Word - 1
    BY <1>0, <1>11 DEF Locals
  <2> QED BY <1>13, <2>1, <2>2 DEF AddTotal
<1>14. CASE ReadHot(t)
  BY <1>14 DEF ReadHot
<1>15. CASE Publish(t)
  <2>1. loc[t].total \in Nat /\ loc[t].total < Word
    BY <1>0, <1>15 DEF Publish, LocalsOK, Locals
  <2>2. loc[t].total \in 0..Word - 1
    BY <2>1, WordAssumption
  <2> QED BY <1>15, <2>2 DEF Publish
<1>16. CASE Query(t)
  BY <1>1, <1>16 DEF Query, Begin
<1>17. CASE SumBucket(t)
  <2>1. tAlloc' = [tAlloc EXCEPT ![loc[t].kind][loc[t].bucket] = 0]
    BY <1>17 DEF SumBucket
  <2>2. tAlloc' \in [Kinds -> [Buckets -> Int]]
    <3>1. 0 \in Int /\ tAlloc \in [Kinds -> [Buckets -> Int]]
      OBVIOUS
    <3> QED BY <2>1, <3>1, BucketUpdate, Zenon
  <2> QED BY <1>17, <2>2 DEF SumBucket
<1>18. CASE PmemDestroy(t)
  <2>1. PICK k \in Kinds : Destroyed(k)
    BY <1>18, DestroyEffect
  <2>2. /\ tAlloc' = [tAlloc EXCEPT ![k] = [b \in Buckets |-> 0]] /\ gTotal' = gTotal
        /\ gAlloc' = [gAlloc EXCEPT ![k] = 0] /\ taken' = [taken EXCEPT ![k] = 0]
    BY <2>1 DEF Destroyed
  <2>3. 0 \in 0..Word - 1 /\ [b \in Buckets |-> 0] \in [Buckets -> Int]
    BY WordAssumption
  <2>4. /\ tAlloc' \in [Kinds -> [Buckets -> Int]] /\ gAlloc' \in [Counters -> 0..Word - 1]
        /\ taken' \in [Kinds -> Nat]
    BY <2>2, <2>3
  <2>5. ops' \in 0..MaxOps
    BY <1>1, <1>18 DEF PmemDestroy, Begin
  <2> QED BY <2>2, <2>4, <2>5
<1> QED BY <1>2, <1>3, <1>4, <1>5, <1>6, <1>7, <1>8, <1>9, <1>10, <1>12, <1>13,
           <1>14, <1>15, <1>16, <1>17, <1>18

\* Every step keeps the types of the calls and of the blocks owned.
LEMMA CallsStep ==
  ASSUME DataOK, CallsOK, NEW t \in Threads,
         \/ Malloc(t) \/ ReadFirst(t) \/ ReadTier(t)
         \/ Free(t) \/ Realloc(t) \/ Reallocate(t) \/ ReallocFails(t)
         \/ Increment(t) \/ Decrement(t)
         \/ Exchange(t) \/ AddKind(t) \/ AddTotal(t) \/ ReadHot(t) \/ Publish(t)
         \/ Query(t) \/ SumBucket(t) \/ AddSum(t) \/ PmemDestroy(t)
  PROVE  CallsOK'
<1>0. /\ loc[t] \in Locals /\ LocalsOK(t) /\ pc[t] \in PCs
      /\ owned \in [Kinds \X Sizes -> Nat]
  BY DEF CallsOK
<1>p. {"idle", "readFirst", "readTier", "realloc", "increment", "decrement", "sum",
       "exchange", "addKind", "addTotal", "readHot", "publish"} = PCs
  BY DEF PCs, Flushing
<1>s. \A s \in Sizes : s \in Nat
  BY SizeAssumption
<1>n. Kinds \subseteq Nat
  BY Config
<1>a. ASSUME NEW k \in Kinds, NEW s \in Sizes, Allocate(t, k, s), UNCHANGED owned
      PROVE  CallsOK'
  <2>1. CASE Goto(t, "increment", [NoLocals EXCEPT !.kind = k, !.size = s, !.block = <<k, s>>])
    <3> DEFINE l == [NoLocals EXCEPT !.kind = k, !.size = s, !.block = <<k, s>>]
    <3>1. l \in Locals /\ l.kind = k /\ l.size = s /\ l.next = "return" /\ l.block = <<k, s>>
      <4>1. k \in Nat /\ s \in Nat /\ <<k, s>> \in Kinds \X Sizes
        BY <1>s, <1>n
      <4>2. l \in Locals
        BY <4>1, FreshLocals, UpdatedLocals
      <4> QED BY <4>2 DEF NoLocals
    <3>2. l.size =< l.block[2]
      BY <3>1, <1>s
    <3>3. Goto(t, "increment", l)
      BY <2>1
    <3> HIDE DEF l
    <3> QED BY <1>a, <1>p, <3>1, <3>2, <3>3, Move
  <2>2. CASE Goto(t, "increment", [NoLocals EXCEPT !.kind = k])
    <3> DEFINE l == [NoLocals EXCEPT !.kind = k]
    <3>1. l \in Locals /\ l.kind = k /\ l.next = "return" /\ l.block = NoBlock
      BY <1>n DEF NoLocals, Locals
    <3>3. Goto(t, "increment", l)
      BY <2>2
    <3> HIDE DEF l
    <3> QED BY <1>a, <1>p, <3>1, <3>3, Move
  <2> QED BY <1>a, <2>1, <2>2 DEF Allocate
<1>2. CASE Malloc(t)
  <2>1. PICK s \in Sizes :
          IF Len(Cfg) = 1 THEN Allocate(t, Cfg[1], s)
          ELSE Goto(t, "readFirst", [NoLocals EXCEPT !.size = s])
    BY <1>2 DEF Malloc
  <2>2. UNCHANGED owned
    BY <1>2 DEF Malloc
  <2>3. CASE Len(Cfg) = 1
    <3>1. Cfg[1] \in Kinds
      BY <2>3, Config
    <3> QED BY <1>a, <2>1, <2>2, <2>3, <3>1
  <2>4. CASE Len(Cfg) # 1
    <3> DEFINE l == [NoLocals EXCEPT !.size = s]
    <3>1. l \in Locals /\ l.size = s
      BY <1>s DEF NoLocals, Locals
    <3>2. Goto(t, "readFirst", l)
      BY <2>1, <2>4
    <3> HIDE DEF l
    <3>3. Len(Cfg) > 1
      <4>1. Len(Cfg) \in Nat /\ Len(Cfg) >= 1
        BY CfgLength
      <4>2. \A n \in Nat : n >= 1 /\ n # 1 => n > 1
        OBVIOUS
      <4> QED BY <2>4, <4>1, <4>2
    <3> QED BY <1>p, <2>2, <3>1, <3>2, <3>3, Move
  <2> QED BY <2>3, <2>4
<1>3. CASE ReadFirst(t)
  <2> DEFINE l == [loc[t] EXCEPT !.first = gAlloc[Cfg[1]], !.tier = 2, !.dest = 1]
  <2>0. pc[t] = "readFirst" /\ Goto(t, "readTier", l) /\ UNCHANGED owned
    BY <1>3 DEF ReadFirst
  <2>1. gAlloc[Cfg[1]] \in Nat
    <3>1. Cfg[1] \in Counters
      BY CfgLength DEF Counters
    <3> QED BY <3>1, WordAssumption DEF DataOK
  <2>2. l \in Locals /\ l.size = loc[t].size /\ l.tier = 2 /\ l.dest = 1
    BY <1>0, <2>1 DEF Locals
  <2>3. l.size \in Sizes
    BY <1>0, <2>0, <2>2 DEF LocalsOK
  <2>4. 2 \in 2..Len(Cfg) /\ 1 \in 1..Len(Cfg)
    BY <1>0, <2>0, Config DEF LocalsOK
  <2> HIDE DEF l
  <2> QED BY <1>p, <2>0, <2>2, <2>3, <2>4, Move
<1>4. CASE ReadTier(t)
  <2> DEFINE i == loc[t].tier
             dest == IF gAlloc[Cfg[i]] * Ratio[1] < loc[t].first * Ratio[i]
                     THEN i ELSE loc[t].dest
  <2>0. pc[t] = "readTier" /\ UNCHANGED owned
    BY <1>4 DEF ReadTier
  <2>1. i \in 2..Len(Cfg) /\ loc[t].dest \in 1..Len(Cfg) /\ loc[t].size \in Sizes
    BY <1>0, <2>0 DEF LocalsOK
  <2>2. dest \in 1..Len(Cfg) /\ dest \in Nat
    BY <2>1, Config
  <2>3. CASE i < Len(Cfg)
    <3> DEFINE l == [loc[t] EXCEPT !.tier = i + 1, !.dest = dest]
    <3>1. Goto(t, "readTier", l)
      BY <1>4, <2>3 DEF ReadTier
    <3>2. i + 1 \in 2..Len(Cfg) /\ i + 1 \in Nat
      BY <2>1, <2>3, Config
    <3> HIDE DEF i, dest
    <3>3. l \in Locals /\ l.size = loc[t].size /\ l.tier = i + 1 /\ l.dest = dest
      BY <1>0, <2>2, <3>2 DEF Locals
    <3> HIDE DEF l
    <3> QED BY <1>p, <2>0, <2>1, <2>2, <3>1, <3>2, <3>3, Move
  <2>4. CASE ~(i < Len(Cfg))
    <3>1. Allocate(t, Cfg[dest], loc[t].size)
      BY <1>4, <2>4 DEF ReadTier
    <3>2. Cfg[dest] \in Kinds
      BY <2>2, Config
    <3> QED BY <1>a, <2>0, <2>1, <3>1, <3>2
  <2> QED BY <2>3, <2>4
<1>b. ASSUME NEW k \in Kinds, NEW s \in Sizes, owned[<<k, s>>] > 0,
             owned' = [owned EXCEPT ![<<k, s>>] = @ - 1],
             NEW l \in Locals, Goto(t, "decrement", l), l.kind = k, l.size = s,
             l.next = "realloc" => l.block # NoBlock
      PROVE  CallsOK'
  <2>1. owned[<<k, s>>] - 1 \in Nat
    BY <1>0, <1>b
  <2>2. owned' \in [Kinds \X Sizes -> Nat]
    BY <1>0, <1>b, <2>1
  <2> QED BY <1>b, <1>p, <2>2, MoveThread DEF CallsOK
<1>5. CASE Free(t)
  <2>1. PICK k \in Kinds, s \in Sizes :
          /\ owned[<<k, s>>] > 0 /\ owned' = [owned EXCEPT ![<<k, s>>] = @ - 1]
          /\ Goto(t, "decrement", [NoLocals EXCEPT !.kind = k, !.size = s])
    BY <1>5 DEF Free
  <2> DEFINE l == [NoLocals EXCEPT !.kind = k, !.size = s]
  <2>2. l \in Locals /\ l.kind = k /\ l.size = s /\ l.next = "return"
    <3>1. k \in Nat /\ s \in Nat
      BY <1>s, <1>n
    <3>2. l \in Locals
      BY <3>1, FreshLocals, UpdatedLocals
    <3> QED BY <3>2 DEF NoLocals
  <2>3. Goto(t, "decrement", l)
    BY <2>1
  <2> HIDE DEF l
  <2> QED BY <1>b, <2>1, <2>2, <2>3
<1>6. CASE Realloc(t)
  <2>1. PICK k \in Kinds, s \in Sizes, n \in Sizes :
          /\ owned[<<k, s>>] > 0 /\ owned' = [owned EXCEPT ![<<k, s>>] = @ - 1]
          /\ Goto(t, "decrement", [NoLocals EXCEPT !.kind = k, !.size = s,
                                     !.next = "realloc", !.block = <<k, n>>])
    BY <1>6 DEF Realloc
  <2> DEFINE l == [NoLocals EXCEPT !.kind = k, !.size = s,
                                   !.next = "realloc", !.block = <<k, n>>]
  <2>2. l \in Locals /\ l.kind = k /\ l.size = s /\ l.block = <<k, n>>
    <3>1. k \in Nat /\ s \in Nat /\ <<k, n>> \in Kinds \X Sizes
      BY <1>s, <1>n
    <3>2. l \in Locals
      BY <3>1, FreshLocals, UpdatedLocals
    <3> QED BY <3>2 DEF NoLocals
  <2>3. Goto(t, "decrement", l)
    BY <2>1
  <2>4. l.block # NoBlock
    BY <2>2 DEF NoBlock
  <2> HIDE DEF l
  <2> QED BY <1>b, <2>1, <2>2, <2>3, <2>4
<1>7. ASSUME pc[t] = "realloc"
      PROVE  /\ loc[t].kind \in Kinds /\ loc[t].size \in Sizes
             /\ loc[t].block \in Kinds \X Sizes
  BY <1>0, <1>7 DEF LocalsOK, Locals
<1>8. CASE Reallocate(t)
  <2> DEFINE l == [loc[t] EXCEPT !.size = loc[t].block[2], !.next = "return"]
  <2>0. pc[t] = "realloc" /\ Goto(t, "increment", l) /\ UNCHANGED owned
    BY <1>8 DEF Reallocate
  <2>1. loc[t].block[2] \in Nat
    BY <1>7, <1>s, <2>0
  <2>2. /\ l \in Locals /\ l.kind = loc[t].kind /\ l.next = "return"
        /\ l.size = loc[t].block[2] /\ l.block = loc[t].block
    BY <1>0, <2>1 DEF Locals
  <2>3. l.size =< l.block[2]
    BY <2>1, <2>2
  <2> HIDE DEF l
  <2> QED BY <1>p, <1>7, <2>0, <2>2, <2>3, Move
<1>9. CASE ReallocFails(t)
  <2> DEFINE l == [loc[t] EXCEPT !.block = <<loc[t].kind, loc[t].size>>,
                                 !.size = 0, !.next = "return"]
  <2>0. pc[t] = "realloc" /\ Goto(t, "increment", l) /\ UNCHANGED owned
    BY <1>9 DEF ReallocFails
  <2>2. /\ l \in Locals /\ l.kind = loc[t].kind /\ l.next = "return"
        /\ l.size = 0 /\ l.block = <<loc[t].kind, loc[t].size>>
    BY <1>0, <1>7, <2>0 DEF Locals
  <2>3. l.size =< l.block[2]
    BY <2>2, <1>7, <1>s, <2>0
  <2> HIDE DEF l
  <2> QED BY <1>p, <1>7, <2>0, <2>2, <2>3, Move
<1>10. CASE Increment(t)
  <2>0. pc[t] = "increment"
    BY <1>10 DEF Increment
  <2>1. CASE Goto(t, "exchange", loc[t]) /\ UNCHANGED owned
    BY <1>0, <1>p, <2>0, <2>1, Move DEF LocalsOK
  <2>2. CASE Proceed(t)
    BY <2>0, <2>2, ProceedCalls
  <2> QED BY <1>10, <2>1, <2>2 DEF Increment
<1>11. CASE Decrement(t)
  <2>0. pc[t] = "decrement"
    BY <1>11 DEF Decrement
  <2>1. CASE Goto(t, "exchange", loc[t]) /\ UNCHANGED owned
    BY <1>0, <1>p, <2>0, <2>1, Move DEF LocalsOK
  <2>2. CASE Proceed(t)
    BY <2>0, <2>2, ProceedCalls
  <2> QED BY <1>11, <2>1, <2>2 DEF Decrement
<1>c. ASSUME NEW p \in {"addKind", "addTotal", "readHot", "publish", "sum"},
             NEW l \in Locals, Goto(t, p, l), UNCHANGED owned,
             pc[t] \notin {"idle", "readFirst", "readTier"},
             l.kind = loc[t].kind, l.size = loc[t].size, l.next = loc[t].next,
             l.block = loc[t].block, p \in {"readHot", "publish"} => l.total < Word
      PROVE  CallsOK'
  <2>1. /\ loc[t].kind \in Kinds
        /\ loc[t].next = "realloc" => loc[t].size \in Sizes /\ loc[t].block # NoBlock
    BY <1>0, <1>c DEF LocalsOK
  <2> QED BY <1>c, <1>p, <2>1, Move
<1>d. ASSUME pc[t] \notin {"idle", "readFirst", "readTier"}
      PROVE  /\ tAlloc[loc[t].kind][BucketOf[t]] \in Int
             /\ loc[t].bucket \in Buckets => tAlloc[loc[t].kind][loc[t].bucket] \in Int
  BY <1>0, <1>d, Config DEF LocalsOK, DataOK
<1>12. CASE Exchange(t)
  <2> DEFINE l == [loc[t] EXCEPT !.amount = tAlloc[loc[t].kind][BucketOf[t]]]
  <2>0. pc[t] = "exchange" /\ Goto(t, "addKind", l) /\ UNCHANGED owned
    BY <1>12 DEF Exchange
  <2>1. /\ l \in Locals /\ l.kind = loc[t].kind /\ l.size = loc[t].size
        /\ l.next = loc[t].next /\ l.block = loc[t].block
    BY <1>0, <1>d, <2>0 DEF Locals
  <2> HIDE DEF l
  <2> QED BY <1>c, <2>0, <2>1
<1>13. CASE AddKind(t)
  <2>0. pc[t] = "addKind" /\ Goto(t, "addTotal", loc[t]) /\ UNCHANGED owned
    BY <1>13 DEF AddKind
  <2> QED BY <1>0, <1>c, <2>0
<1>14. CASE AddTotal(t)
  <2> DEFINE total == (gAlloc[TOTAL] + loc[t].amount) % Word
             l == [loc[t] EXCEPT !.amount = 0, !.total = total]
  <2>0. pc[t] = "addTotal" /\ Goto(t, "readHot", l) /\ UNCHANGED owned
    BY <1>14 DEF AddTotal
  <2>1. gAlloc[TOTAL] + loc[t].amount \in Int
    <3>1. gAlloc[TOTAL] \in 0..Word - 1
      BY Config DEF DataOK
    <3>2. loc[t].amount \in Int
      BY <1>0 DEF Locals
    <3> QED BY <3>1, <3>2, WordAssumption
  <2>2. total \in Nat /\ total < Word
    BY <2>1, WordAssumption
  <2> HIDE DEF total
  <2>3. /\ l \in Locals /\ l.kind = loc[t].kind /\ l.size = loc[t].size
        /\ l.next = loc[t].next /\ l.block = loc[t].block /\ l.total = total
    <3>1. l \in Locals
      BY <1>0, <2>2, UpdatedLocals
    <3> QED BY <1>0, <3>1 DEF Locals
  <2> HIDE DEF l
  <2> QED BY <1>c, <2>0, <2>2, <2>3
<1>15. CASE ReadHot(t)
  <2> DEFINE total == IF gAlloc[HotTierId] > loc[t].total THEN gAlloc[HotTierId] ELSE loc[t].total
             l == [loc[t] EXCEPT !.total = total]
  <2>0. pc[t] = "readHot" /\ Goto(t, "publish", l) /\ UNCHANGED owned
    BY <1>15 DEF ReadHot
  <2>1. gAlloc[HotTierId] \in 0..Word - 1 /\ loc[t].total \in Nat /\ loc[t].total < Word
    BY <1>0, <2>0, Config DEF DataOK, Locals, LocalsOK
  <2>2. total \in Nat /\ total < Word
    BY <2>1, WordAssumption
  <2> HIDE DEF total
  <2>3. /\ l \in Locals /\ l.kind = loc[t].kind /\ l.size = loc[t].size
        /\ l.next = loc[t].next /\ l.block = loc[t].block /\ l.total = total
    BY <1>0, <2>2 DEF Locals
  <2> HIDE DEF l
  <2> QED BY <1>c, <2>0, <2>2, <2>3
<1>16. CASE Publish(t)
  BY <1>16, ProceedCalls DEF Publish
<1>17. CASE Query(t)
  <2>1. PICK k \in Kinds : Goto(t, "sum", [NoLocals EXCEPT !.kind = k])
    BY <1>17 DEF Query
  <2> DEFINE l == [NoLocals EXCEPT !.kind = k]
  <2>2. l \in Locals /\ l.kind = k /\ l.next = "return"
    BY <1>n DEF NoLocals, Locals
  <2>3. Goto(t, "sum", l) /\ UNCHANGED owned
    BY <1>17, <2>1 DEF Query
  <2> HIDE DEF l
  <2> QED BY <1>p, <2>2, <2>3, Move
<1>18. CASE SumBucket(t)
  <2> DEFINE b == loc[t].bucket
             l == [loc[t] EXCEPT !.amount = @ + tAlloc[loc[t].kind][b], !.bucket = b + 1]
  <2>0. pc[t] = "sum" /\ b < ThreadBuckets /\ Goto(t, "sum", l) /\ UNCHANGED owned
    BY <1>18 DEF SumBucket
  <2>1. b \in Nat /\ b \in Buckets
    BY <1>0, <2>0, BucketAssumption DEF Locals, Buckets
  <2>2. tAlloc[loc[t].kind][b] \in Int
    BY <1>d, <2>0, <2>1
  <2>3. /\ l \in Locals /\ l.kind = loc[t].kind /\ l.size = loc[t].size
        /\ l.next = loc[t].next /\ l.block = loc[t].block
    <3>1. loc[t].amount + tAlloc[loc[t].kind][b] \in Int /\ b + 1 \in Nat
      BY <1>0, <2>1, <2>2 DEF Locals
    <3> QED BY <1>0, <3>1 DEF Locals
  <2> HIDE DEF l
  <2> QED BY <1>c, <2>0, <2>3
<1>19. CASE AddSum(t)
  <2>1. pc[t] = "sum" /\ Return(t)
    BY <1>19 DEF AddSum
  <2>2. owned' \in [Kinds \X Sizes -> Nat]
    <3>1. loc[t].block \in {NoBlock} \cup (Kinds \X Sizes)
      BY <1>0 DEF Locals
    <3>2. loc[t].block \in Kinds \X Sizes => owned[loc[t].block] + 1 \in Nat
      BY <1>0
    <3> QED BY <1>0, <2>1, <3>1, <3>2 DEF Return
  <2>3. Goto(t, "idle", NoLocals) /\ NoLocals \in Locals /\ NoLocals.next = "return"
    BY <2>1, FreshLocals DEF Return, NoLocals
  <2> QED BY <1>p, <2>2, <2>3, MoveThread DEF CallsOK
<1>20. CASE PmemDestroy(t)
  <2>1. PICK k \in Kinds : Destroyed(k)
    BY <1>20, DestroyEffect
  <2>2. owned' \in [Kinds \X Sizes -> Nat]
    BY <1>0, <2>1 DEF Destroyed
  <2>3. UNCHANGED <<pc, loc>>
    BY <2>1 DEF Destroyed
  <2> QED BY <2>2, <2>3 DEF CallsOK, LocalsOK
<1> QED BY <1>2, <1>3, <1>4, <1>5, <1>6, <1>8, <1>9, <1>10, <1>11, <1>12, <1>13,
           <1>14, <1>15, <1>16, <1>17, <1>18, <1>19, <1>20
-----------------------------------------------------------------------------
\* The counters never leave size_t, and every call works on a kind of the
\* memory with the block it was given (memkind_memtier.c's increment, decrement,
\* flush and query, in any interleaving).
THEOREM TypeCorrect == Spec => []TypeOK
<1>1. Init => TypeOK
  <2> SUFFICES ASSUME Init PROVE DataOK /\ CallsOK
    BY TypeParts
  <2>1. DataOK
    BY WordAssumption DEF Init, DataOK
  <2>2. CallsOK
    <3>1. /\ pc \in [Threads -> PCs] /\ loc \in [Threads -> Locals]
          /\ owned \in [Kinds \X Sizes -> Nat]
      BY FreshLocals DEF Init, PCs
    <3>2. ASSUME NEW t \in Threads PROVE LocalsOK(t)
      BY DEF Init, LocalsOK, NoLocals
    <3> QED BY <3>1, <3>2 DEF CallsOK
  <2> QED BY <2>1, <2>2
<1>2. TypeOK /\ [Next]_vars => TypeOK'
  <2> SUFFICES ASSUME DataOK, CallsOK, [Next]_vars PROVE DataOK' /\ CallsOK'
    BY DEF TypeOK, DataOK, CallsOK, PCs
  <2>1. CASE Next
    BY <2>1, DataStep, CallsStep DEF Next
  <2>2. CASE UNCHANGED vars
    <3>1. DataOK'
      BY <2>2 DEF vars, DataOK
    <3>2. CallsOK'
      BY <2>2 DEF vars, CallsOK, LocalsOK
    <3> QED BY <3>1, <3>2
  <2> QED BY <2>1, <2>2
<1> QED BY <1>1, <1>2, PTL DEF Spec

\* A step that changes no bucket, of a thread that is not at its exchange,
\* strands nothing.
LEMMA SteadyBuckets ==
  ASSUME NothingStranded, pc \in [Threads -> PCs], loc \in [Threads -> Locals],
         NEW u \in Threads, pc[u] # "exchange", UNCHANGED tAlloc,
         NEW p, NEW l, Goto(u, p, l)
  PROVE  NothingStranded'
<1> SUFFICES ASSUME NEW k \in Kinds, NEW b \in Buckets, tAlloc[k][b] # 0
             PROVE  \E t \in Threads : /\ pc'[t] = "exchange"
                                       /\ loc'[t].kind = k /\ BucketOf[t] = b
  BY DEF NothingStranded
<1>1. PICK t \in Threads : pc[t] = "exchange" /\ loc[t].kind = k /\ BucketOf[t] = b
  BY DEF NothingStranded
<1>2. pc'[t] = pc[t] /\ loc'[t] = loc[t]
  BY <1>1 DEF Goto
<1> QED BY <1>1, <1>2

\* A step that changes one bucket strands nothing when it leaves the bucket
\* empty, or goes to flush it, or leaves it non-empty as it was before.
LEMMA OneBucket ==
  ASSUME NothingStranded, tAlloc \in [Kinds -> [Buckets -> Int]],
         pc \in [Threads -> PCs], loc \in [Threads -> Locals],
         NEW u \in Threads, NEW k \in Kinds, NEW b \in Buckets, NEW n \in Int,
         tAlloc' = [tAlloc EXCEPT ![k][b] = n],
         NEW p, NEW l, Goto(u, p, l),
         pc[u] = "exchange" => loc[u].kind = k /\ BucketOf[u] = b,
         \/ n = 0
         \/ p = "exchange" /\ l.kind = k /\ BucketOf[u] = b
         \/ pc[u] # "exchange" /\ tAlloc[k][b] # 0
  PROVE  NothingStranded'
<1> SUFFICES ASSUME NEW i \in Kinds, NEW c \in Buckets, tAlloc'[i][c] # 0
             PROVE  \E t \in Threads : /\ pc'[t] = "exchange"
                                       /\ loc'[t].kind = i /\ BucketOf[t] = c
  BY DEF NothingStranded
<1>1. ASSUME NEW t \in Threads, t # u PROVE pc'[t] = pc[t] /\ loc'[t] = loc[t]
  BY <1>1 DEF Goto
<1>2. pc'[u] = p /\ loc'[u] = l
  BY DEF Goto
<1>3. CASE i = k /\ c = b
  <2>1. n # 0
    BY <1>3
  <2>2. CASE p = "exchange" /\ l.kind = k /\ BucketOf[u] = b
    BY <1>2, <1>3, <2>2
  <2>3. CASE pc[u] # "exchange" /\ tAlloc[k][b] # 0
    <3>1. PICK t \in Threads : pc[t] = "exchange" /\ loc[t].kind = k /\ BucketOf[t] = b
      BY <2>3 DEF NothingStranded
    <3> QED BY <1>1, <1>3, <2>3, <3>1
  <2> QED BY <2>1, <2>2, <2>3
<1>4. CASE ~(i = k /\ c = b)
  <2>1. tAlloc[i][c] # 0
    BY <1>4
  <2>2. PICK t \in Threads : pc[t] = "exchange" /\ loc[t].kind = i /\ BucketOf[t] = c
    BY <2>1 DEF NothingStranded
  <2>3. t # u
    BY <1>4, <2>2
  <2> QED BY <1>1, <2>2, <2>3
<1> QED BY <1>3, <1>4

\* No size is stranded: a bucket of t_alloc_size that is not empty always has a
\* thread between its addition and its exchange, for any number of threads that
\* share the bucket, although decrement_alloc_size flushes only below zero.
THEOREM NoSizeStranded == Spec => []NothingStranded
<1>1. Init => NothingStranded
  BY DEF Init, NothingStranded
<1>2. TypeOK /\ NothingStranded /\ [Next]_vars => NothingStranded'
  <2> SUFFICES ASSUME DataOK, CallsOK, NothingStranded, [Next]_vars
               PROVE  NothingStranded'
    BY TypeParts
  <2>1. CASE UNCHANGED vars
    BY <2>1 DEF vars, NothingStranded
  <2>2. ASSUME NEW t \in Threads,
               \/ Malloc(t) \/ ReadFirst(t) \/ ReadTier(t)
               \/ Free(t) \/ Realloc(t) \/ Reallocate(t) \/ ReallocFails(t)
               \/ AddKind(t) \/ AddTotal(t) \/ ReadHot(t) \/ Publish(t)
               \/ Query(t) \/ AddSum(t)
        PROVE  NothingStranded'
    <3>1. pc[t] # "exchange" /\ UNCHANGED tAlloc
      BY <2>2 DEF Malloc, ReadFirst, ReadTier, Free, Realloc, Reallocate, ReallocFails,
                  AddKind, AddTotal, ReadHot, Publish, Query, AddSum, Begin
    <3>2. \E p, l : Goto(t, p, l)
      <4>1. CASE Malloc(t)
        BY <4>1 DEF Malloc, Allocate
      <4>2. CASE ReadFirst(t) \/ Free(t) \/ Realloc(t) \/ Reallocate(t) \/ ReallocFails(t)
                 \/ Query(t)
        BY <4>2 DEF ReadFirst, Free, Realloc, Reallocate, ReallocFails, Query
      <4>3. CASE ReadTier(t)
        BY <4>3 DEF ReadTier, Allocate
      <4>4. CASE AddKind(t) \/ AddTotal(t) \/ ReadHot(t)
        BY <4>4 DEF AddKind, AddTotal, ReadHot
      <4>5. CASE Publish(t) \/ AddSum(t)
        BY <4>5 DEF Publish, AddSum, Proceed, Return
      <4> QED BY <2>2, <4>1, <4>2, <4>3, <4>4, <4>5
    <3> QED BY <3>1, <3>2, SteadyBuckets DEF CallsOK
  <2>3. ASSUME NEW t \in Threads, Increment(t) PROVE NothingStranded'
    <3> DEFINE k == loc[t].kind
               b == BucketOf[t]
               new == tAlloc[k][b] + loc[t].size
    <3>1. /\ pc[t] = "increment" /\ tAlloc' = [tAlloc EXCEPT ![k][b] = new]
          /\ IF new # 0 THEN Goto(t, "exchange", loc[t]) ELSE Proceed(t)
      BY <2>3 DEF Increment
    <3>2. k \in Kinds /\ b \in Buckets /\ loc[t].size \in Nat
      BY <3>1, Config DEF CallsOK, LocalsOK, Locals
    <3>3. new \in Int
      BY <3>2 DEF DataOK
    <3>4. Proceed(t) => \E p, l : Goto(t, p, l)
      BY DEF Proceed, Return
    <3> HIDE DEF new
    <3>5. CASE new # 0
      BY <3>1, <3>2, <3>3, <3>5, OneBucket DEF CallsOK, DataOK
    <3>6. CASE new = 0
      BY <3>1, <3>2, <3>3, <3>4, <3>6, OneBucket DEF CallsOK, DataOK
    <3> QED BY <3>5, <3>6
  <2>4. ASSUME NEW t \in Threads, Decrement(t) PROVE NothingStranded'
    <3> DEFINE k == loc[t].kind
               b == BucketOf[t]
               new == tAlloc[k][b] - loc[t].size
    <3>1. /\ pc[t] = "decrement" /\ tAlloc' = [tAlloc EXCEPT ![k][b] = new]
          /\ IF new < 0 THEN Goto(t, "exchange", loc[t]) ELSE Proceed(t)
      BY <2>4 DEF Decrement
    <3>2. k \in Kinds /\ b \in Buckets /\ loc[t].size \in Nat
      BY <3>1, Config DEF CallsOK, LocalsOK, Locals
    <3>3. new \in Int /\ (new > 0 => tAlloc[k][b] # 0)
      BY <3>2 DEF DataOK
    <3>4. Proceed(t) => \E p, l : Goto(t, p, l)
      BY DEF Proceed, Return
    <3> HIDE DEF new
    <3>5. CASE new < 0
      BY <3>1, <3>2, <3>3, <3>5, OneBucket DEF CallsOK, DataOK
    <3>6. CASE ~(new < 0)
      <4>1. new = 0 \/ tAlloc[k][b] # 0
        BY <3>3, <3>6
      <4>2. PICK p, l : Goto(t, p, l)
        BY <3>1, <3>4, <3>6
      <4> QED BY <3>1, <3>2, <3>3, <4>1, <4>2, OneBucket DEF CallsOK, DataOK
    <3> QED BY <3>5, <3>6
  <2>5. ASSUME NEW t \in Threads, Exchange(t) PROVE NothingStranded'
    <3>1. /\ pc[t] = "exchange" /\ tAlloc' = [tAlloc EXCEPT ![loc[t].kind][BucketOf[t]] = 0]
          /\ \E p, l : Goto(t, p, l)
      BY <2>5 DEF Exchange
    <3>2. loc[t].kind \in Kinds /\ BucketOf[t] \in Buckets
      BY <3>1, Config DEF CallsOK, LocalsOK
    <3>3. PICK p, l : Goto(t, p, l)
      BY <3>1
    <3>4. DataOK /\ CallsOK /\ 0 \in Int
      OBVIOUS
    <3> QED BY <3>1, <3>2, <3>3, <3>4, OneBucket, Zenon DEF CallsOK, DataOK
  <2>6. ASSUME NEW t \in Threads, SumBucket(t) PROVE NothingStranded'
    <3>1. /\ pc[t] = "sum" /\ tAlloc' = [tAlloc EXCEPT ![loc[t].kind][loc[t].bucket] = 0]
          /\ loc[t].bucket < ThreadBuckets /\ \E p, l : Goto(t, p, l)
      BY <2>6 DEF SumBucket
    <3>2. loc[t].kind \in Kinds /\ loc[t].bucket \in Nat
      BY <3>1 DEF CallsOK, LocalsOK, Locals
    <3>3. loc[t].bucket \in Buckets
      BY <3>1, <3>2, BucketAssumption DEF Buckets
    <3>4. PICK p, l : Goto(t, p, l)
      BY <3>1
    <3>5. pc[t] # "exchange" /\ 0 \in Int
      BY <3>1
    <3> QED BY <3>1, <3>2, <3>3, <3>4, <3>5, OneBucket, Zenon DEF CallsOK, DataOK
  <2>7. ASSUME NEW t \in Threads, PmemDestroy(t) PROVE NothingStranded'
    <3>1. PICK k \in Kinds : Destroyed(k)
      BY <2>7, DestroyEffect
    <3>2. /\ \A b \in Buckets : tAlloc'[k][b] = 0
          /\ \A i \in Kinds : i # k => tAlloc'[i] = tAlloc[i]
      BY <3>1 DEF Destroyed, DataOK
    <3>3. UNCHANGED <<pc, loc>>
      BY <3>1 DEF Destroyed
    <3> QED BY <3>2, <3>3 DEF NothingStranded
  <2> QED BY <2>1, <2>2, <2>3, <2>4, <2>5, <2>6, <2>7 DEF Next
<1> QED BY <1>1, <1>2, TypeCorrect, PTL DEF Spec
-----------------------------------------------------------------------------
\* The sets that sums range over are finite.
LEMMA FiniteSums ==
  IsFiniteSet(Threads) /\ IsFiniteSet(Sizes) /\ IsFiniteSet(Buckets) /\ IsFiniteSet(Kinds)
<1>1. IsFiniteSet(Buckets)
  BY BucketAssumption, FS_Interval DEF Buckets
<1>2. IsFiniteSet(Kinds)
  <2>1. Cfg \in [1..Len(Cfg) -> Kinds] /\ IsFiniteSet(1..Len(Cfg))
    <3>1. Len(Cfg) \in Nat /\ Cfg \in [1..Len(Cfg) -> Nat]
      BY CfgAssumption
    <3> QED BY <3>1, FS_Interval DEF Kinds
  <2>2. Cfg \in Surjection(1..Len(Cfg), Kinds)
    BY <2>1 DEF Surjection, Kinds
  <2> QED BY <2>1, <2>2, FS_Surjection
<1> QED BY <1>1, <1>2, FiniteAssumption

\* What the calls keep for the counters, beyond their types.
CallKept(t) ==
  /\ pc[t] = "increment" => loc[t].next = "return" /\ (loc[t].block = NoBlock => loc[t].size = 0)
  /\ pc[t] = "decrement" /\ loc[t].next = "return" => loc[t].block = NoBlock
  /\ pc[t] = "sum" => loc[t].block = NoBlock
  /\ pc[t] \notin {"idle", "readFirst", "readTier"} /\ loc[t].block # NoBlock
       => loc[t].block[1] = loc[t].kind
CallsKept == \A t \in Threads : CallKept(t)

Held(k) == SumFunction([t \in Threads |-> Holds(t, k)])

\* A block is its kind and its size.
LEMMA BlockParts ==
  ASSUME NEW b \in Kinds \X Sizes
  PROVE  b[1] \in Kinds /\ b[2] \in Sizes /\ b[2] \in Nat /\ b = <<b[1], b[2]>>
<1>1. b[1] \in Kinds /\ b[2] \in Sizes /\ b = <<b[1], b[2]>>
  OBVIOUS
<1>2. Sizes \subseteq Nat
  BY SizeAssumption
<1> QED BY <1>1, <1>2

\* The values that the sums over the threads add up.
LEMMA ThreadValues ==
  ASSUME CallsOK, NEW t \in Threads, NEW k
  PROVE  Carries(t, k) \in Int /\ Holds(t, k) \in Int
<1>1. loc[t] \in Locals
  BY DEF CallsOK
<1>2. loc[t].amount \in Int /\ loc[t].size \in Int
  BY <1>1 DEF Locals
<1>3. loc[t].block # NoBlock => loc[t].block[2] \in Int
  <2>1. loc[t].block \in {NoBlock} \cup (Kinds \X Sizes)
    BY <1>1 DEF Locals
  <2> QED BY <2>1, BlockParts
<1> QED BY <1>2, <1>3 DEF Carries, Holds

\* A step of one thread changes the sums over the threads by what changes for it.
LEMMA ThreadSums ==
  ASSUME CallsOK, CallsOK', NEW t \in Threads, NEW p, NEW l, Goto(t, p, l), NEW k
  PROVE  /\ Carried(k) \in Int /\ Carried(k)' = Carried(k) + Carries(t, k)' - Carries(t, k)
         /\ Held(k) \in Int /\ Held(k)' = Held(k) + Holds(t, k)' - Holds(t, k)
<1>1. ASSUME NEW u \in Threads, u # t
      PROVE  Carries(u, k)' = Carries(u, k) /\ Holds(u, k)' = Holds(u, k)
  <2>1. pc'[u] = pc[u] /\ loc'[u] = loc[u]
    BY <1>1 DEF CallsOK, Goto
  <2> QED BY <2>1 DEF Carries, Holds
<1>2. ASSUME NEW u \in Threads
      PROVE  /\ Carries(u, k) \in Int /\ Holds(u, k) \in Int
             /\ Carries(u, k)' \in Int /\ Holds(u, k)' \in Int
  <2>1. Carries(u, k) \in Int /\ Holds(u, k) \in Int
    BY ThreadValues
  <2>2. loc'[u] \in Locals
    BY DEF CallsOK
  <2>3. loc'[u].amount \in Int /\ loc'[u].size \in Int
    BY <2>2 DEF Locals
  <2>4. loc'[u].block # NoBlock => loc'[u].block[2] \in Int
    <3>1. loc'[u].block \in {NoBlock} \cup (Kinds \X Sizes)
      BY <2>2 DEF Locals
    <3> QED BY <3>1, BlockParts
  <2> QED BY <2>1, <2>3, <2>4 DEF Carries, Holds
<1>3. /\ Carried(k) \in Int /\ Carried(k)' = Carried(k) + Carries(t, k)' - Carries(t, k)
  <2> DEFINE f == [u \in Threads |-> Carries(u, k)]
             g == [u \in Threads |-> Carries(u, k)']
  <2>1. /\ Carried(k) = SumFunctionOnSet(f, Threads) 
        /\ Carried(k)' = SumFunctionOnSet(g, Threads)
    BY DEF Carried, SumFunction
  <2>2. \A u \in Threads : f[u] \in Int /\ g[u] \in Int
    BY <1>2
  <2>3. \A u \in Threads \ {t} : g[u] = f[u]
    BY <1>1
  <2>4. f[t] = Carries(t, k) /\ g[t] = Carries(t, k)'
    OBVIOUS
  <2> HIDE DEF f, g
  <2>5. SumFunctionOnSet(f, Threads) \in Int
    BY <2>2, FiniteSums, SumInt
  <2>6. SumFunctionOnSet(g, Threads) = SumFunctionOnSet(f, Threads) + g[t] - f[t]
    BY <2>2, <2>3, FiniteSums, SumChange
  <2> QED BY <2>1, <2>4, <2>5, <2>6
<1>4. /\ Held(k) \in Int /\ Held(k)' = Held(k) + Holds(t, k)' - Holds(t, k)
  <2> DEFINE f == [u \in Threads |-> Holds(u, k)]
             g == [u \in Threads |-> Holds(u, k)']
  <2>1. /\ Held(k) = SumFunctionOnSet(f, Threads) 
        /\ Held(k)' = SumFunctionOnSet(g, Threads)
    BY DEF Held, SumFunction
  <2>2. \A u \in Threads : f[u] \in Int /\ g[u] \in Int
    BY <1>2
  <2>3. \A u \in Threads \ {t} : g[u] = f[u]
    BY <1>1
  <2>4. f[t] = Holds(t, k) /\ g[t] = Holds(t, k)'
    OBVIOUS
  <2> HIDE DEF f, g
  <2>5. SumFunctionOnSet(f, Threads) \in Int
    BY <2>2, FiniteSums, SumInt
  <2>6. SumFunctionOnSet(g, Threads) = SumFunctionOnSet(f, Threads) + g[t] - f[t]
    BY <2>2, <2>3, FiniteSums, SumChange
  <2> QED BY <2>1, <2>4, <2>5, <2>6
<1> QED BY <1>3, <1>4

\* The sum of the buckets of a kind is an integer, and moves with one of them.
LEMMA BucketSum ==
  ASSUME DataOK, NEW k \in Kinds
  PROVE  /\ Bucketed(k) \in Int
         /\ UNCHANGED tAlloc => Bucketed(k)' = Bucketed(k)
         /\ \A i \in Kinds, b \in Buckets, n \in Int :
              tAlloc' = [tAlloc EXCEPT ![i][b] = n]
                => Bucketed(k)' = Bucketed(k) + IF i = k THEN n - tAlloc[i][b] ELSE 0
<1>1. tAlloc[k] \in [Buckets -> Int]
  BY DEF DataOK
<1>2. Bucketed(k) = SumFunctionOnSet(tAlloc[k], Buckets) /\ Bucketed(k) \in Int
  BY <1>1, SumInt, FiniteSums DEF Bucketed, SumFunction
<1>3. ASSUME NEW i \in Kinds, NEW b \in Buckets, NEW n \in Int,
             tAlloc' = [tAlloc EXCEPT ![i][b] = n]
      PROVE  Bucketed(k)' = Bucketed(k) + IF i = k THEN n - tAlloc[i][b] ELSE 0
  <2>1. CASE i = k
    <3> DEFINE g == [tAlloc[k] EXCEPT ![b] = n]
    <3>1. tAlloc'[k] = g /\ g \in [Buckets -> Int]
      BY <1>1, <1>3, <2>1 DEF DataOK
    <3>2. /\ \A x \in Buckets : tAlloc[k][x] \in Int /\ g[x] \in Int
          /\ \A x \in Buckets \ {b} : g[x] = tAlloc[k][x]
          /\ g[b] = n
      BY <1>1
    <3>3. Bucketed(k)' = SumFunctionOnSet(g, Buckets)
      BY <3>1 DEF Bucketed, SumFunction
    <3> HIDE DEF g
    <3>4. SumFunctionOnSet(g, Buckets) = SumFunctionOnSet(tAlloc[k], Buckets) + g[b] - tAlloc[k][b]
      BY <3>2, FiniteSums, SumChange
    <3>5. tAlloc[k][b] \in Int
      BY <1>1
    <3> QED BY <1>2, <2>1, <3>2, <3>3, <3>4, <3>5
  <2>2. CASE i # k
    <3>1. tAlloc'[k] = tAlloc[k]
      BY <1>3, <2>2 DEF DataOK
    <3>2. Bucketed(k)' = Bucketed(k)
      BY <3>1 DEF Bucketed
    <3> QED BY <1>2, <2>2, <3>2
  <2> QED BY <2>1, <2>2
<1>4. UNCHANGED tAlloc => Bucketed(k)' = Bucketed(k)
  BY DEF Bucketed
<1> QED BY <1>2, <1>3, <1>4

\* The size of the live blocks of a kind moves with the blocks.
LEMMA LiveSum ==
  ASSUME CallsOK, NEW k \in Kinds
  PROVE  /\ LiveSize(k) \in Int
         /\ UNCHANGED owned => LiveSize(k)' = LiveSize(k)
         /\ \A i \in Kinds, s \in Sizes, d \in {-1, 1} :
              owned' = [owned EXCEPT ![<<i, s>>] = @ + d]
                => LiveSize(k)' = LiveSize(k) + IF i = k THEN s * d ELSE 0
<1> DEFINE f == [s \in Sizes |-> s * owned[<<k, s>>]]
           g == [s \in Sizes |-> s * owned'[<<k, s>>]]
<1>1. \A s \in Sizes : s \in Int /\ owned[<<k, s>>] \in Int
  BY SizeAssumption DEF CallsOK
<1>2. LiveSize(k) = SumFunctionOnSet(f, Sizes) /\ LiveSize(k)' = SumFunctionOnSet(g, Sizes)
  BY DEF LiveSize, SumFunction
<1>3. \A s \in Sizes : f[s] \in Int
  BY <1>1
<1>4. LiveSize(k) \in Int
  <2> HIDE DEF f
  <2> QED BY <1>2, <1>3, FiniteSums, SumInt
<1>5. ASSUME NEW i \in Kinds, NEW s \in Sizes, NEW d \in {-1, 1},
             owned' = [owned EXCEPT ![<<i, s>>] = @ + d]
      PROVE  LiveSize(k)' = LiveSize(k) + IF i = k THEN s * d ELSE 0
  <2>1. \A x \in Sizes : owned'[<<k, x>>] = IF i = k /\ x = s THEN owned[<<k, x>>] + d
                                            ELSE owned[<<k, x>>]
    BY <1>5 DEF CallsOK
  <2>2. CASE i = k
    <3>1. \A x \in Sizes : g[x] \in Int
      BY <1>1, <2>1
    <3>2. \A x \in Sizes \ {s} : g[x] = f[x]
      BY <2>1
    <3>3. g[s] - f[s] = s * d
      <4>1. f[s] = s * owned[<<k, s>>] /\ g[s] = s * (owned[<<k, s>>] + d)
        BY <2>1, <2>2
      <4>2. s \in Int /\ owned[<<k, s>>] \in Int /\ d \in Int
        BY <1>1
      <4>3. CASE d = 1
        BY <4>1, <4>2, <4>3
      <4>4. CASE d = -1
        BY <4>1, <4>2, <4>4
      <4> QED BY <4>3, <4>4
    <3>4. f[s] \in Int /\ g[s] \in Int
      BY <1>3, <3>1
    <3> HIDE DEF f, g
    <3>5. SumFunctionOnSet(g, Sizes) = SumFunctionOnSet(f, Sizes) + g[s] - f[s]
      BY <1>3, <3>1, <3>2, FiniteSums, SumChange
    <3> QED BY <1>2, <1>4, <2>2, <3>3, <3>4, <3>5
  <2>3. CASE i # k
    <3>1. g = f
      BY <2>1, <2>3
    <3> HIDE DEF f, g
    <3> QED BY <1>2, <1>4, <2>3, <3>1
  <2> QED BY <2>2, <2>3
<1>6. UNCHANGED owned => LiveSize(k)' = LiveSize(k)
  BY DEF LiveSize
<1> QED BY <1>4, <1>5, <1>6
-----------------------------------------------------------------------------
\* A thread that moves to p with locals l keeps CallsKept when l does.
LEMMA MoveKept ==
  ASSUME pc \in [Threads -> PCs], loc \in [Threads -> Locals], CallsKept,
         NEW u \in Threads, NEW p, NEW l, Goto(u, p, l),
         p = "increment" => l.next = "return" /\ (l.block = NoBlock => l.size = 0),
         p = "decrement" /\ l.next = "return" => l.block = NoBlock,
         p = "sum" => l.block = NoBlock,
         p \notin {"idle", "readFirst", "readTier"} /\ l.block # NoBlock
           => l.block[1] = l.kind
  PROVE  CallsKept'
<1> SUFFICES ASSUME NEW t \in Threads PROVE CallKept(t)'
  BY DEF CallsKept
<1>1. CASE t = u
  <2>1. pc'[t] = p /\ loc'[t] = l
    BY <1>1 DEF Goto
  <2> QED BY <2>1 DEF CallKept
<1>2. CASE t # u
  <2>1. pc'[t] = pc[t] /\ loc'[t] = loc[t]
    BY <1>2 DEF Goto
  <2> QED BY <2>1 DEF CallKept, CallsKept
<1> QED BY <1>1, <1>2

\* A step that stays in the flush, with the same block, size and kind.
LEMMA FlushKept ==
  ASSUME CallsOK, CallsKept, NEW t \in Threads, NEW p \in Flushing, NEW l,
         Goto(t, p, l), pc[t] \notin {"idle", "readFirst", "readTier"},
         l.block = loc[t].block, l.kind = loc[t].kind
  PROVE  CallsKept'
<1>1. p \notin {"increment", "decrement", "sum"}
  BY DEF Flushing
<1>2. l.block # NoBlock => l.block[1] = l.kind
  BY DEF CallsKept, CallKept
<1> QED BY <1>1, <1>2, MoveKept DEF CallsOK

\* The end of an increment, a decrement or a flush.
LEMMA ProceedKept ==
  ASSUME CallsOK, CallsKept, NEW t \in Threads, Proceed(t), 
         pc[t] \notin {"idle", "readFirst", "readTier"}
  PROVE  CallsKept'
<1>1. CASE loc[t].next = "return"
  <2>1. Goto(t, "idle", NoLocals) /\ "idle" \in PCs
    BY <1>1 DEF Proceed, Return, PCs
  <2> QED BY <2>1, FreshLocals, MoveKept DEF CallsOK
<1>2. CASE loc[t].next # "return"
  <2>1. loc[t] \in Locals
    BY DEF CallsOK
  <2>2. loc[t].next = "realloc"
    BY <1>2, <2>1 DEF Locals
  <2>3. Goto(t, "realloc", loc[t]) /\ "realloc" \in PCs
    BY <1>2, <2>2 DEF Proceed, PCs
  <2>4. loc[t].block # NoBlock => loc[t].block[1] = loc[t].kind
    BY DEF CallsKept, CallKept
  <2> QED BY <2>1, <2>3, <2>4, MoveKept DEF CallsOK
<1> QED BY <1>1, <1>2

\* The start of an allocation.
LEMMA AllocateKept ==
  ASSUME CallsOK, CallsKept, NEW t \in Threads, NEW k \in Kinds, NEW s \in Sizes,
         Allocate(t, k, s)
  PROVE  CallsKept'
<1>1. k \in Nat /\ s \in Nat /\ <<k, s>> \in Kinds \X Sizes /\ <<k, s>> # NoBlock
  BY Config, SizeAssumption DEF NoBlock
<1>2. "increment" \in PCs
  BY DEF PCs
<1>3. CASE Goto(t, "increment", [NoLocals EXCEPT !.kind = k, !.size = s, !.block = <<k, s>>])
  <2> DEFINE l == [NoLocals EXCEPT !.kind = k, !.size = s, !.block = <<k, s>>]
  <2>1. l \in Locals
    BY <1>1, FreshLocals, UpdatedLocals
  <2>2. l.next = "return" /\ l.block = <<k, s>> /\ l.kind = k
    BY DEF NoLocals
  <2>3. Goto(t, "increment", l)
    BY <1>3
  <2> HIDE DEF l
  <2> QED BY <1>1, <1>2, <2>1, <2>2, <2>3, MoveKept DEF CallsOK
<1>4. CASE Goto(t, "increment", [NoLocals EXCEPT !.kind = k])
  <2> DEFINE l == [NoLocals EXCEPT !.kind = k]
  <2>1. l \in Locals
    BY <1>1, FreshLocals DEF Locals
  <2>2. l.next = "return" /\ l.block = NoBlock /\ l.size = 0
    BY DEF NoLocals
  <2>3. Goto(t, "increment", l)
    BY <1>4
  <2> HIDE DEF l
  <2> QED BY <1>2, <2>1, <2>2, <2>3, MoveKept DEF CallsOK
<1> QED BY <1>3, <1>4 DEF Allocate

\* Every step keeps what the calls keep for the counters.
LEMMA KeptStep ==
  ASSUME CallsOK, DataOK, CallsKept, Next
  PROVE  CallsKept'
<1> USE DEF CallsOK
<1>1. ASSUME NEW t \in Threads, Malloc(t) PROVE CallsKept'
  <2>1. PICK s \in Sizes : IF Len(Cfg) = 1 THEN Allocate(t, Cfg[1], s)
                           ELSE Goto(t, "readFirst", [NoLocals EXCEPT !.size = s])
    BY <1>1 DEF Malloc
  <2>2. CASE Len(Cfg) = 1
    BY <2>1, <2>2, CfgLength, AllocateKept
  <2>3. CASE Len(Cfg) # 1
    <3> DEFINE l == [NoLocals EXCEPT !.size = s]
    <3>1. Goto(t, "readFirst", l)
      BY <2>1, <2>3
    <3> HIDE DEF l
    <3> QED BY <3>1, MoveKept
  <2> QED BY <2>2, <2>3
<1>2. ASSUME NEW t \in Threads, ReadFirst(t) PROVE CallsKept'
  <2> DEFINE l == [loc[t] EXCEPT !.first = gAlloc[Cfg[1]], !.tier = 2, !.dest = 1]
  <2>2. Goto(t, "readTier", l)
    BY <1>2 DEF ReadFirst
  <2> HIDE DEF l
  <2> QED BY <2>2, MoveKept
<1>3. ASSUME NEW t \in Threads, ReadTier(t) PROVE CallsKept'
  <2> DEFINE i == loc[t].tier
             dest == IF gAlloc[Cfg[i]] * Ratio[1] < loc[t].first * Ratio[i]
                     THEN i ELSE loc[t].dest
             l == [loc[t] EXCEPT !.tier = i + 1, !.dest = dest]
  <2>1. pc[t] = "readTier" /\ IF i < Len(Cfg) THEN Goto(t, "readTier", l)
                              ELSE Allocate(t, Cfg[dest], loc[t].size)
    BY <1>3 DEF ReadTier
  <2>2. LocalsOK(t) /\ loc[t] \in Locals
    OBVIOUS
  <2>3. i \in 2..Len(Cfg) /\ dest \in 1..Len(Cfg) /\ loc[t].size \in Sizes
    BY <2>1, <2>2 DEF LocalsOK
  <2>4. CASE i < Len(Cfg)
    <3>1. Goto(t, "readTier", l)
      BY <2>1, <2>4
    <3> HIDE DEF l
    <3> QED BY <3>1, MoveKept
  <2>5. CASE ~(i < Len(Cfg))
    <3>1. Cfg[dest] \in Kinds
      BY <2>3, Config
    <3> QED BY <2>1, <2>3, <2>5, <3>1, AllocateKept
  <2> QED BY <2>4, <2>5
<1>4. ASSUME NEW t \in Threads, Free(t) PROVE CallsKept'
  <2>1. PICK k \in Kinds, s \in Sizes :
          Goto(t, "decrement", [NoLocals EXCEPT !.kind = k, !.size = s])
    BY <1>4 DEF Free
  <2> DEFINE l == [NoLocals EXCEPT !.kind = k, !.size = s]
  <2>2. l \in Locals
    BY FreshLocals, Config, SizeAssumption DEF Locals
  <2>3. l.block = NoBlock /\ Goto(t, "decrement", l) /\ "decrement" \in PCs
    BY <2>1 DEF PCs, NoLocals
  <2> HIDE DEF l
  <2> QED BY <2>2, <2>3, MoveKept
<1>5. ASSUME NEW t \in Threads, Realloc(t) PROVE CallsKept'
  <2>1. PICK k \in Kinds, s \in Sizes, n \in Sizes :
          Goto(t, "decrement", [NoLocals EXCEPT !.kind = k, !.size = s,
                                   !.next = "realloc", !.block = <<k, n>>])
    BY <1>5 DEF Realloc
  <2> DEFINE l == [NoLocals EXCEPT !.kind = k, !.size = s, !.next = "realloc",
                                   !.block = <<k, n>>]
  <2>2. k \in Nat /\ s \in Nat /\ <<k, n>> \in Kinds \X Sizes
    BY Config, SizeAssumption
  <2>3. l \in Locals
    BY <2>2, FreshLocals, UpdatedLocals
  <2>4. l.next = "realloc" /\ l.block[1] = l.kind /\ "decrement" \in PCs
    BY DEF PCs, NoLocals
  <2>5. Goto(t, "decrement", l)
    BY <2>1
  <2> HIDE DEF l
  <2> QED BY <2>3, <2>4, <2>5, MoveKept
<1>6. ASSUME NEW t \in Threads, Reallocate(t) PROVE CallsKept'
  <2> DEFINE l == [loc[t] EXCEPT !.size = loc[t].block[2], !.next = "return"]
  <2>1. /\ pc[t] = "realloc" /\ loc[t] \in Locals /\ LocalsOK(t) /\ CallKept(t)
        /\ Goto(t, "increment", l)
    BY <1>6 DEF Reallocate, CallsKept
  <2>2. loc[t].block # NoBlock /\ loc[t].block[1] = loc[t].kind
    BY <2>1 DEF LocalsOK, CallKept
  <2>3. loc[t].block[2] \in Nat
    BY <2>1, <2>2, BlockParts DEF Locals
  <2>4. l \in Locals
    BY <2>1, <2>3 DEF Locals
  <2>5. l.next = "return" /\ l.block = loc[t].block /\ l.kind = loc[t].kind
    BY <2>1 DEF Locals
  <2>6. "increment" \in PCs
    BY DEF PCs
  <2> HIDE DEF l
  <2> QED BY <2>1, <2>2, <2>4, <2>5, <2>6, MoveKept
<1>7. ASSUME NEW t \in Threads, ReallocFails(t) PROVE CallsKept'
  <2> DEFINE l == [loc[t] EXCEPT !.block = <<loc[t].kind, loc[t].size>>,
                                 !.size = 0, !.next = "return"]
  <2>1. /\ pc[t] = "realloc" /\ loc[t] \in Locals /\ LocalsOK(t)
        /\ Goto(t, "increment", l)
    BY <1>7 DEF ReallocFails
  <2>2. <<loc[t].kind, loc[t].size>> \in Kinds \X Sizes
    BY <2>1 DEF LocalsOK
  <2>3. l \in Locals
    BY <2>1, <2>2 DEF Locals
  <2>4. l.next = "return" /\ l.size = 0 /\ l.block[1] = l.kind
    BY <2>1 DEF Locals
  <2>5. "increment" \in PCs
    BY DEF PCs
  <2> HIDE DEF l
  <2> QED BY <2>1, <2>3, <2>4, <2>5, MoveKept
<1>8. ASSUME NEW t \in Threads, Increment(t) \/ Decrement(t) PROVE CallsKept'
  <2>1. pc[t] \in {"increment", "decrement"} /\ (Goto(t, "exchange", loc[t]) \/ Proceed(t))
    BY <1>8 DEF Increment, Decrement
  <2>2. "exchange" \in Flushing /\ loc[t] \in Locals
    BY DEF Flushing
  <2> QED BY <2>1, <2>2, FlushKept, ProceedKept
<1>9. ASSUME NEW t \in Threads, Exchange(t) PROVE CallsKept'
  <2> DEFINE l == [loc[t] EXCEPT !.amount = tAlloc[loc[t].kind][BucketOf[t]]]
  <2>1. pc[t] = "exchange" /\ loc[t] \in Locals /\ LocalsOK(t) /\ Goto(t, "addKind", l)
    BY <1>9 DEF Exchange
  <2>2. tAlloc[loc[t].kind][BucketOf[t]] \in Int
    BY <2>1, Config DEF DataOK, LocalsOK
  <2>3. l.block = loc[t].block /\ l.kind = loc[t].kind
    BY <2>1, <2>2 DEF Locals
  <2>4. "addKind" \in Flushing
    BY DEF Flushing
  <2> HIDE DEF l
  <2> QED BY <2>1, <2>3, <2>4, FlushKept
<1>10. ASSUME NEW t \in Threads, AddKind(t) PROVE CallsKept'
  <2>1. pc[t] = "addKind" /\ loc[t] \in Locals /\ Goto(t, "addTotal", loc[t])
    BY <1>10 DEF AddKind
  <2>2. "addTotal" \in Flushing
    BY DEF Flushing
  <2> QED BY <2>1, <2>2, FlushKept
<1>11. ASSUME NEW t \in Threads, AddTotal(t) PROVE CallsKept'
  <2> DEFINE total == (gAlloc[TOTAL] + loc[t].amount) % Word
             l == [loc[t] EXCEPT !.amount = 0, !.total = total]
  <2>1. pc[t] = "addTotal" /\ loc[t] \in Locals /\ Goto(t, "readHot", l)
    BY <1>11 DEF AddTotal
  <2> HIDE DEF total
  <2>3. l.block = loc[t].block /\ l.kind = loc[t].kind
    BY <2>1 DEF Locals
  <2>4. "readHot" \in Flushing
    BY DEF Flushing
  <2> HIDE DEF l
  <2> QED BY <2>1, <2>3, <2>4, FlushKept
<1>12. ASSUME NEW t \in Threads, ReadHot(t) PROVE CallsKept'
  <2> DEFINE hot == gAlloc[HotTierId]
             l == [loc[t] EXCEPT !.total = IF hot > @ THEN hot ELSE @]
  <2>1. pc[t] = "readHot" /\ loc[t] \in Locals /\ Goto(t, "publish", l)
    BY <1>12 DEF ReadHot
  <2>2. hot \in Nat
    BY Config, WordAssumption DEF DataOK
  <2> HIDE DEF hot
  <2>3. l.block = loc[t].block /\ l.kind = loc[t].kind
    BY <2>1, <2>2 DEF Locals
  <2>4. "publish" \in Flushing
    BY DEF Flushing
  <2> HIDE DEF l
  <2> QED BY <2>1, <2>3, <2>4, FlushKept
<1>13. ASSUME NEW t \in Threads, Publish(t) PROVE CallsKept'
  BY <1>13, ProceedKept DEF Publish
<1>14. ASSUME NEW t \in Threads, Query(t) PROVE CallsKept'
  <2>1. PICK k \in Kinds : Goto(t, "sum", [NoLocals EXCEPT !.kind = k])
    BY <1>14 DEF Query
  <2> DEFINE l == [NoLocals EXCEPT !.kind = k]
  <2>2. l \in Locals /\ l.block = NoBlock /\ "sum" \in PCs
    BY FreshLocals, Config DEF Locals, NoLocals, PCs
  <2>3. Goto(t, "sum", l)
    BY <2>1
  <2> HIDE DEF l
  <2> QED BY <2>2, <2>3, MoveKept
<1>15. ASSUME NEW t \in Threads, SumBucket(t) PROVE CallsKept'
  <2> DEFINE k == loc[t].kind
             b == loc[t].bucket
             l == [loc[t] EXCEPT !.amount = @ + tAlloc[k][b], !.bucket = b + 1]
  <2>1. /\ pc[t] = "sum" /\ b < ThreadBuckets /\ loc[t] \in Locals /\ LocalsOK(t)
        /\ CallKept(t) /\ Goto(t, "sum", l)
    BY <1>15 DEF SumBucket, CallsKept
  <2>2. k \in Kinds /\ b \in Buckets /\ b \in Nat /\ loc[t].amount \in Int
    BY <2>1, BucketAssumption DEF LocalsOK, Locals, Buckets
  <2>3. tAlloc[k][b] \in Int
    BY <2>2 DEF DataOK
  <2>4. l.block = loc[t].block
    BY <2>1, <2>2, <2>3 DEF Locals
  <2>5. loc[t].block = NoBlock /\ "sum" \in PCs
    BY <2>1 DEF CallKept, PCs
  <2> HIDE DEF l
  <2> QED BY <2>1, <2>4, <2>5, MoveKept
<1>16. ASSUME NEW t \in Threads, AddSum(t) PROVE CallsKept'
  <2>1. Goto(t, "idle", NoLocals) /\ "idle" \in PCs
    BY <1>16 DEF AddSum, Return, PCs
  <2> QED BY <2>1, FreshLocals, MoveKept
<1>17. ASSUME NEW t \in Threads, PmemDestroy(t) PROVE CallsKept'
  <2>1. UNCHANGED <<pc, loc>>
    BY <1>17 DEF PmemDestroy
  <2> QED BY <2>1 DEF CallsKept, CallKept
<1> QED BY <1>1, <1>2, <1>3, <1>4, <1>5, <1>6, <1>7, <1>8, <1>9, <1>10, <1>11, <1>12,
           <1>13, <1>14, <1>15, <1>16, <1>17 DEF Next

\* What goes in less what comes out, of kind k: a multiple of the range of size_t.
Balance(k) == gAlloc[k] + Bucketed(k) + Carried(k) + taken[k] - LiveSize(k) - Held(k)

\* The types of the parts of a balance.
LEMMA BalanceTypes ==
  ASSUME DataOK, CallsOK, NEW k \in Kinds
  PROVE  /\ gAlloc[k] \in Int /\ Bucketed(k) \in Int /\ Carried(k) \in Int /\ taken[k] \in Int
         /\ LiveSize(k) \in Int /\ Held(k) \in Int /\ Balance(k) \in Int
<1>1. gAlloc[k] \in Int /\ taken[k] \in Int
  BY Config, WordAssumption DEF DataOK
<1>2. Bucketed(k) \in Int /\ LiveSize(k) \in Int
  BY BucketSum, LiveSum
<1>3. Carried(k) \in Int
  <2> DEFINE f == [u \in Threads |-> Carries(u, k)]
  <2>1. Carried(k) = SumFunctionOnSet(f, Threads) /\ \A u \in Threads : f[u] \in Int
    BY ThreadValues DEF Carried, SumFunction
  <2> HIDE DEF f
  <2> QED BY <2>1, SumInt, FiniteSums
<1>4. Held(k) \in Int
  <2> DEFINE f == [u \in Threads |-> Holds(u, k)]
  <2>1. Held(k) = SumFunctionOnSet(f, Threads) /\ \A u \in Threads : f[u] \in Int
    BY ThreadValues DEF Held, SumFunction
  <2> HIDE DEF f
  <2> QED BY <2>1, SumInt, FiniteSums
<1> QED BY <1>1, <1>2, <1>3, <1>4 DEF Balance

\* How a step of thread t moves the balance.
LEMMA BalanceMoves ==
  ASSUME DataOK, CallsOK, CallsOK', NEW t \in Threads, NEW p, NEW l, Goto(t, p, l),
         NEW k \in Kinds, NEW dg \in Int, NEW db \in Int, NEW dt \in Int, NEW dl \in Int,
         gAlloc'[k] = gAlloc[k] + dg, Bucketed(k)' = Bucketed(k) + db,
         taken'[k] = taken[k] + dt, LiveSize(k)' = LiveSize(k) + dl,
         NEW c \in Int, Carries(t, k)' = Carries(t, k) + c,
         NEW h \in Int, Holds(t, k)' = Holds(t, k) + h
  PROVE  Balance(k)' = Balance(k) + (dg + db + dt + c - dl - h)
<1>1. /\ Carried(k)' = Carried(k) + Carries(t, k)' - Carries(t, k)
      /\ Held(k)' = Held(k) + Holds(t, k)' - Holds(t, k)
  BY ThreadSums
<1>2. Carries(t, k) \in Int /\ Holds(t, k) \in Int
  BY ThreadValues
<1>3. /\ gAlloc[k] \in Int /\ Bucketed(k) \in Int /\ Carried(k) \in Int /\ taken[k] \in Int
      /\ LiveSize(k) \in Int /\ Held(k) \in Int
  BY BalanceTypes
<1>4. Carried(k)' = Carried(k) + c /\ Held(k)' = Held(k) + h
  BY <1>1, <1>2, <1>3
<1>5. Balance(k)' = gAlloc'[k] + Bucketed(k)' + Carried(k)' + taken'[k] - LiveSize(k)' - Held(k)'
  BY DEF Balance
<1>6. Balance(k) = gAlloc[k] + Bucketed(k) + Carried(k) + taken[k] - LiveSize(k) - Held(k)
  BY DEF Balance
<1> QED BY <1>3, <1>4, <1>5, <1>6

\* Where a call carries and holds nothing.
LEMMA NothingInHand ==
  ASSUME NEW t \in Threads, NEW k,
         pc[t] \in {"idle", "readFirst", "readTier", "realloc", "increment"}
  PROVE  Carries(t, k) = 0 /\ Holds(t, k) = 0
BY DEF Carries, Holds, Flushing
LEMMA NothingInHandNext ==
  ASSUME NEW t \in Threads, NEW k, 
         pc'[t] \in {"idle", "readFirst", "readTier", "realloc", "increment"}
  PROVE  Carries(t, k)' = 0 /\ Holds(t, k)' = 0
BY DEF Carries, Holds, Flushing

\* The end of a call gives its block to the application.
LEMMA ReturnBalance ==
  ASSUME CallsOK, NEW t \in Threads, CallKept(t), Return(t), NEW k \in Kinds,
         pc[t] \notin {"idle", "readFirst", "readTier"}
  PROVE  /\ Goto(t, "idle", NoLocals)
         /\ Carries(t, k)' = 0 /\ Holds(t, k)' = 0
         /\ LiveSize(k)' = LiveSize(k) + IF loc[t].block # NoBlock /\ loc[t].kind = k
                                         THEN loc[t].block[2] ELSE 0
<1>1. Goto(t, "idle", NoLocals) /\ pc'[t] = "idle"
  BY DEF Return, Goto, CallsOK
<1>2. Carries(t, k)' = 0 /\ Holds(t, k)' = 0
  BY <1>1, NothingInHandNext
<1>3. LiveSize(k) \in Int
  BY LiveSum
<1>4. CASE loc[t].block = NoBlock
  <2>1. UNCHANGED owned
    BY <1>4 DEF Return
  <2> QED BY <1>1, <1>2, <1>3, <1>4, <2>1, LiveSum
<1>5. CASE loc[t].block # NoBlock
  <2> DEFINE b == loc[t].block
  <2>1. b \in Kinds \X Sizes
    BY <1>5 DEF CallsOK, Locals
  <2>2. b[1] \in Kinds /\ b[2] \in Sizes /\ b[2] \in Nat /\ b = <<b[1], b[2]>>
    BY <2>1, BlockParts
  <2>3. owned' = [owned EXCEPT ![<<b[1], b[2]>>] = @ + 1]
    BY <1>5, <2>2 DEF Return
  <2>4. b[1] = loc[t].kind
    BY <1>5 DEF CallKept
  <2> HIDE DEF b
  <2>5. LiveSize(k)' = LiveSize(k) + IF b[1] = k THEN b[2] * 1 ELSE 0
    BY <2>2, <2>3, LiveSum
  <2> QED BY <1>1, <1>2, <1>3, <1>5, <2>2, <2>4, <2>5 DEF b
<1> QED BY <1>4, <1>5

\* The steps that move nothing: no block changes hands, no counter of a kind
\* changes.
LEMMA IdleBalance ==
  ASSUME DataOK, CallsOK, CallsOK', CallsKept, NEW t \in Threads, NEW k \in Kinds,
         \/ Malloc(t) \/ ReadFirst(t) \/ ReadTier(t) \/ Reallocate(t) \/ ReallocFails(t)
         \/ AddTotal(t) \/ ReadHot(t) \/ Query(t)
  PROVE  Balance(k)' = Balance(k)
<1>1. /\ UNCHANGED <<tAlloc, owned, taken>> /\ gAlloc'[k] = gAlloc[k]
  <2>1. k # TOTAL
    BY Config DEF TOTAL
  <2>2. UNCHANGED <<tAlloc, owned, taken>>
    BY DEF Malloc, ReadFirst, ReadTier, Reallocate, ReallocFails, AddTotal, ReadHot, Query
  <2>3. CASE AddTotal(t)
    <3>1. gAlloc' = [gAlloc EXCEPT ![TOTAL] = (gAlloc[TOTAL] + loc[t].amount) % Word]
      BY <2>3 DEF AddTotal
    <3>2. gAlloc'[k] = gAlloc[k]
      BY <2>1, <3>1, Config DEF DataOK
    <3> QED BY <2>2, <3>2
  <2>4. CASE ~AddTotal(t)
    BY <2>2, <2>4 DEF Malloc, ReadFirst, ReadTier, Reallocate, ReallocFails, ReadHot, Query
  <2> QED BY <2>3, <2>4
<1>2. \E p, l : /\ Goto(t, p, l)
                /\ Carries(t, k)' = Carries(t, k) + 0
                /\ Holds(t, k)' = Holds(t, k) + 0
  <2>1. pc \in [Threads -> PCs] /\ loc \in [Threads -> Locals] /\ loc[t] \in Locals
    BY DEF CallsOK
  <2>2. CASE Malloc(t) \/ ReadFirst(t) \/ ReadTier(t) \/ Reallocate(t) \/ ReallocFails(t)
    <3>1. pc[t] \in {"idle", "readFirst", "readTier", "realloc", "increment"}
      BY <2>2 DEF Malloc, ReadFirst, ReadTier, Reallocate, ReallocFails, Begin
    <3>2. PICK p, l : Goto(t, p, l) /\ p \in {"readFirst", "readTier", "increment"}
      <4>1. CASE Malloc(t) \/ ReadTier(t)
        BY <4>1 DEF Malloc, ReadTier, Allocate
      <4>2. CASE ReadFirst(t) \/ Reallocate(t) \/ ReallocFails(t)
        BY <4>2 DEF ReadFirst, Reallocate, ReallocFails
      <4> QED BY <2>2, <4>1, <4>2
    <3>3. pc'[t] \in {"idle", "readFirst", "readTier", "realloc", "increment"}
      BY <2>1, <3>2 DEF Goto
    <3> QED BY <3>1, <3>2, <3>3, NothingInHand, NothingInHandNext
  <2>3. CASE Query(t)
    <3>1. PICK i \in Kinds : Goto(t, "sum", [NoLocals EXCEPT !.kind = i])
      BY <2>3 DEF Query
    <3>2. pc'[t] = "sum" /\ loc'[t].amount = 0 /\ pc[t] = "idle"
      BY <2>1, <2>3, <3>1 DEF Goto, NoLocals, Query, Begin
    <3>3. Carries(t, k)' = 0 /\ Holds(t, k)' = 0
      BY <3>2 DEF Carries, Holds, Flushing
    <3> QED BY <3>1, <3>2, <3>3, NothingInHand
  <2>4. CASE AddTotal(t)
    <3> DEFINE total == (gAlloc[TOTAL] + loc[t].amount) % Word
               l == [loc[t] EXCEPT !.amount = 0, !.total = total]
    <3>1. pc[t] = "addTotal" /\ Goto(t, "readHot", l)
      BY <2>4 DEF AddTotal
    <3> HIDE DEF total
    <3>2. l.block = loc[t].block /\ l.kind = loc[t].kind /\ l.next = loc[t].next
      BY <2>1 DEF Locals
    <3> HIDE DEF l
    <3>3. pc'[t] = "readHot" /\ loc'[t] = l
      BY <2>1, <3>1 DEF Goto
    <3>4. Carries(t, k) = 0 /\ Carries(t, k)' = 0
      BY <3>1, <3>3 DEF Carries
    <3>5. Holds(t, k)' = Holds(t, k)
      BY <3>1, <3>2, <3>3 DEF Holds, Flushing
    <3> QED BY <3>1, <3>4, <3>5, ThreadValues
  <2>5. CASE ReadHot(t)
    <3> DEFINE hot == gAlloc[HotTierId]
               l == [loc[t] EXCEPT !.total = IF hot > @ THEN hot ELSE @]
    <3>1. pc[t] = "readHot" /\ Goto(t, "publish", l)
      BY <2>5 DEF ReadHot
    <3> HIDE DEF hot
    <3>2. l.block = loc[t].block /\ l.kind = loc[t].kind /\ l.next = loc[t].next
      BY <2>1 DEF Locals
    <3> HIDE DEF l
    <3>3. pc'[t] = "publish" /\ loc'[t] = l
      BY <2>1, <3>1 DEF Goto
    <3>4. Carries(t, k) = 0 /\ Carries(t, k)' = 0
      BY <3>1, <3>3 DEF Carries
    <3>5. Holds(t, k)' = Holds(t, k)
      BY <3>1, <3>2, <3>3 DEF Holds, Flushing
    <3> QED BY <3>1, <3>4, <3>5, ThreadValues
  <2> QED BY <2>2, <2>3, <2>4, <2>5
<1>3. /\ gAlloc'[k] = gAlloc[k] + 0 /\ Bucketed(k)' = Bucketed(k) + 0
      /\ taken'[k] = taken[k] + 0 /\ LiveSize(k)' = LiveSize(k) + 0
  BY <1>1, BucketSum, LiveSum, BalanceTypes
<1>4. Balance(k)' = Balance(k) + (0 + 0 + 0 + 0 - 0 - 0)
  BY <1>2, <1>3, BalanceMoves
<1> QED BY <1>4, BalanceTypes

\* A free or a realloc takes a block from the application, to be taken off.
LEMMA TakeBalance ==
  ASSUME DataOK, CallsOK, CallsOK', NEW t \in Threads, NEW k \in Kinds, Free(t) \/ Realloc(t)
  PROVE  Balance(k)' = Balance(k)
<1>0. PICK i \in Kinds, s \in Sizes :
         \E l : /\ pc[t] = "idle" /\ Goto(t, "decrement", l) /\ l.kind = i /\ l.size = s
               /\ owned' = [owned EXCEPT ![<<i, s>>] = @ - 1]
               /\ UNCHANGED <<tAlloc, gAlloc, taken>>
  BY DEF Free, Realloc, Begin, NoLocals
<1>1. PICK l : /\ pc[t] = "idle" /\ Goto(t, "decrement", l) /\ l.kind = i /\ l.size = s
               /\ owned' = [owned EXCEPT ![<<i, s>>] = @ - 1]
               /\ UNCHANGED <<tAlloc, gAlloc, taken>>
  BY <1>0
<1>2. pc'[t] = "decrement" /\ loc'[t].kind = i /\ loc'[t].size = s
  BY <1>1 DEF Goto, CallsOK
<1>3. s \in Nat /\ owned[<<i, s>>] \in Int
  BY SizeAssumption DEF CallsOK
<1>4. LiveSize(k)' = LiveSize(k) + IF i = k THEN -s ELSE 0
  <2>1. owned' = [owned EXCEPT ![<<i, s>>] = @ + (-1)]
    BY <1>1, <1>3 DEF CallsOK
  <2>2. LiveSize(k)' = LiveSize(k) + IF i = k THEN s * (-1) ELSE 0
    BY <2>1, LiveSum
  <2> QED BY <1>3, <2>2
<1>5. Carries(t, k) = 0 /\ Holds(t, k) = 0
  BY <1>1, NothingInHand
<1>6. Carries(t, k)' = 0 /\ Holds(t, k)' = IF i = k THEN s ELSE 0
  BY <1>2 DEF Carries, Holds, Flushing
<1>7. /\ gAlloc'[k] = gAlloc[k] /\ Bucketed(k)' = Bucketed(k) /\ taken'[k] = taken[k]
  BY <1>1, BucketSum, BalanceTypes
<1> DEFINE d == IF i = k THEN s ELSE 0
<1>8. LiveSize(k)' = LiveSize(k) - d /\ d \in Int
  BY <1>3, <1>4, BalanceTypes
<1>9. Carried(k)' = Carried(k) /\ Held(k)' = Held(k) + d
  <2>1. /\ Carried(k)' = Carried(k) + Carries(t, k)' - Carries(t, k)
        /\ Held(k)' = Held(k) + Holds(t, k)' - Holds(t, k)
    BY <1>1, ThreadSums
  <2> QED BY <1>5, <1>6, <1>8, <2>1, BalanceTypes
<1> HIDE DEF d
<1>10. Balance(k)' = gAlloc'[k] + Bucketed(k)' + Carried(k)' + taken'[k] - LiveSize(k)' - Held(k)'
  BY DEF Balance
<1>11. Balance(k) = gAlloc[k] + Bucketed(k) + Carried(k) + taken[k] - LiveSize(k) - Held(k)
  BY DEF Balance
<1> QED BY <1>7, <1>8, <1>9, <1>10, <1>11, BalanceTypes

\* increment_alloc_size: what it adds to the bucket is held until the call returns.
LEMMA IncrementBalance ==
  ASSUME DataOK, CallsOK, CallsOK', CallsKept, NEW t \in Threads, NEW k \in Kinds, Increment(t)
  PROVE  Balance(k)' = Balance(k)
<1> DEFINE i == loc[t].kind
           b == BucketOf[t]
           n == loc[t].size
           new == tAlloc[i][b] + n
           m == IF loc[t].block = NoBlock THEN 0 ELSE loc[t].block[2]
<1>1. /\ pc[t] = "increment" /\ tAlloc' = [tAlloc EXCEPT ![i][b] = new]
      /\ taken' = IF loc[t].block = NoBlock THEN taken
                  ELSE [taken EXCEPT ![i] = @ + (loc[t].block[2] - loc[t].size)]
      /\ IF new # 0 THEN Goto(t, "exchange", loc[t]) /\ UNCHANGED owned ELSE Proceed(t)
      /\ UNCHANGED gAlloc
  BY DEF Increment
<1>2. loc[t] \in Locals /\ LocalsOK(t) /\ CallKept(t)
  BY DEF CallsOK, CallsKept
<1>3. i \in Kinds /\ b \in Buckets /\ n \in Nat /\ loc[t].next = "return"
  BY <1>1, <1>2, Config DEF LocalsOK, Locals, CallKept
<1>4. m \in Nat /\ (loc[t].block = NoBlock => n = 0)
  <2>1. loc[t].block \in {NoBlock} \cup (Kinds \X Sizes)
    BY <1>2 DEF Locals
  <2> QED BY <1>1, <1>2, <2>1, BlockParts DEF CallKept
<1>5. tAlloc[i][b] \in Int /\ new \in Int
  BY <1>3 DEF DataOK
<1>6. Bucketed(k)' = Bucketed(k) + IF i = k THEN n ELSE 0
  <2>1. Bucketed(k)' = Bucketed(k) + IF i = k THEN new - tAlloc[i][b] ELSE 0
    <3> HIDE DEF new, i, b
    <3> QED BY <1>1, <1>3, <1>5, BucketSum
  <2> QED BY <1>3, <1>5, <2>1
<1>7. taken'[k] = taken[k] + IF i = k THEN m - n ELSE 0
  <2>1. taken[k] \in Int
    BY BalanceTypes
  <2> QED BY <1>1, <1>3, <1>4, <2>1 DEF DataOK
<1>8. Carries(t, k) = 0 /\ Holds(t, k) = 0
  BY <1>1, NothingInHand
<1> DEFINE d == IF i = k THEN m ELSE 0
<1>9. CASE new # 0
  <2>1. Goto(t, "exchange", loc[t]) /\ UNCHANGED owned
    BY <1>1, <1>9
  <2>2. pc'[t] = "exchange" /\ loc'[t] = loc[t]
    BY <2>1 DEF Goto, CallsOK
  <2>3. Carries(t, k)' = 0 /\ Holds(t, k)' = d
    BY <1>3, <2>2 DEF Carries, Holds, Flushing
  <2>4. /\ gAlloc'[k] = gAlloc[k] + 0 /\ LiveSize(k)' = LiveSize(k) + 0
    BY <1>1, <2>1, LiveSum, BalanceTypes
  <2> DEFINE db == IF i = k THEN n ELSE 0
             dt == IF i = k THEN m - n ELSE 0
  <2>5. /\ Bucketed(k)' = Bucketed(k) + db /\ taken'[k] = taken[k] + dt
        /\ Carries(t, k)' = Carries(t, k) + 0 /\ Holds(t, k)' = Holds(t, k) + d
        /\ db \in Int /\ dt \in Int /\ d \in Int /\ db + dt = d
    BY <1>3, <1>4, <1>6, <1>7, <1>8, <2>3
  <2> HIDE DEF db, dt, d, new, n, m, i, b
  <2>6. Balance(k)' = Balance(k) + (0 + db + dt + 0 - 0 - d)
    BY <2>1, <2>4, <2>5, BalanceMoves
  <2> QED BY <2>5, <2>6, BalanceTypes
<1>10. CASE new = 0
  <2>1. Return(t)
    BY <1>1, <1>3, <1>10 DEF Proceed
  <2>2. /\ Goto(t, "idle", NoLocals)
        /\ Carries(t, k)' = 0 /\ Holds(t, k)' = 0
        /\ LiveSize(k)' = LiveSize(k) + IF loc[t].block # NoBlock /\ loc[t].kind = k
                                        THEN loc[t].block[2] ELSE 0
    BY <1>1, <1>2, <2>1, ReturnBalance
  <2>3. gAlloc'[k] = gAlloc[k] + 0 /\ LiveSize(k)' = LiveSize(k) + d
    BY <1>1, <2>2, BalanceTypes
  <2> DEFINE db == IF i = k THEN n ELSE 0
             dt == IF i = k THEN m - n ELSE 0
  <2>5. /\ Bucketed(k)' = Bucketed(k) + db /\ taken'[k] = taken[k] + dt
        /\ Carries(t, k)' = Carries(t, k) + 0 /\ Holds(t, k)' = Holds(t, k) + 0
        /\ db \in Int /\ dt \in Int /\ d \in Int /\ db + dt = d
    BY <1>3, <1>4, <1>6, <1>7, <1>8, <2>2
  <2> HIDE DEF db, dt, d, new, n, m, i, b
  <2>6. Balance(k)' = Balance(k) + (0 + db + dt + 0 - d - 0)
    BY <2>2, <2>3, <2>5, BalanceMoves
  <2> QED BY <2>5, <2>6, BalanceTypes
<1> QED BY <1>9, <1>10

\* decrement_alloc_size takes off what the call held.
LEMMA DecrementBalance ==
  ASSUME DataOK, CallsOK, CallsOK', CallsKept, NEW t \in Threads, NEW k \in Kinds, Decrement(t)
  PROVE  Balance(k)' = Balance(k)
<1> DEFINE i == loc[t].kind
           b == BucketOf[t]
           n == loc[t].size
           new == tAlloc[i][b] - n
           d == IF i = k THEN n ELSE 0
<1>1. /\ pc[t] = "decrement" /\ tAlloc' = [tAlloc EXCEPT ![i][b] = new]
      /\ (Goto(t, "exchange", loc[t]) /\ UNCHANGED owned) \/ Proceed(t)
      /\ UNCHANGED <<gAlloc, taken>>
  BY DEF Decrement
<1>2. loc[t] \in Locals /\ LocalsOK(t) /\ CallKept(t)
  BY DEF CallsOK, CallsKept
<1>3. i \in Kinds /\ b \in Buckets /\ n \in Nat
  BY <1>1, <1>2, Config DEF LocalsOK, Locals
<1>4. loc[t].next = "return" => loc[t].block = NoBlock
  BY <1>1, <1>2 DEF CallKept
<1>5. tAlloc[i][b] \in Int /\ new \in Int
  BY <1>3 DEF DataOK
<1>6. Bucketed(k)' = Bucketed(k) + (-d)
  <2>1. Bucketed(k)' = Bucketed(k) + IF i = k THEN new - tAlloc[i][b] ELSE 0
    <3> HIDE DEF new, i, b
    <3> QED BY <1>1, <1>3, <1>5, BucketSum
  <2> QED BY <1>3, <1>5, <2>1
<1>7. Carries(t, k) = 0 /\ Holds(t, k) = d
  BY <1>1 DEF Carries, Holds, Flushing
<1>8. \E p, l : /\ Goto(t, p, l) /\ Carries(t, k)' = 0 /\ Holds(t, k)' = 0
                /\ LiveSize(k)' = LiveSize(k)
  <2>1. CASE Goto(t, "exchange", loc[t]) /\ UNCHANGED owned
    <3>1. pc'[t] = "exchange" /\ loc'[t] = loc[t]
      BY <2>1 DEF Goto, CallsOK
    <3>2. Carries(t, k)' = 0 /\ Holds(t, k)' = 0
      BY <1>4, <3>1 DEF Carries, Holds, Flushing
    <3> QED BY <2>1, <3>2, LiveSum
  <2>2. CASE Proceed(t) /\ loc[t].next = "return"
    <3>1. Return(t)
      BY <2>2 DEF Proceed
    <3>2. /\ Goto(t, "idle", NoLocals)
          /\ Carries(t, k)' = 0 /\ Holds(t, k)' = 0
          /\ LiveSize(k)' = LiveSize(k) + IF loc[t].block # NoBlock /\ loc[t].kind = k
                                          THEN loc[t].block[2] ELSE 0
      BY <1>1, <1>2, <3>1, ReturnBalance
    <3>3. LiveSize(k)' = LiveSize(k)
      BY <1>4, <2>2, <3>2, LiveSum
    <3> QED BY <3>2, <3>3
  <2>3. CASE Proceed(t) /\ loc[t].next # "return"
    <3>1. loc[t].next = "realloc"
      BY <1>2, <2>3 DEF Locals
    <3>2. Goto(t, "realloc", loc[t]) /\ UNCHANGED owned
      BY <2>3, <3>1 DEF Proceed
    <3>3. pc'[t] = "realloc"
      BY <3>2 DEF Goto, CallsOK
    <3> QED BY <3>2, <3>3, NothingInHandNext, LiveSum
  <2> QED BY <1>1, <2>1, <2>2, <2>3
<1>9. /\ gAlloc'[k] = gAlloc[k] + 0 /\ taken'[k] = taken[k] + 0 /\ d \in Int /\ -d \in Int
      /\ LiveSize(k) + 0 = LiveSize(k)
  BY <1>1, <1>3, BalanceTypes
<1> HIDE DEF d, new, n, i, b
<1>10. PICK p, l : /\ Goto(t, p, l) /\ Carries(t, k)' = Carries(t, k) + 0
                   /\ Holds(t, k)' = Holds(t, k) + (-d) /\ LiveSize(k)' = LiveSize(k) + 0
  BY <1>7, <1>8, <1>9
<1>11. Balance(k)' = Balance(k) + (0 + (-d) + 0 + 0 - 0 - (-d))
  BY <1>6, <1>9, <1>10, BalanceMoves
<1> QED BY <1>9, <1>11, BalanceTypes

\* Adding in size_t: the sum differs from the true one by a multiple of Word.
LEMMA Wraps ==
  ASSUME NEW x \in Int
  PROVE  \E c \in Int : x % Word = x + c * Word
<1>1. Word \in Int /\ Word > 0
  BY WordAssumption
<1> DEFINE q == x \div Word
           r == x % Word
<1>2. x = Word * q + r /\ q \in Int /\ r \in 0..Word - 1
  BY <1>1
<1> HIDE DEF q
<1> DEFINE c == -q
<1>3. c \in Int /\ r = x + c * Word
  <2> HIDE DEF r
  <2> QED BY <1>1, <1>2
<1> QED BY <1>3

\* Numbers that differ by a multiple of Word are the same in size_t.
LEMMA SameWord ==
  ASSUME NEW x \in Int, NEW y \in Int, NEW c \in Int, x = y + c * Word
  PROVE  x % Word = y % Word
<1> DEFINE q == y \div Word
           p == x \div Word
           r == y % Word
           s == x % Word
<1>1. Word \in Int /\ Word > 0
  BY WordAssumption
<1>2. /\ y = Word * q + r /\ q \in Int /\ r \in 0..Word - 1
      /\ x = Word * p + s /\ p \in Int /\ s \in 0..Word - 1
  BY <1>1
<1> HIDE DEF q, p, r, s
<1>3. s - r = Word * (q + c - p)
  BY <1>1, <1>2
<1> DEFINE n == q + c - p
<1>4. n \in Int /\ s - r = Word * n /\ s - r < Word /\ r - s < Word
  BY <1>1, <1>2, <1>3
<1> HIDE DEF n
<1>5. n = 0
  <2>1. CASE n >= 1
    <3>1. Word * n >= Word
      BY <1>1, <1>4, <2>1
    <3> QED BY <1>1, <1>2, <1>4, <3>1
  <2>2. CASE n =< -1
    <3>1. Word * n =< -Word
      BY <1>1, <1>4, <2>2
    <3> QED BY <1>1, <1>2, <1>4, <3>1
  <2> QED BY <1>4, <2>1, <2>2
<1>6. s = r
  BY <1>1, <1>2, <1>4, <1>5
<1> QED BY <1>6 DEF s, r

\* The flush takes the bucket in hand, whatever other threads put there.
LEMMA ExchangeBalance ==
  ASSUME DataOK, CallsOK, CallsOK', NEW t \in Threads, NEW k \in Kinds, Exchange(t)
  PROVE  Balance(k)' = Balance(k)
<1> DEFINE i == loc[t].kind
           b == BucketOf[t]
           a == tAlloc[i][b]
           l == [loc[t] EXCEPT !.amount = a]
           d == IF i = k THEN a ELSE 0
<1>1. /\ pc[t] = "exchange" /\ tAlloc' = [tAlloc EXCEPT ![i][b] = 0]
      /\ Goto(t, "addKind", l) /\ UNCHANGED <<gAlloc, owned, taken>>
  BY DEF Exchange
<1>2. loc[t] \in Locals /\ LocalsOK(t)
  BY DEF CallsOK
<1>3. i \in Kinds /\ b \in Buckets
  BY <1>1, <1>2, Config DEF LocalsOK
<1>4. a \in Int
  BY <1>3 DEF DataOK
<1>5. Bucketed(k)' = Bucketed(k) + (-d)
  <2>1. Bucketed(k)' = Bucketed(k) + IF i = k THEN 0 - tAlloc[i][b] ELSE 0
    <3>0. 0 \in Int
      OBVIOUS
    <3> HIDE DEF i, b
    <3> QED BY <1>1, <1>3, <3>0, BucketSum
  <2> QED BY <1>4, <2>1
<1> HIDE DEF a
<1>6. /\ l.kind = i /\ l.amount = a /\ l.next = loc[t].next /\ l.block = loc[t].block
  BY <1>2 DEF Locals
<1>7. pc'[t] = "addKind" /\ loc'[t] = l
  BY <1>1 DEF Goto, CallsOK
<1> HIDE DEF l
<1>8. Carries(t, k) = 0 /\ Carries(t, k)' = d
  BY <1>1, <1>6, <1>7 DEF Carries
<1>9. Holds(t, k)' = Holds(t, k)
  BY <1>1, <1>6, <1>7 DEF Holds, Flushing
<1>10. /\ gAlloc'[k] = gAlloc[k] + 0 /\ taken'[k] = taken[k] + 0 /\ LiveSize(k)' = LiveSize(k) + 0
  BY <1>1, LiveSum, BalanceTypes
<1>11. Carries(t, k)' = Carries(t, k) + d /\ Holds(t, k)' = Holds(t, k) + 0 /\ d \in Int /\ -d \in Int
  BY <1>4, <1>8, <1>9, ThreadValues
<1>12. Goto(t, "addKind", l)
  BY <1>1
<1> HIDE DEF d, i, b
<1>13. Balance(k)' = Balance(k) + (0 + (-d) + 0 + d - 0 - 0)
  BY <1>5, <1>10, <1>11, <1>12, BalanceMoves
<1> QED BY <1>11, <1>13, BalanceTypes

\* The end of a flush gives the block held to the application.
LEMMA PublishBalance ==
  ASSUME DataOK, CallsOK, CallsOK', CallsKept, NEW t \in Threads, NEW k \in Kinds, Publish(t)
  PROVE  Balance(k)' = Balance(k)
<1>1. pc[t] = "publish" /\ Proceed(t) /\ UNCHANGED <<tAlloc, gAlloc, taken>>
  BY DEF Publish
<1>2. loc[t] \in Locals /\ LocalsOK(t) /\ CallKept(t)
  BY DEF CallsOK, CallsKept
<1>3. /\ gAlloc'[k] = gAlloc[k] + 0 /\ taken'[k] = taken[k] + 0 /\ Bucketed(k)' = Bucketed(k) + 0
  BY <1>1, BucketSum, BalanceTypes
<1>4. Carries(t, k) = 0 /\ Holds(t, k) \in Int
  BY <1>1, ThreadValues DEF Carries
<1> DEFINE d == Holds(t, k)
<1>5. CASE loc[t].next = "return"
  <2>1. Return(t)
    BY <1>1, <1>5 DEF Proceed
  <2>2. /\ Goto(t, "idle", NoLocals)
        /\ Carries(t, k)' = 0 /\ Holds(t, k)' = 0
        /\ LiveSize(k)' = LiveSize(k) + IF loc[t].block # NoBlock /\ loc[t].kind = k
                                        THEN loc[t].block[2] ELSE 0
    BY <1>1, <1>2, <2>1, ReturnBalance
  <2>3. LiveSize(k)' = LiveSize(k) + d
    BY <1>1, <1>5, <2>2 DEF Holds, Flushing
  <2> DEFINE e == -d
  <2>4. Carries(t, k)' = Carries(t, k) + 0 /\ Holds(t, k)' = Holds(t, k) + e
        /\ d \in Int /\ e \in Int /\ d + e = 0
    BY <1>4, <2>2
  <2>5. Goto(t, "idle", NoLocals)
    BY <2>2
  <2> HIDE DEF d, e
  <2>6. Balance(k)' = Balance(k) + (0 + 0 + 0 + 0 - d - e)
    BY <1>3, <2>3, <2>4, <2>5, BalanceMoves, SMTT(20)
  <2>7. 0 + 0 + 0 + 0 - d - e = 0
    BY <2>4
  <2>8. Balance(k) \in Int
    BY BalanceTypes
  <2> QED BY <2>6, <2>7, <2>8
<1>6. CASE loc[t].next # "return"
  <2>1. Goto(t, loc[t].next, loc[t]) /\ UNCHANGED owned /\ loc[t].next = "realloc"
    BY <1>1, <1>2, <1>6 DEF Proceed, Locals
  <2>2. pc'[t] = "realloc"
    BY <2>1 DEF Goto, CallsOK
  <2>3. Carries(t, k)' = 0 /\ Holds(t, k)' = 0
    BY <2>2, NothingInHandNext
  <2>4. Holds(t, k) = 0
    BY <1>1, <1>6 DEF Holds
  <2>5. LiveSize(k)' = LiveSize(k) + 0 /\ Carries(t, k)' = Carries(t, k) + 0
        /\ Holds(t, k)' = Holds(t, k) + 0
    BY <1>4, <2>1, <2>3, <2>4, LiveSum
  <2>6. Balance(k)' = Balance(k) + (0 + 0 + 0 + 0 - 0 - 0)
    BY <1>3, <2>1, <2>5, BalanceMoves
  <2> QED BY <2>6, BalanceTypes
<1> QED BY <1>5, <1>6

\* memtier_kind_allocated_size takes a bucket in hand.
LEMMA SumBucketBalance ==
  ASSUME DataOK, CallsOK, CallsOK', NEW t \in Threads, NEW k \in Kinds, SumBucket(t)
  PROVE  Balance(k)' = Balance(k)
<1> DEFINE i == loc[t].kind
           b == loc[t].bucket
           a == tAlloc[i][b]
           l == [loc[t] EXCEPT !.amount = @ + a, !.bucket = b + 1]
           d == IF i = k THEN a ELSE 0
<1>1. /\ pc[t] = "sum" /\ b < ThreadBuckets /\ tAlloc' = [tAlloc EXCEPT ![i][b] = 0]
      /\ Goto(t, "sum", l) /\ UNCHANGED <<gAlloc, owned, taken>>
  BY DEF SumBucket
<1>2. loc[t] \in Locals /\ LocalsOK(t)
  BY DEF CallsOK
<1>3. i \in Kinds /\ b \in Buckets /\ b \in Nat /\ loc[t].amount \in Int
  BY <1>1, <1>2, BucketAssumption DEF LocalsOK, Locals, Buckets
<1>4. a \in Int
  BY <1>3 DEF DataOK
<1>5. Bucketed(k)' = Bucketed(k) + (-d)
  <2>1. Bucketed(k)' = Bucketed(k) + IF i = k THEN 0 - tAlloc[i][b] ELSE 0
    <3>0. 0 \in Int
      OBVIOUS
    <3> HIDE DEF i, b
    <3> QED BY <1>1, <1>3, <3>0, BucketSum
  <2> QED BY <1>4, <2>1
<1> HIDE DEF a
<1>6. l.kind = i /\ l.amount = loc[t].amount + a
  BY <1>2, <1>3 DEF Locals
<1>7. pc'[t] = "sum" /\ loc'[t] = l
  BY <1>1 DEF Goto, CallsOK
<1> HIDE DEF l
<1>8. Carries(t, k)' = Carries(t, k) + d
  BY <1>1, <1>3, <1>4, <1>6, <1>7 DEF Carries
<1>9. Holds(t, k)' = 0 /\ Holds(t, k) = 0
  BY <1>1, <1>7 DEF Holds, Flushing
<1>10. /\ gAlloc'[k] = gAlloc[k] + 0 /\ taken'[k] = taken[k] + 0 /\ LiveSize(k)' = LiveSize(k) + 0
  BY <1>1, LiveSum, BalanceTypes
<1> DEFINE e == -d
<1>11. /\ Holds(t, k)' = Holds(t, k) + 0 /\ d \in Int /\ e \in Int /\ e + d = 0
       /\ Bucketed(k)' = Bucketed(k) + e
  BY <1>4, <1>5, <1>9
<1>12. Goto(t, "sum", l)
  BY <1>1
<1> HIDE DEF d, e, i, b
<1>13. Balance(k)' = Balance(k) + (0 + e + 0 + d - 0 - 0)
  BY <1>8, <1>10, <1>11, <1>12, BalanceMoves
<1> QED BY <1>11, <1>13, BalanceTypes

\* What is in hand is added to the counter of the kind, which may wrap.
LEMMA AddBalance ==
  ASSUME DataOK, CallsOK, CallsOK', CallsKept, NEW t \in Threads, NEW k \in Kinds,
         AddKind(t) \/ AddSum(t)
  PROVE  \E c \in Int : Balance(k)' = Balance(k) + c * Word
<1> DEFINE i == loc[t].kind
           a == loc[t].amount
           d == IF i = k THEN a ELSE 0
<1>0. Word \in Int
  BY WordAssumption
<1>1. /\ pc[t] \in {"addKind", "sum"} /\ gAlloc' = [gAlloc EXCEPT ![i] = (@ + a) % Word]
      /\ UNCHANGED <<tAlloc, taken>>
  BY DEF AddKind, AddSum
<1>2. loc[t] \in Locals /\ LocalsOK(t) /\ CallKept(t)
  BY DEF CallsOK, CallsKept
<1>3. i \in Kinds /\ a \in Int
  BY <1>1, <1>2 DEF LocalsOK, Locals
<1>4. gAlloc[k] \in Int /\ gAlloc'[k] = IF i = k THEN (gAlloc[k] + a) % Word ELSE gAlloc[k]
  BY <1>1, <1>3, Config, BalanceTypes DEF DataOK
<1>5. PICK c \in Int : gAlloc'[k] = gAlloc[k] + d + c * Word
  <2>1. CASE i = k
    <3>1. PICK c \in Int : (gAlloc[k] + a) % Word = (gAlloc[k] + a) + c * Word
      BY <1>3, <1>4, Wraps
    <3>2. gAlloc'[k] = gAlloc[k] + d + c * Word
      BY <1>4, <2>1, <3>1
    <3> QED BY <3>2
  <2>2. CASE i # k
    <3>1. gAlloc'[k] = gAlloc[k] + d + 0 * Word
      BY <1>0, <1>4, <2>2
    <3> QED BY <3>1
  <2> QED BY <2>1, <2>2
<1>6. Carries(t, k) = d
  BY <1>1 DEF Carries
<1>7. PICK p, l : /\ Goto(t, p, l) /\ Carries(t, k)' = 0 /\ Holds(t, k)' = Holds(t, k)
                  /\ LiveSize(k)' = LiveSize(k)
  <2>1. CASE AddKind(t)
    <3>1. Goto(t, "addTotal", loc[t]) /\ UNCHANGED owned /\ pc[t] = "addKind"
      BY <2>1 DEF AddKind
    <3>2. pc'[t] = "addTotal" /\ loc'[t] = loc[t]
      BY <3>1 DEF Goto, CallsOK
    <3>3. Carries(t, k)' = 0 /\ Holds(t, k)' = Holds(t, k)
      BY <3>1, <3>2 DEF Carries, Holds, Flushing
    <3> QED BY <3>1, <3>3, LiveSum
  <2>2. CASE AddSum(t)
    <3>1. Return(t) /\ pc[t] = "sum" /\ loc[t].block = NoBlock
      BY <1>2, <2>2 DEF AddSum, CallKept
    <3>2. /\ Goto(t, "idle", NoLocals)
          /\ Carries(t, k)' = 0 /\ Holds(t, k)' = 0
          /\ LiveSize(k)' = LiveSize(k) + IF loc[t].block # NoBlock /\ loc[t].kind = k
                                          THEN loc[t].block[2] ELSE 0
      BY <1>2, <3>1, ReturnBalance
    <3>3. Holds(t, k) = 0
      BY <3>1 DEF Holds, Flushing
    <3>4. LiveSize(k)' = LiveSize(k)
      BY <3>1, <3>2, LiveSum
    <3> QED BY <3>2, <3>3, <3>4
  <2> QED BY <2>1, <2>2
<1> DEFINE dg == d + c * Word
<1>8. /\ d \in Int /\ -d \in Int /\ dg \in Int /\ c * Word \in Int
      /\ gAlloc'[k] = gAlloc[k] + dg /\ Bucketed(k)' = Bucketed(k) + 0
      /\ taken'[k] = taken[k] + 0 /\ LiveSize(k)' = LiveSize(k) + 0
      /\ Carries(t, k)' = Carries(t, k) + (-d) /\ Holds(t, k)' = Holds(t, k) + 0
  <2>1. d \in Int /\ c * Word \in Int
    BY <1>0, <1>3
  <2> HIDE DEF d
  <2> QED BY <1>1, <1>4, <1>5, <1>6, <1>7, <2>1, BucketSum, BalanceTypes, ThreadValues
<1>9. dg = d + c * Word
  OBVIOUS
<1>10. Goto(t, p, l)
  BY <1>7
<1> HIDE DEF dg, d, i, a
<1>11. Balance(k)' = Balance(k) + (dg + 0 + 0 + (-d) - 0 - 0)
  BY <1>8, <1>10, BalanceMoves
<1>12. Balance(k)' = Balance(k) + c * Word
  BY <1>8, <1>9, <1>11, BalanceTypes
<1> QED BY <1>12

Balanced == \A k \in Kinds : \E c \in Int : Balance(k) = c * Word

\* A balanced kind is one that KindConserved speaks of.
LEMMA BalancedConserves == DataOK /\ CallsOK /\ Balanced => KindConserved
<1> SUFFICES ASSUME DataOK, CallsOK, Balanced, NEW k \in Kinds
             PROVE  (gAlloc[k] + Bucketed(k) + Carried(k) + taken[k]) % Word = Counted(k) % Word
  BY DEF KindConserved
<1> DEFINE x == gAlloc[k] + Bucketed(k) + Carried(k) + taken[k]
           y == LiveSize(k) + Held(k)
<1>1. Counted(k) = y
  BY DEF Counted, Held
<1>2. PICK c \in Int : Balance(k) = c * Word
  BY DEF Balanced
<1>3. Word \in Int /\ c * Word \in Int
  BY WordAssumption
<1>4. x \in Int /\ y \in Int /\ x = y + c * Word
  BY <1>2, <1>3, BalanceTypes DEF Balance
<1> HIDE DEF x, y
<1>5. x % Word = y % Word
  BY <1>4, SameWord
<1> QED BY <1>1, <1>5 DEF x

\* Nothing is counted before the first call.
LEMMA InitBalanced == Init => Balanced
<1> SUFFICES ASSUME Init, NEW k \in Kinds PROVE Balance(k) = 0 * Word
  BY DEF Balanced
<1>1. gAlloc[k] = 0 /\ taken[k] = 0
  BY Config DEF Init
<1>2. Bucketed(k) = 0
  <2>1. tAlloc[k] = [b \in Buckets |-> 0]
    BY DEF Init
  <2>2. Bucketed(k) = SumFunctionOnSet(tAlloc[k], Buckets) /\ \A b \in Buckets : tAlloc[k][b] = 0
    BY <2>1 DEF Bucketed, SumFunction
  <2> QED BY <2>2, FiniteSums, SumZero
<1>3. LiveSize(k) = 0
  <2> DEFINE f == [s \in Sizes |-> s * owned[<<k, s>>]]
  <2>1. \A s \in Sizes : s \in Nat /\ owned[<<k, s>>] = 0
    BY SizeAssumption DEF Init
  <2>2. LiveSize(k) = SumFunctionOnSet(f, Sizes) /\ \A s \in Sizes : f[s] = 0
    BY <2>1 DEF LiveSize, SumFunction
  <2> HIDE DEF f
  <2> QED BY <2>2, FiniteSums, SumZero
<1>4. ASSUME NEW t \in Threads PROVE Carries(t, k) = 0 /\ Holds(t, k) = 0
  BY DEF Init, Carries, Holds, Flushing
<1>5. Carried(k) = 0
  <2> DEFINE f == [t \in Threads |-> Carries(t, k)]
  <2>1. Carried(k) = SumFunctionOnSet(f, Threads) /\ \A t \in Threads : f[t] = 0
    BY <1>4 DEF Carried, SumFunction
  <2> HIDE DEF f
  <2> QED BY <2>1, FiniteSums, SumZero
<1>6. Held(k) = 0
  <2> DEFINE f == [t \in Threads |-> Holds(t, k)]
  <2>1. Held(k) = SumFunctionOnSet(f, Threads) /\ \A t \in Threads : f[t] = 0
    BY <1>4 DEF Held, SumFunction
  <2> HIDE DEF f
  <2> QED BY <2>1, FiniteSums, SumZero
<1>7. Word \in Int
  BY WordAssumption
<1> QED BY <1>1, <1>2, <1>3, <1>5, <1>6, <1>7 DEF Balance

\* memkind_pmem_destroy closes the account of its kind and leaves the others.
LEMMA DestroyBalance ==
  ASSUME DataOK, CallsOK, NEW i \in Kinds, Destroyed(i), NEW k \in Kinds
  PROVE  Balance(k)' = IF k = i THEN 0 ELSE Balance(k)
<1>1. /\ UNCHANGED <<pc, loc>> /\ \A u \in Threads : pc[u] # "idle" => loc[u].kind # i
  BY DEF Destroyed
<1>2. CASE k # i
  <2>1. tAlloc'[k] = tAlloc[k] /\ gAlloc'[k] = gAlloc[k] /\ taken'[k] = taken[k]
    BY <1>2, Config DEF Destroyed, DataOK
  <2>2. \A s \in Sizes : owned'[<<k, s>>] = owned[<<k, s>>]
    BY <1>2 DEF Destroyed
  <2>3. LiveSize(k)' = LiveSize(k) /\ Bucketed(k)' = Bucketed(k)
    BY <2>1, <2>2 DEF LiveSize, Bucketed
  <2>4. Carried(k)' = Carried(k) /\ Held(k)' = Held(k)
    BY <1>1 DEF Carried, Held, Carries, Holds
  <2>5. Balance(k)' = gAlloc'[k] + Bucketed(k)' + Carried(k)' + taken'[k] - LiveSize(k)' - Held(k)'
    BY DEF Balance
  <2> QED BY <1>2, <2>1, <2>3, <2>4, <2>5 DEF Balance
<1>3. CASE k = i
  <2>1. tAlloc'[k] = [b \in Buckets |-> 0] /\ gAlloc'[k] = 0 /\ taken'[k] = 0
    BY <1>3, Config DEF Destroyed, DataOK
  <2>2. \A s \in Sizes : s \in Int /\ owned'[<<k, s>>] = 0
    BY <1>3, SizeAssumption DEF Destroyed
  <2>3. Bucketed(k)' = 0
    <3> DEFINE f == [b \in Buckets |-> 0]
    <3>1. Bucketed(k)' = SumFunctionOnSet(f, Buckets) /\ \A b \in Buckets : f[b] = 0
      BY <2>1 DEF Bucketed, SumFunction
    <3> HIDE DEF f
    <3> QED BY <3>1, FiniteSums, SumZero
  <2>4. LiveSize(k)' = 0
    <3> DEFINE f == [s \in Sizes |-> s * owned'[<<k, s>>]]
    <3>1. LiveSize(k)' = SumFunctionOnSet(f, Sizes) /\ \A s \in Sizes : f[s] = 0
      BY <2>2 DEF LiveSize, SumFunction
    <3> HIDE DEF f
    <3> QED BY <3>1, FiniteSums, SumZero
  <2>5. ASSUME NEW t \in Threads PROVE Carries(t, k)' = 0 /\ Holds(t, k)' = 0
    <3>1. pc'[t] = pc[t] /\ loc'[t] = loc[t] /\ (pc[t] # "idle" => loc[t].kind # k)
      BY <1>1, <1>3
    <3> QED BY <3>1 DEF Carries, Holds, Flushing
  <2>6. Carried(k)' = 0
    <3> DEFINE f == [t \in Threads |-> Carries(t, k)']
    <3>1. Carried(k)' = SumFunctionOnSet(f, Threads) /\ \A t \in Threads : f[t] = 0
      BY <2>5 DEF Carried, SumFunction
    <3> HIDE DEF f
    <3> QED BY <3>1, FiniteSums, SumZero
  <2>7. Held(k)' = 0
    <3> DEFINE f == [t \in Threads |-> Holds(t, k)']
    <3>1. Held(k)' = SumFunctionOnSet(f, Threads) /\ \A t \in Threads : f[t] = 0
      BY <2>5 DEF Held, SumFunction
    <3> HIDE DEF f
    <3> QED BY <3>1, FiniteSums, SumZero
  <2>8. Balance(k)' = gAlloc'[k] + Bucketed(k)' + Carried(k)' + taken'[k] - LiveSize(k)' - Held(k)'
    BY DEF Balance
  <2> QED BY <1>3, <2>1, <2>3, <2>4, <2>6, <2>7, <2>8
<1> QED BY <1>2, <1>3

\* Every step leaves the balance of every kind a multiple of the range.
LEMMA BalancedStep ==
  ASSUME DataOK, CallsOK, CallsOK', CallsKept, Balanced, Next
  PROVE  Balanced'
<1> SUFFICES ASSUME NEW k \in Kinds PROVE \E c \in Int : Balance(k)' = c * Word
  BY DEF Balanced
<1>1. PICK c \in Int : Balance(k) = c * Word
  BY DEF Balanced
<1>2. PICK t \in Threads :
           \/ Malloc(t) \/ ReadFirst(t) \/ ReadTier(t)
           \/ Free(t) \/ Realloc(t) \/ Reallocate(t) \/ ReallocFails(t)
           \/ Increment(t) \/ Decrement(t)
           \/ Exchange(t) \/ AddKind(t) \/ AddTotal(t) \/ ReadHot(t) \/ Publish(t)
           \/ Query(t) \/ SumBucket(t) \/ AddSum(t) \/ PmemDestroy(t)
  BY DEF Next
<1>3. CASE AddKind(t) \/ AddSum(t)
  <2>1. PICK e \in Int : Balance(k)' = Balance(k) + e * Word
    BY <1>3, AddBalance
  <2>2. Balance(k)' = (c + e) * Word
    BY <1>1, <2>1, WordAssumption
  <2>3. c + e \in Int
    OBVIOUS
  <2> QED BY <2>2, <2>3
<1>5. CASE PmemDestroy(t)
  <2>1. PICK i \in Kinds : Destroyed(i)
    BY <1>5, DestroyEffect
  <2>2. Balance(k)' = 0 \/ Balance(k)' = Balance(k)
    BY <2>1, DestroyBalance
  <2>3. 0 = 0 * Word /\ 0 \in Int
    BY WordAssumption
  <2> QED BY <1>1, <2>2, <2>3
<1>4. CASE ~(AddKind(t) \/ AddSum(t) \/ PmemDestroy(t))
  <2>1. Balance(k)' = Balance(k)
    BY <1>2, <1>4, IdleBalance, TakeBalance, IncrementBalance, DecrementBalance,
       ExchangeBalance, PublishBalance, SumBucketBalance
  <2> QED BY <1>1, <2>1
<1> QED BY <1>3, <1>4, <1>5

\* What the counters of the kinds hold is what the application and the calls
\* under way hold, at every moment and however the threads share buckets.
THEOREM SizesConserved == Spec => []KindConserved
<1>1. Init => CallsKept /\ Balanced
  <2> SUFFICES ASSUME Init PROVE CallsKept
    BY InitBalanced
  <2> QED BY DEF Init, CallsKept, CallKept
<1>2. TypeOK /\ TypeOK' /\ CallsKept /\ Balanced /\ [Next]_vars => CallsKept' /\ Balanced'
  <2> SUFFICES ASSUME DataOK, CallsOK, CallsOK', CallsKept, Balanced, [Next]_vars
               PROVE  CallsKept' /\ Balanced'
    BY TypeParts DEF TypeOK, CallsOK, PCs
  <2>1. CASE Next
    BY <2>1, KeptStep, BalancedStep
  <2>2. CASE UNCHANGED vars
    <3>1. CallsKept'
      BY <2>2 DEF vars, CallsKept, CallKept
    <3>2. ASSUME NEW k \in Kinds PROVE Balance(k)' = Balance(k)
      BY <2>2 DEF vars, Balance, Bucketed, Carried, Held, LiveSize, Carries, Holds
    <3> QED BY <3>1, <3>2 DEF Balanced
  <2> QED BY <2>1, <2>2
<1>3. TypeOK /\ Balanced => KindConserved
  BY TypeParts, BalancedConserves
<1> QED BY <1>1, <1>2, <1>3, TypeCorrect, PTL DEF Spec
-----------------------------------------------------------------------------
\* What a thread has added to the counter of a kind and not yet to the total.
Owed(t) == IF pc[t] = "addTotal" THEN loc[t].amount ELSE 0
Owing == SumFunction([t \in Threads |-> Owed(t)])
KindSum == SumFunctionOnSet(gAlloc, Kinds)
Surplus == KindSum - gAlloc[TOTAL] - apart - Owing
TotalBehind == apart \in Int /\ \E c \in Int : Surplus = c * Word

\* The parts of the surplus are integers.
LEMMA SurplusTypes ==
  ASSUME DataOK, CallsOK
  PROVE  /\ \A t \in Threads : Owed(t) \in Int
         /\ Owing \in Int /\ KindSum \in Int /\ gAlloc[TOTAL] \in Int
<1>1. \A t \in Threads : Owed(t) \in Int
  BY DEF Owed, CallsOK, Locals
<1>2. Owing \in Int
  <2> DEFINE f == [t \in Threads |-> Owed(t)]
  <2>1. Owing = SumFunctionOnSet(f, Threads) /\ \A t \in Threads : f[t] \in Int
    BY <1>1 DEF Owing, SumFunction
  <2> HIDE DEF f
  <2> QED BY <2>1, FiniteSums, SumInt
<1>3. \A k \in Kinds \cup {TOTAL} : gAlloc[k] \in Int
  BY Config, WordAssumption DEF DataOK
<1>4. KindSum \in Int
  BY <1>3, FiniteSums, SumInt DEF KindSum
<1> QED BY <1>1, <1>2, <1>3, <1>4

\* The sum of the kinds moves with one of them.
LEMMA KindSumMoves ==
  ASSUME DataOK, DataOK', NEW i \in Kinds, NEW v, gAlloc' = [gAlloc EXCEPT ![i] = v]
  PROVE  KindSum' = KindSum + v - gAlloc[i] /\ gAlloc'[TOTAL] = gAlloc[TOTAL] /\ v \in Int
<1>1. \A k \in Kinds : gAlloc[k] \in Int /\ gAlloc'[k] \in Int
  BY Config, WordAssumption DEF DataOK
<1>2. /\ \A k \in Kinds \ {i} : gAlloc'[k] = gAlloc[k]
      /\ gAlloc'[i] = v /\ gAlloc'[TOTAL] = gAlloc[TOTAL]
  <2>1. TOTAL \notin Kinds
    BY Config DEF TOTAL
  <2> QED BY <2>1, Config DEF DataOK
<1>3. SumFunctionOnSet(gAlloc', Kinds) = SumFunctionOnSet(gAlloc, Kinds) + gAlloc'[i] - gAlloc[i]
  <2> DEFINE g == gAlloc'
  <2>1. /\ \A k \in Kinds : gAlloc[k] \in Int /\ g[k] \in Int
        /\ \A k \in Kinds \ {i} : g[k] = gAlloc[k]
    BY <1>1, <1>2
  <2> HIDE DEF g
  <2>2. SumFunctionOnSet(g, Kinds) = SumFunctionOnSet(gAlloc, Kinds) + g[i] - gAlloc[i]
    BY <2>1, FiniteSums, SumChange
  <2> QED BY <2>2 DEF g
<1>4. KindSum' = SumFunctionOnSet(gAlloc', Kinds)
  BY DEF KindSum
<1> QED BY <1>1, <1>2, <1>3, <1>4 DEF KindSum

\* A step of one thread changes what is owed by what it owes.
LEMMA OwingMoves ==
  ASSUME DataOK, CallsOK, CallsOK', NEW t \in Threads, NEW p, NEW l, Goto(t, p, l)
  PROVE  Owing' = Owing + Owed(t)' - Owed(t)
<1> DEFINE f == [u \in Threads |-> Owed(u)]
           g == [u \in Threads |-> Owed(u)']
<1>1. Owing = SumFunctionOnSet(f, Threads) /\ Owing' = SumFunctionOnSet(g, Threads)
  BY DEF Owing, SumFunction
<1>2. \A u \in Threads : f[u] \in Int /\ g[u] \in Int
  BY DEF Owed, CallsOK, Locals
<1>3. ASSUME NEW u \in Threads \ {t} PROVE g[u] = f[u]
  BY DEF Owed, CallsOK, Goto
<1>4. f[t] = Owed(t) /\ g[t] = Owed(t)'
  OBVIOUS
<1> HIDE DEF f, g
<1>5. SumFunctionOnSet(g, Threads) = SumFunctionOnSet(f, Threads) + g[t] - f[t]
  BY <1>2, <1>3, FiniteSums, SumChange
<1> QED BY <1>1, <1>4, <1>5

\* A step that neither starts nor ends at addTotal owes nothing.
LEMMA OwingStays ==
  ASSUME DataOK, CallsOK, CallsOK', NEW t \in Threads, NEW p, NEW l, Goto(t, p, l),
         pc[t] # "addTotal", p # "addTotal"
  PROVE  Owing' = Owing
<1>1. Owed(t) = 0 /\ Owed(t)' = 0
  BY DEF Owed, Goto, CallsOK
<1> QED BY <1>1, OwingMoves, SurplusTypes

LEMMA TotalStep ==
  ASSUME DataOK, CallsOK, DataOK', CallsOK', TotalBehind, Next
  PROVE  TotalBehind'
<1>0. Word \in Int /\ apart \in Int
  BY WordAssumption DEF TotalBehind
<1>1. PICK c \in Int : Surplus = c * Word
  BY DEF TotalBehind
<1>2. PICK t \in Threads :
           \/ Malloc(t) \/ ReadFirst(t) \/ ReadTier(t)
           \/ Free(t) \/ Realloc(t) \/ Reallocate(t) \/ ReallocFails(t)
           \/ Increment(t) \/ Decrement(t)
           \/ Exchange(t) \/ AddKind(t) \/ AddTotal(t) \/ ReadHot(t) \/ Publish(t)
           \/ Query(t) \/ SumBucket(t) \/ AddSum(t) \/ PmemDestroy(t)
  BY DEF Next
<1>3. loc[t] \in Locals /\ LocalsOK(t)
  BY DEF CallsOK
<1> DEFINE a == loc[t].amount
           i == loc[t].kind
<1>4. a \in Int
  BY <1>3 DEF Locals
<1>5. Surplus' = KindSum' - gAlloc'[TOTAL] - apart' - Owing'
  BY DEF Surplus
<1>6. Surplus = KindSum - gAlloc[TOTAL] - apart - Owing
  BY DEF Surplus
<1>7. Owing \in Int /\ KindSum \in Int /\ gAlloc[TOTAL] \in Int
  BY SurplusTypes
<1>8. CASE AddKind(t)
  <2>1. /\ pc[t] = "addKind" /\ gAlloc' = [gAlloc EXCEPT ![i] = (@ + a) % Word]
        /\ Goto(t, "addTotal", loc[t]) /\ apart' = apart
    BY <1>8 DEF AddKind
  <2>2. i \in Kinds /\ gAlloc[i] \in Int
    <3>1. i \in Kinds
      BY <1>3, <2>1 DEF LocalsOK
    <3> HIDE DEF i
    <3> QED BY <3>1, BalanceTypes
  <2>3. Owed(t) = 0 /\ Owed(t)' = a
    BY <2>1 DEF Owed, Goto, CallsOK
  <2>4. Owing' = Owing + a
    BY <1>4, <1>7, <2>1, <2>3, OwingMoves
  <2>5. PICK e \in Int : (gAlloc[i] + a) % Word = (gAlloc[i] + a) + e * Word
    BY <1>4, <2>2, Wraps
  <2> DEFINE v == (gAlloc[i] + a) % Word
  <2>6. gAlloc' = [gAlloc EXCEPT ![i] = v] /\ v = (gAlloc[i] + a) + e * Word
    BY <2>1, <2>5
  <2> HIDE DEF v, i, a
  <2>7. KindSum' = KindSum + v - gAlloc[i] /\ gAlloc'[TOTAL] = gAlloc[TOTAL]
    BY <2>2, <2>6, KindSumMoves
  <2>8. e * Word \in Int
    BY <1>0
  <2>9. Surplus' = Surplus + e * Word
    BY <1>0, <1>4, <1>5, <1>6, <1>7, <2>1, <2>2, <2>4, <2>6, <2>7, <2>8
  <2>10. Surplus' = (c + e) * Word /\ c + e \in Int
    BY <1>0, <1>1, <2>9
  <2> QED BY <1>0, <2>1, <2>10 DEF TotalBehind
<1>9. CASE AddSum(t)
  <2>1. /\ pc[t] = "sum" /\ gAlloc' = [gAlloc EXCEPT ![i] = (@ + a) % Word]
        /\ Goto(t, "idle", NoLocals) /\ apart' = apart + a
    BY <1>9 DEF AddSum, Return
  <2>2. i \in Kinds /\ gAlloc[i] \in Int
    <3>1. i \in Kinds
      BY <1>3, <2>1 DEF LocalsOK
    <3> HIDE DEF i
    <3> QED BY <3>1, BalanceTypes
  <2>4. Owing' = Owing
    BY <2>1, OwingStays
  <2>5. PICK e \in Int : (gAlloc[i] + a) % Word = (gAlloc[i] + a) + e * Word
    BY <1>4, <2>2, Wraps
  <2> DEFINE v == (gAlloc[i] + a) % Word
  <2>6. gAlloc' = [gAlloc EXCEPT ![i] = v] /\ v = (gAlloc[i] + a) + e * Word
    BY <2>1, <2>5
  <2> HIDE DEF v, i, a
  <2>7. KindSum' = KindSum + v - gAlloc[i] /\ gAlloc'[TOTAL] = gAlloc[TOTAL]
    BY <2>2, <2>6, KindSumMoves
  <2>8. e * Word \in Int
    BY <1>0
  <2>9. Surplus' = Surplus + e * Word
    BY <1>0, <1>4, <1>5, <1>6, <1>7, <2>1, <2>2, <2>4, <2>6, <2>7, <2>8
  <2>10. Surplus' = (c + e) * Word /\ c + e \in Int
    BY <1>0, <1>1, <2>9
  <2>11. apart' \in Int
    BY <1>0, <1>4, <2>1
  <2> QED BY <2>10, <2>11 DEF TotalBehind
<1>10. CASE AddTotal(t)
  <2> DEFINE v == (gAlloc[TOTAL] + a) % Word
             l == [loc[t] EXCEPT !.amount = 0, !.total = v]
  <2>1. /\ pc[t] = "addTotal" /\ gAlloc' = [gAlloc EXCEPT ![TOTAL] = v]
        /\ Goto(t, "readHot", l) /\ apart' = apart
    BY <1>10 DEF AddTotal
  <2>2. PICK e \in Int : v = (gAlloc[TOTAL] + a) + e * Word
    BY <1>4, <1>7, Wraps
  <2> HIDE DEF l
  <2>3. Owed(t) = a /\ Owed(t)' = 0
    BY <2>1 DEF Owed, Goto, CallsOK
  <2>4. Owing' = Owing - a
    BY <1>4, <1>7, <2>1, <2>3, OwingMoves
  <2> HIDE DEF v, a
  <2>5. gAlloc'[TOTAL] = v /\ KindSum' = KindSum
    <3>1. TOTAL \notin Kinds
      BY Config DEF TOTAL
    <3>2. gAlloc'[TOTAL] = v /\ \A k \in Kinds : gAlloc'[k] = gAlloc[k] /\ gAlloc[k] \in Int
      BY <2>1, <3>1, Config, WordAssumption DEF DataOK
    <3>3. SumFunctionOnSet(gAlloc', Kinds) = SumFunctionOnSet(gAlloc, Kinds)
      BY <3>2, FiniteSums, SumEqual
    <3> QED BY <3>2, <3>3 DEF KindSum
  <2> DEFINE w == e * Word
  <2>6. w \in Int
    BY <1>0
  <2>7. v = gAlloc[TOTAL] + a + w
    BY <2>2
  <2>8. w = e * Word
    OBVIOUS
  <2> HIDE DEF w
  <2>9. Surplus' = Surplus - w
    BY <1>0, <1>4, <1>5, <1>6, <1>7, <2>1, <2>4, <2>5, <2>6, <2>7
  <2>10. Surplus' = (c - e) * Word /\ c - e \in Int
    BY <1>0, <1>1, <2>8, <2>9
  <2> QED BY <1>0, <2>1, <2>10 DEF TotalBehind
<1>12. CASE PmemDestroy(t)
  <2>1. PICK k \in Kinds : Destroyed(k)
    BY <1>12, DestroyEffect
  <2>2. /\ gAlloc' = [gAlloc EXCEPT ![k] = 0] /\ apart' = apart - gAlloc[k] /\ UNCHANGED <<pc, loc>>
    BY <2>1 DEF Destroyed
  <2>3. KindSum' = KindSum + 0 - gAlloc[k] /\ gAlloc'[TOTAL] = gAlloc[TOTAL] /\ gAlloc[k] \in Int
    BY <2>2, KindSumMoves, BalanceTypes
  <2>4. Owing' = Owing
    BY <2>2 DEF Owing, Owed
  <2>5. Surplus' = Surplus /\ apart' \in Int
    BY <1>0, <1>5, <1>6, <1>7, <2>2, <2>3, <2>4
  <2> QED BY <1>1, <2>5 DEF TotalBehind
<1>11. CASE ~(AddKind(t) \/ AddSum(t) \/ AddTotal(t) \/ PmemDestroy(t))
  <2>1. UNCHANGED <<gAlloc, apart>>
    BY <1>2, <1>11 DEF Malloc, ReadFirst, ReadTier, Free, Realloc, Reallocate, ReallocFails,
       Increment, Decrement, Exchange, ReadHot, Publish, Query, SumBucket
  <2>2. pc[t] # "addTotal"
    BY <1>2, <1>11 DEF Malloc, ReadFirst, ReadTier, Free, Realloc, Reallocate, ReallocFails,
       Increment, Decrement, Exchange, ReadHot, Publish, Query, SumBucket, Begin
  <2>3. PICK p, l : Goto(t, p, l) /\ p \in {"readFirst", "readTier", "increment", "decrement",
                               "realloc", "exchange", "addKind", "publish", "sum", "idle"}
    <3>0. loc[t].next \in {"return", "realloc"}
      BY <1>3 DEF Locals
    <3>1. CASE Malloc(t) \/ ReadTier(t)
      BY <3>1 DEF Malloc, ReadTier, Allocate
    <3>2. CASE ReadFirst(t) \/ Free(t) \/ Realloc(t) \/ Reallocate(t) \/ ReallocFails(t)
      BY <3>2 DEF ReadFirst, Free, Realloc, Reallocate, ReallocFails
    <3>3. CASE Increment(t) \/ Decrement(t) \/ Publish(t)
      <4>1. Goto(t, "exchange", loc[t]) \/ Proceed(t)
        BY <3>3 DEF Increment, Decrement, Publish
      <4>2. CASE Proceed(t)
        BY <3>0, <4>2 DEF Proceed, Return
      <4> QED BY <4>1, <4>2
    <3>4. CASE Exchange(t) \/ ReadHot(t) \/ Query(t) \/ SumBucket(t)
      BY <3>4 DEF Exchange, ReadHot, Query, SumBucket
    <3> QED BY <1>2, <1>11, <3>1, <3>2, <3>3, <3>4
  <2>4. Owing' = Owing
    <3>1. p # "addTotal"
      BY <2>3
    <3> QED BY <2>2, <2>3, <3>1, OwingStays
  <2>5. KindSum' = KindSum
    BY <2>1 DEF KindSum
  <2>6. Surplus' = Surplus
    BY <1>5, <1>6, <2>1, <2>4, <2>5
  <2> QED BY <1>0, <1>1, <2>1, <2>6 DEF TotalBehind
<1> QED BY <1>2, <1>8, <1>9, <1>10, <1>11, <1>12

\* Between calls the total differs from the sum of the kinds by exactly what
\* memtier_kind_allocated_size and memtier_reset_size did to the kinds alone.
THEOREM TotalLagsExactly == Spec => []TotalConserved
<1>1. Init => TotalBehind
  <2> SUFFICES ASSUME Init PROVE apart \in Int /\ Surplus = 0 * Word
    BY DEF TotalBehind
  <2>1. gAlloc[TOTAL] = 0 /\ apart = 0 /\ \A k \in Kinds : gAlloc[k] = 0
    BY Config DEF Init
  <2>2. KindSum = 0
    BY <2>1, FiniteSums, SumZero DEF KindSum
  <2>3. Owing = 0
    <3> DEFINE f == [t \in Threads |-> Owed(t)]
    <3>1. Owing = SumFunctionOnSet(f, Threads) /\ \A t \in Threads : f[t] = 0
      BY DEF Owing, SumFunction, Init, Owed
    <3> HIDE DEF f
    <3> QED BY <3>1, FiniteSums, SumZero
  <2>4. Word \in Int
    BY WordAssumption
  <2> QED BY <2>1, <2>2, <2>3, <2>4 DEF Surplus
<1>2. TypeOK /\ TypeOK' /\ TotalBehind /\ [Next]_vars => TotalBehind'
  <2> SUFFICES ASSUME DataOK, CallsOK, DataOK', CallsOK', TotalBehind, [Next]_vars
               PROVE  TotalBehind'
    BY TypeParts DEF TypeOK, DataOK, CallsOK, PCs
  <2>1. CASE Next
    BY <2>1, TotalStep
  <2>2. CASE UNCHANGED vars
    BY <2>2 DEF vars, TotalBehind, Surplus, KindSum, Owing, Owed
  <2> QED BY <2>1, <2>2
<1>3. TypeOK /\ TotalBehind => TotalConserved
  <2> SUFFICES ASSUME DataOK, CallsOK, TotalBehind, Quiet
               PROVE  (gAlloc[TOTAL] + apart) % Word = SumFunctionOnSet(gAlloc, Kinds) % Word
    BY TypeParts DEF TotalConserved
  <2>1. PICK c \in Int : Surplus = c * Word
    BY DEF TotalBehind
  <2>2. Owing = 0
    <3> DEFINE f == [t \in Threads |-> Owed(t)]
    <3>1. Owing = SumFunctionOnSet(f, Threads) /\ \A t \in Threads : f[t] = 0
      BY DEF Owing, SumFunction, Quiet, Owed
    <3> HIDE DEF f
    <3> QED BY <3>1, FiniteSums, SumZero
  <2>3. KindSum \in Int /\ gAlloc[TOTAL] \in Int /\ apart \in Int /\ Word \in Int
    BY SurplusTypes, WordAssumption DEF TotalBehind
  <2> DEFINE x == gAlloc[TOTAL] + apart
  <2>4. c * Word \in Int
    BY <2>3
  <2>5. KindSum = x + c * Word /\ x \in Int
    BY <2>1, <2>2, <2>3, <2>4 DEF Surplus
  <2> HIDE DEF x
  <2>6. KindSum % Word = x % Word
    BY <2>3, <2>5, SameWord
  <2> QED BY <2>6 DEF KindSum, x
<1> QED BY <1>1, <1>2, <1>3, TypeCorrect, PTL DEF Spec
=============================================================================
