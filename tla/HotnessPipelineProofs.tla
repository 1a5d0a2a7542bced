----------------------- MODULE HotnessPipelineProofs -----------------------
(***************************************************************************)
(* Proofs about HotnessPipeline: the counters of a type cover its blocks   *)
(* and a touch conserves the ranked size in every execution, and the       *)
(* ranking and the tracker are exact as long as every event arrives.       *)
(***************************************************************************)
EXTENDS HotnessPipeline, FiniteSetTheorems, SequenceTheorems, WellFoundedInduction, TLAPS

(* Sums over finite sets: the sum of f[x] for the x of S, SumFunctionOnSet of
   module Functions.  The library defines it by a recursive function on the
   subsets; that this function exists and that the order of the elements does
   not matter is shown with a minimal counterexample. *)

Pick(s) == CHOOSE x \in s : TRUE
Rest(s) == s \ {Pick(s)}

\* g is the recursive function of the library, on the subsets of S.
Solves(g, f, S) ==
  g = [s \in SUBSET S |-> IF s = {} THEN 0 ELSE f[Pick(s)] + g[Rest(s)]]
Solution(f, S) == CHOOSE g : Solves(g, f, S)

\* The element picked is one of the set.
LEMMA PickIn == ASSUME NEW s, s # {} PROVE Pick(s) \in s
BY DEF Pick

\* The sum in the terms of this module.
LEMMA SumIsSolution ==
  ASSUME NEW f, NEW S PROVE SumFunctionOnSet(f, S) = Solution(f, S)[S]
BY DEF SumFunctionOnSet, FoldFunctionOnSet, MapThenFoldSet, Solution, Solves, Pick, Rest

\* Induction over the finite subsets of S, in the form the provers can use: a
\* set of them that is not empty has a member none of whose proper subsets is
\* in it.
LEMMA MinimalSubset ==
  ASSUME NEW S, IsFiniteSet(S), NEW T \in SUBSET SUBSET S, T # {}
  PROVE  \E x \in T : \A y \in T : y \subseteq x => y = x
<1>1. FiniteSubsetsOf(S) = SUBSET S
  BY FS_FiniteSubsetsOfFinite
<1>2. IsWellFoundedOn(StrictSubsetOrdering(S), SUBSET S)
  BY <1>1, FS_StrictSubsetOrderingWellFounded
<1>3. PICK x \in T : \A y \in T : ~(<<y, x>> \in StrictSubsetOrdering(S))
  BY <1>2, WFMin
<1>4. ASSUME NEW y \in T, y \subseteq x PROVE y = x
  BY <1>3, <1>4 DEF StrictSubsetOrdering
<1> QED BY <1>4

\* Two solutions agree where both are defined.
LEMMA SolutionsAgree ==
  ASSUME NEW f, NEW A, IsFiniteSet(A), NEW B, NEW g, Solves(g, f, A), NEW h, Solves(h, f, B),
         NEW v, v \subseteq A, v \subseteq B
  PROVE  g[v] = h[v]
<1> DEFINE T == {s \in SUBSET A : s \subseteq B /\ g[s] # h[s]}
<1> SUFFICES T = {}
  OBVIOUS
<1> SUFFICES ASSUME T # {} PROVE FALSE
  OBVIOUS
<1>1. PICK s \in T : \A y \in T : y \subseteq s => y = s
  <2>1. T \in SUBSET SUBSET A
    OBVIOUS
  <2> HIDE DEF T
  <2> QED BY <2>1, MinimalSubset
<1>2. g[s] = IF s = {} THEN 0 ELSE f[Pick(s)] + g[Rest(s)]
  BY DEF Solves
<1>3. h[s] = IF s = {} THEN 0 ELSE f[Pick(s)] + h[Rest(s)]
  BY DEF Solves
<1>4. s # {}
  BY <1>2, <1>3
<1>5. Rest(s) \subseteq s /\ Rest(s) # s
  BY <1>4, PickIn DEF Rest
<1>6. Rest(s) \notin T
  BY <1>1, <1>5
<1>7. g[Rest(s)] = h[Rest(s)]
  BY <1>5, <1>6
<1> QED BY <1>2, <1>3, <1>4, <1>7

\* There is a solution for every finite set.
LEMMA SolutionExists ==
  ASSUME NEW f, NEW S, IsFiniteSet(S)
  PROVE  Solves(Solution(f, S), f, S)
<1> DEFINE T == {s \in SUBSET S : ~Solves(Solution(f, s), f, s)}
<1> SUFFICES T = {}
  OBVIOUS
<1> SUFFICES ASSUME T # {} PROVE FALSE
  OBVIOUS
<1>1. PICK A \in T : \A y \in T : y \subseteq A => y = A
  <2>1. T \in SUBSET SUBSET S
    OBVIOUS
  <2> HIDE DEF T
  <2> QED BY <2>1, MinimalSubset
<1>2. ASSUME NEW u, u \subseteq A, u # A PROVE Solves(Solution(f, u), f, u)
  BY <1>1, <1>2
<1> DEFINE g == [s \in SUBSET A |->
                   IF s = {} THEN 0 ELSE f[Pick(s)] + Solution(f, Rest(s))[Rest(s)]]
<1>3. ASSUME NEW s \in SUBSET A, s # {} PROVE g[Rest(s)] = Solution(f, Rest(s))[Rest(s)]
  <2> DEFINE u == Rest(s)
  <2>1. u \subseteq A /\ u # A
    BY <1>3, PickIn DEF Rest
  <2>2. Solution(f, u)[u] = IF u = {} THEN 0 ELSE f[Pick(u)] + Solution(f, u)[Rest(u)]
    BY <2>1, <1>2 DEF Solves
  <2>3. CASE u = {}
    BY <2>1, <2>2, <2>3
  <2>4. CASE u # {}
    <3>1. Rest(u) \subseteq u /\ Rest(u) # A /\ IsFiniteSet(u)
      BY <2>1, FS_Subset DEF Rest
    <3>2. Solves(Solution(f, Rest(u)), f, Rest(u)) /\ Solves(Solution(f, u), f, u)
      BY <3>1, <2>1, <1>2
    <3>3. Solution(f, u)[Rest(u)] = Solution(f, Rest(u))[Rest(u)]
      BY <3>1, <3>2, SolutionsAgree
    <3> QED BY <2>1, <2>2, <2>4, <3>3
  <2> QED BY <2>3, <2>4
<1>4. Solves(g, f, A)
  <2> DEFINE h == [s \in SUBSET A |-> IF s = {} THEN 0 ELSE f[Pick(s)] + g[Rest(s)]]
  <2>1. ASSUME NEW s \in SUBSET A PROVE g[s] = h[s]
    BY <1>3
  <2>2. g = h
    BY <2>1
  <2> QED BY <2>2 DEF Solves
<1>5. Solves(Solution(f, A), f, A)
  <2> HIDE DEF g
  <2> QED BY <1>4 DEF Solution
<1> QED BY <1>5

-----------------------------------------------------------------------------
\* The sum over the empty set.
LEMMA SumEmpty == ASSUME NEW f PROVE SumFunctionOnSet(f, {}) = 0
<1>1. Solves(Solution(f, {}), f, {})
  BY SolutionExists, FS_EmptySet
<1> QED BY <1>1, SumIsSolution DEF Solves

\* The recursion of the definition.
LEMMA SumPick ==
  ASSUME NEW f, NEW S, IsFiniteSet(S), S # {}
  PROVE  SumFunctionOnSet(f, S) = f[Pick(S)] + SumFunctionOnSet(f, Rest(S))
<1>1. Rest(S) \subseteq S /\ IsFiniteSet(Rest(S))
  BY FS_Subset DEF Rest
<1>2. Solves(Solution(f, S), f, S) /\ Solves(Solution(f, Rest(S)), f, Rest(S))
  BY <1>1, SolutionExists
<1>3. Solution(f, S)[Rest(S)] = Solution(f, Rest(S))[Rest(S)]
  BY <1>1, <1>2, SolutionsAgree
<1>4. Solution(f, S)[S] = f[Pick(S)] + Solution(f, S)[Rest(S)]
  BY <1>2 DEF Solves
<1> QED BY <1>3, <1>4, SumIsSolution

\* A sum of integers is an integer.
LEMMA SumInt ==
  ASSUME NEW f, NEW S, IsFiniteSet(S), \A x \in S : f[x] \in Int
  PROVE  SumFunctionOnSet(f, S) \in Int
<1> DEFINE T == {s \in SUBSET S : SumFunctionOnSet(f, s) \notin Int}
<1> SUFFICES T = {}
  OBVIOUS
<1> SUFFICES ASSUME T # {} PROVE FALSE
  OBVIOUS
<1>1. PICK A \in T : \A y \in T : y \subseteq A => y = A
  <2>1. T \in SUBSET SUBSET S
    OBVIOUS
  <2> HIDE DEF T
  <2> QED BY <2>1, MinimalSubset
<1>2. A # {}
  BY SumEmpty
<1>3. Pick(A) \in A /\ Rest(A) \subseteq A /\ Rest(A) # A /\ IsFiniteSet(A)
  BY <1>2, PickIn, FS_Subset DEF Rest
<1>4. SumFunctionOnSet(f, Rest(A)) \in Int
  BY <1>1, <1>3
<1>5. SumFunctionOnSet(f, A) = f[Pick(A)] + SumFunctionOnSet(f, Rest(A))
  BY <1>2, <1>3, SumPick
<1>6. f[Pick(A)] \in Int
  BY <1>3
<1> QED BY <1>4, <1>5, <1>6

\* Any element of the set may be taken out first.
LEMMA SumRemove ==
  ASSUME NEW f, NEW S, IsFiniteSet(S), \A x \in S : f[x] \in Int, NEW e \in S
  PROVE  SumFunctionOnSet(f, S) = f[e] + SumFunctionOnSet(f, S \ {e})
<1> DEFINE Sum(s) == SumFunctionOnSet(f, s)
           T == {s \in SUBSET S : \E x \in s : Sum(s) # f[x] + Sum(s \ {x})}
<1> SUFFICES T = {}
  OBVIOUS
<1> SUFFICES ASSUME T # {} PROVE FALSE
  OBVIOUS
<1>1. PICK A \in T : \A y \in T : y \subseteq A => y = A
  <2>1. T \in SUBSET SUBSET S
    OBVIOUS
  <2> HIDE DEF T
  <2> QED BY <2>1, MinimalSubset
<1>2. PICK x \in A : Sum(A) # f[x] + Sum(A \ {x})
  OBVIOUS
<1> DEFINE p == Pick(A)
<1>3. p \in A /\ IsFiniteSet(A) /\ Sum(A) = f[p] + Sum(A \ {p})
  <2>1. A # {} /\ IsFiniteSet(A)
    BY FS_Subset
  <2> QED BY <2>1, PickIn, SumPick DEF Rest
<1>4. x # p
  BY <1>2, <1>3
<1>5. A \ {p} \notin T /\ A \ {x} \notin T /\ A \ {p} \in SUBSET S /\ A \ {x} \in SUBSET S
  BY <1>1, <1>3
<1>6. Sum(A \ {p}) = f[x] + Sum((A \ {p}) \ {x})
  BY <1>4, <1>5
<1>7. Sum(A \ {x}) = f[p] + Sum((A \ {x}) \ {p})
  BY <1>3, <1>4, <1>5
<1>8. (A \ {x}) \ {p} = (A \ {p}) \ {x}
  OBVIOUS
<1>9. Sum((A \ {x}) \ {p}) \in Int /\ f[x] \in Int /\ f[p] \in Int
  <2>1. IsFiniteSet((A \ {x}) \ {p}) /\ \A y \in (A \ {x}) \ {p} : f[y] \in Int
    BY <1>3, FS_Subset
  <2> QED BY <2>1, <1>3, SumInt
<1>10. Sum(A) = f[p] + (f[x] + Sum((A \ {x}) \ {p}))
  BY <1>3, <1>6, <1>8
<1>11. f[p] + (f[x] + Sum((A \ {x}) \ {p})) = f[x] + (f[p] + Sum((A \ {x}) \ {p}))
  <2> HIDE DEF Sum, p, T
  <2> QED BY <1>9
<1> QED BY <1>2, <1>7, <1>10, <1>11

\* A sum depends on the values in the set only.
LEMMA SumEqual ==
  ASSUME NEW f, NEW g, NEW S, IsFiniteSet(S), \A x \in S : f[x] \in Int /\ g[x] = f[x]
  PROVE  SumFunctionOnSet(g, S) = SumFunctionOnSet(f, S)
<1> DEFINE T == {s \in SUBSET S : SumFunctionOnSet(g, s) # SumFunctionOnSet(f, s)}
<1> SUFFICES T = {}
  OBVIOUS
<1> SUFFICES ASSUME T # {} PROVE FALSE
  OBVIOUS
<1>1. PICK A \in T : \A y \in T : y \subseteq A => y = A
  <2>1. T \in SUBSET SUBSET S
    OBVIOUS
  <2> HIDE DEF T
  <2> QED BY <2>1, MinimalSubset
<1>2. A # {}
  BY SumEmpty
<1>3. Pick(A) \in A /\ Rest(A) \subseteq A /\ Rest(A) # A /\ IsFiniteSet(A)
  BY <1>2, PickIn, FS_Subset DEF Rest
<1>4. SumFunctionOnSet(g, Rest(A)) = SumFunctionOnSet(f, Rest(A))
  BY <1>1, <1>3
<1>5. /\ SumFunctionOnSet(f, A) = f[Pick(A)] + SumFunctionOnSet(f, Rest(A))
      /\ SumFunctionOnSet(g, A) = g[Pick(A)] + SumFunctionOnSet(g, Rest(A))
  BY <1>2, <1>3, SumPick
<1>6. f[Pick(A)] = g[Pick(A)]
  BY <1>3
<1> QED BY <1>4, <1>5, <1>6

\* When one value changes, the sum changes by as much.
LEMMA SumChange ==
  ASSUME NEW f, NEW g, NEW S, IsFiniteSet(S), NEW e \in S,
         \A x \in S : f[x] \in Int /\ g[x] \in Int,
         \A x \in S \ {e} : g[x] = f[x]
  PROVE  SumFunctionOnSet(g, S) = SumFunctionOnSet(f, S) + g[e] - f[e]
<1>1. IsFiniteSet(S \ {e})
  BY FS_Subset
<1>2. SumFunctionOnSet(g, S \ {e}) = SumFunctionOnSet(f, S \ {e})
  BY <1>1, SumEqual
<1>3. SumFunctionOnSet(f, S \ {e}) \in Int
  BY <1>1, SumInt
<1>4. /\ SumFunctionOnSet(f, S) = f[e] + SumFunctionOnSet(f, S \ {e})
      /\ SumFunctionOnSet(g, S) = g[e] + SumFunctionOnSet(g, S \ {e})
  BY SumRemove
<1>5. f[e] \in Int /\ g[e] \in Int
  OBVIOUS
<1> QED BY <1>2, <1>3, <1>4, <1>5

\* A sum of zeros is zero.
LEMMA SumZero ==
  ASSUME NEW f, NEW S, IsFiniteSet(S), \A x \in S : f[x] = 0
  PROVE  SumFunctionOnSet(f, S) = 0
<1> DEFINE T == {s \in SUBSET S : SumFunctionOnSet(f, s) # 0}
<1> SUFFICES T = {}
  OBVIOUS
<1> SUFFICES ASSUME T # {} PROVE FALSE
  OBVIOUS
<1>1. PICK A \in T : \A y \in T : y \subseteq A => y = A
  <2>1. T \in SUBSET SUBSET S
    OBVIOUS
  <2> HIDE DEF T
  <2> QED BY <2>1, MinimalSubset
<1>2. A # {}
  BY SumEmpty
<1>3. Pick(A) \in A /\ Rest(A) \subseteq A /\ Rest(A) # A /\ IsFiniteSet(A)
  BY <1>2, PickIn, FS_Subset DEF Rest
<1>4. SumFunctionOnSet(f, Rest(A)) = 0
  BY <1>1, <1>3
<1>5. SumFunctionOnSet(f, A) = f[Pick(A)] + SumFunctionOnSet(f, Rest(A))
  BY <1>2, <1>3, SumPick
<1> QED BY <1>3, <1>4, <1>5

-----------------------------------------------------------------------------

-----------------------------------------------------------------------------
\* The tracker.

TypeRecords == [num : Int, total : Int, dram : Int, f : Hotness]
BlockRecords(T) == [size : Sizes, type : T, isHot : BOOLEAN]

TrackerOK(s) ==
  /\ s = [types |-> s.types, blocks |-> s.blocks, agg |-> s.agg, fault |-> s.fault]
  /\ s.types \in [DOMAIN s.types -> TypeRecords] /\ DOMAIN s.types \subseteq AllHashes
  /\ s.blocks \in [DOMAIN s.blocks -> BlockRecords(DOMAIN s.types)]
  /\ DOMAIN s.blocks \subseteq Keys
  /\ s.agg \in [Hotness -> 0..SizeModulus - 1]
  /\ s.fault \in {"none", "underflow", "assert"}

\* CountersCoverBlocks of a tracker s.
Covers(s) ==
  \A h \in DOMAIN s.types :
     /\ s.types[h].num >= Cardinality(BlocksOf(s, h))
     /\ s.types[h].dram >= SizeOf(s, HotBlocksOf(s, h))
     /\ s.types[h].total - s.types[h].dram >= SizeOf(s, BlocksOf(s, h) \ HotBlocksOf(s, h))

\* The blocks that weigh at hotness f, and an exact tracker: each hotness has
\* the size of its blocks, each type that of its own.
HotnessOf(s, a) == s.types[s.blocks[a].type].f
BlocksAt(s, f) == {a \in DOMAIN s.blocks : HotnessOf(s, a) = f}
Exact(s) == /\ \A f \in Hotness : s.agg[f] = SizeOf(s, BlocksAt(s, f))
            /\ \A h \in DOMAIN s.types : s.types[h].total = SizeOf(s, BlocksOf(s, h))
            /\ s.fault = "none"

-----------------------------------------------------------------------------
\* The events, the calls and the heap.

Creates == [type : {"CREATE_ADD"}, hash : AllHashes, addr : Keys, size : Sizes,
            isHot : Tiers]
Destroys == [type : {"DESTROY_REMOVE"}, addr : Addrs]
Moves == [type : {"REALLOC"}, old : Addrs, new : Keys, size : Sizes, isHot : Tiers]
Event == Creates \cup Destroys \cup Moves

PushCalls == [op : {"push"}, addr : Keys, event : Creates \cup Moves]
FreeCalls == [op : {"free"}, addr : Addrs]
MallocCalls == [op : {"malloc"}, addr : {NULL}, len : Sizes, hot : Tiers]

Calls == {Idle} \cup PushCalls \cup FreeCalls \cup MallocCalls
Extents == [len : Nat \ {0}, hash : AllHashes, hot : Tiers]

Busy(t) == call[t] # Idle
Pushing == {t \in Threads : call[t].op = "push"}

TypesOK ==
  /\ heap \in [DOMAIN heap -> Extents]
  /\ DOMAIN heap \subseteq Addrs
  /\ call \in [Threads -> Calls]
  /\ queue \in Seq(Event)
  /\ TrackerOK(tk)
  /\ ops \in Nat /\ ops =< MaxOps
  /\ clean \in BOOLEAN

\* The blocks of the calls in progress are live and no two calls share one.
CallsOwn ==
  /\ \A t \in Threads : call[t].op \in {"push", "free"} /\ call[t].addr # NULL
                          => call[t].addr \in DOMAIN heap
  /\ \A t, u \in Threads : Busy(t) /\ Busy(u) /\ call[t].addr = call[u].addr
                             => t = u \/ call[t].addr = NULL

\* An operation registers one block at most.
OneBlockEach == Cardinality(DOMAIN tk.blocks) + Len(queue) + Cardinality(Pushing) =< ops

\* What an event does at address a, and the type it registers.
Adds(e, a) == \/ e.type = "CREATE_ADD" /\ e.addr = a
              \/ e.type = "REALLOC" /\ e.new = a
Removes(e, a) == \/ e.type = "DESTROY_REMOVE" /\ e.addr = a
                 \/ e.type = "REALLOC" /\ e.old = a
HashOf(e) == IF e.type = "CREATE_ADD" THEN e.hash ELSE UnknownHash

\* Once the queue q is applied to the blocks B, a is not registered; ...
Gone(q, B, a) ==
  /\ \A i \in 1..Len(q) : Adds(q[i], a) => \E k \in 1..Len(q) : i < k /\ Removes(q[k], a)
  /\ a \in DOMAIN B => \E k \in 1..Len(q) : Removes(q[k], a)

\* ... it is, as heap block x; ...
Here(q, B, a, x) ==
  \/ \E i \in 1..Len(q) :
        /\ Adds(q[i], a) /\ HashOf(q[i]) = x.hash /\ q[i].isHot = x.hot
        /\ \A k \in 1..Len(q) : i < k => ~Adds(q[k], a) /\ ~Removes(q[k], a)
  \/ /\ \A k \in 1..Len(q) : ~Adds(q[k], a) /\ ~Removes(q[k], a)
     /\ a \in DOMAIN B /\ B[a].type = x.hash /\ B[a].isHot = x.hot

\* ... and no event registers an address that is registered then.
Alternate(q, B) ==
  /\ \A i, j \in 1..Len(q) : \A a \in Keys :
       i < j /\ Adds(q[i], a) /\ Adds(q[j], a)
         => \E k \in 1..Len(q) : i < k /\ k =< j /\ Removes(q[k], a)
  /\ \A j \in 1..Len(q) : \A a \in DOMAIN B :
       Adds(q[j], a) => \E k \in 1..Len(q) : k =< j /\ Removes(q[k], a)

\* The event a call is about to push describes its block, and what it removes
\* has left the heap.
PushOK(t) ==
  LET e == call[t].event
      a == call[t].addr
  IN  /\ a # NULL /\ e.isHot = heap[a].hot /\ HashOf(e) = heap[a].hash
      /\ \A b \in Keys : Adds(e, b) <=> b = a
      /\ \A b \in Keys : Removes(e, b) => b = a \/ b \notin DOMAIN heap
      /\ ~Removes(e, a) => Gone(queue, tk.blocks, a)

\* An address that is not allocated leaves the tracker with an event that is
\* queued or about to be; a live block is in a call, or registered as it is.
Departs(a) == \/ \E t \in Pushing : Removes(call[t].event, a)
              \/ Gone(queue, tk.blocks, a)
Arrives(a) == \/ \E t \in Threads : Busy(t) /\ call[t].addr = a
              \/ Here(queue, tk.blocks, a, heap[a])

Ordered ==
  /\ \A t \in Threads : call[t].op # "malloc"
  /\ \A t \in Threads : call[t].op = "push" => PushOK(t)
  /\ \A t \in Threads : call[t].op = "free" => Gone(queue, tk.blocks, call[t].addr)
  /\ \A a \in Keys \ DOMAIN heap : Departs(a)
  /\ \A a \in DOMAIN heap : Arrives(a)
  /\ Alternate(queue, tk.blocks)

Inv == TypesOK /\ Covers(tk) /\ CallsOwn /\ OneBlockEach /\ (clean => Ordered /\ Exact(tk))

-----------------------------------------------------------------------------
\* Facts about the operators of Tachanka.

\* A nonempty set of numbers has a least one, ...
LEMMA Least ==
  ASSUME NEW S, S \subseteq Nat, S # {}
  PROVE  Min(S) \in S /\ \A y \in S : Min(S) =< y
<1>1. IsWellFoundedOn(OpToRel(<, Nat), Nat)
  BY NatLessThanWellFounded
<1>2. PICK x \in S : \A y \in S : ~(<<y, x>> \in OpToRel(<, Nat))
  BY <1>1, WFMin
<1>3. \A y \in S : ~(y < x)
  BY <1>2 DEF OpToRel
<1>4. \A y \in S : x =< y
  BY <1>3
<1> QED BY <1>4 DEF Min

\* ... and when it is bounded a greatest one.
LEMMA Greatest ==
  ASSUME NEW S, S \subseteq Nat, S # {}, NEW n \in Nat, \A x \in S : x =< n
  PROVE  Max(S) \in S /\ \A y \in S : y =< Max(S)
<1> DEFINE T == {n - x : x \in S}
<1>1. Min(T) \in T /\ \A y \in T : Min(T) =< y
  <2>1. T \subseteq Nat /\ T # {}
    <3>1. \A x \in S : n - x \in Nat
      OBVIOUS
    <3> QED BY <3>1
  <2> HIDE DEF T
  <2> QED BY <2>1, Least
<1>2. PICK x \in S : Min(T) = n - x
  BY <1>1
<1>3. \A y \in S : x >= y
  <2> TAKE y \in S
  <2>1. Min(T) =< n - y
    BY <1>1
  <2>2. x \in Nat /\ y \in Nat /\ n - x =< n - y
    BY <1>2, <2>1
  <2> QED BY <2>2
<1>4. \E z \in S : \A y \in S : z >= y
  BY <1>3
<1>5. Max(S) \in S /\ \A y \in S : Max(S) >= y
  BY <1>4 DEF Max
<1> QED BY <1>5

\* The smaller of two numbers.
LEMMA MinOfTwo ==
  ASSUME NEW m \in Int, NEW n \in Int
  PROVE  Min({m, n}) = IF m =< n THEN m ELSE n
<1>1. CASE m =< n
  <2>1. \E x \in {m, n} : \A y \in {m, n} : x =< y
    BY <1>1
  <2>2. Min({m, n}) \in {m, n} /\ \A y \in {m, n} : Min({m, n}) =< y
    BY <2>1 DEF Min
  <2> QED BY <1>1, <2>2
<1>2. CASE ~(m =< n)
  <2>1. n =< n /\ n =< m
    BY <1>2
  <2>2. \E x \in {m, n} : \A y \in {m, n} : x =< y
    BY <2>1
  <2>3. Min({m, n}) \in {m, n} /\ \A y \in {m, n} : Min({m, n}) =< y
    BY <2>2 DEF Min
  <2> QED BY <1>2, <2>3
<1> QED BY <1>1, <1>2

\* Sizes are counts of bytes, the largest one times the calls is a size_t.
LEMMA Constants ==
  /\ Sizes \subseteq Nat \ {0} /\ Addrs \subseteq Keys /\ NULL \in Keys /\ NULL \notin Addrs
  /\ Keys = 0..MaxAddr /\ MaxAddr \in Nat /\ IsFiniteSet(Keys) /\ SizeModulus \in Nat /\ SizeModulus > 0
  /\ UnknownHash \in AllHashes /\ Hashes \subseteq AllHashes
  /\ IsFiniteSet(Hotness) /\ InitialHotness \in Hotness
<1>1. MaxAddr \in Nat /\ MaxAddr # 0
  BY HeapAssumption
<1>2. Keys = 0..MaxAddr
  BY <1>1 DEF Keys, Addrs, NULL
<1>3. IsFiniteSet(Keys)
  BY <1>1, <1>2, FS_Interval
<1> QED BY <1>1, <1>2, <1>3, HeapAssumption, ModulusAssumption, HotnessAssumption
     DEF Keys, Addrs, NULL, AllHashes

\* Every size requested is positive.
LEMMA SizesPositive == \A z \in Sizes : z \in Nat /\ z \in Int /\ z > 0
BY HeapAssumption

\* The number of blocks, and sums over them.
LEMMA Finite ==
  ASSUME NEW s, TrackerOK(s), NEW B, B \subseteq DOMAIN s.blocks
  PROVE  /\ IsFiniteSet(B) /\ Cardinality(B) \in Nat
         /\ \A a \in B : BlockSizes(s)[a] = s.blocks[a].size /\ s.blocks[a].size \in Sizes
         /\ SizeOf(s, B) \in Int
<1>1. IsFiniteSet(B)
  BY Constants, FS_Subset DEF TrackerOK
<1>2. \A a \in B : BlockSizes(s)[a] = s.blocks[a].size /\ s.blocks[a].size \in Sizes
  BY DEF BlockSizes, TrackerOK, BlockRecords
<1>3. \A a \in B : BlockSizes(s)[a] \in Int
  BY <1>2, SizesPositive
<1> QED BY <1>1, <1>2, <1>3, SumInt, FS_CardinalityType DEF SizeOf

\* Blocks that stay as they are weigh what they did.
LEMMA SizeKept ==
  ASSUME NEW s, TrackerOK(s), NEW r, TrackerOK(r),
         NEW B, B \subseteq DOMAIN s.blocks, B \subseteq DOMAIN r.blocks,
         \A a \in B : r.blocks[a] = s.blocks[a]
  PROVE  SizeOf(r, B) = SizeOf(s, B)
<1>1. \A a \in B : BlockSizes(s)[a] = s.blocks[a].size /\ s.blocks[a].size \in Sizes
  BY Finite
<1>2. \A a \in B : BlockSizes(r)[a] = r.blocks[a].size
  BY Finite
<1>3. \A a \in B : BlockSizes(s)[a] \in Int /\ BlockSizes(r)[a] = BlockSizes(s)[a]
  BY <1>1, <1>2, SizesPositive
<1> QED BY <1>3, Finite, SumEqual DEF SizeOf

\* One block of a set.
LEMMA SizeOne ==
  ASSUME NEW s, TrackerOK(s), NEW B, B \subseteq DOMAIN s.blocks, NEW a \in B
  PROVE  SizeOf(s, B) = s.blocks[a].size + SizeOf(s, B \ {a})
<1>1. \A x \in B : BlockSizes(s)[x] \in Int
  BY Finite, SizesPositive
<1> QED BY <1>1, Finite, SumRemove DEF SizeOf

\* A sum of sizes is no less than 0 and no more than as many times a bound.
LEMMA SizeBound ==
  ASSUME NEW s, TrackerOK(s), NEW S, S \subseteq DOMAIN s.blocks,
         NEW c \in Nat, \A z \in Sizes : z =< c
  PROVE  SizeOf(s, S) >= 0 /\ SizeOf(s, S) =< Cardinality(S) * c
<1> DEFINE T == {B \in SUBSET S : ~(SizeOf(s, B) >= 0 /\ SizeOf(s, B) =< Cardinality(B) * c)}
<1> SUFFICES T = {}
  OBVIOUS
<1> SUFFICES ASSUME T # {} PROVE FALSE
  OBVIOUS
<1>1. PICK A \in T : \A y \in T : y \subseteq A => y = A
  <2>1. T \in SUBSET SUBSET S /\ IsFiniteSet(S)
    BY Finite
  <2> HIDE DEF T
  <2> QED BY <2>1, MinimalSubset
<1>2. A # {}
  <2>1. SizeOf(s, {}) = 0 /\ Cardinality({}) = 0
    BY SumEmpty, FS_EmptySet DEF SizeOf
  <2>2. 0 * c = 0
    OBVIOUS
  <2> QED BY <2>1, <2>2
<1>3. PICK a : a \in A
  BY <1>2
<1>4. A \ {a} \notin T
  BY <1>1, <1>3
<1> DEFINE R == A \ {a}
<1>5. SizeOf(s, R) >= 0 /\ SizeOf(s, R) =< Cardinality(R) * c
  BY <1>4
<1>6. SizeOf(s, A) = s.blocks[a].size + SizeOf(s, R)
  BY <1>3, SizeOne
<1>7. IsFiniteSet(A) /\ Cardinality(R) = Cardinality(A) - 1 /\ Cardinality(A) \in Nat
      /\ Cardinality(R) \in Nat
  BY <1>3, Finite, FS_RemoveElement
<1>8. s.blocks[a].size \in Nat /\ s.blocks[a].size =< c /\ SizeOf(s, R) \in Int
  BY <1>3, Finite, SizesPositive
<1>9. ASSUME NEW m \in Nat, NEW n \in Nat, m = n - 1, NEW x \in Int, NEW y \in Nat,
             x >= 0, x =< m * c, y =< c
      PROVE  y + x >= 0 /\ y + x =< n * c
  <2>1. n = m + 1
    BY <1>9
  <2>2. (m + 1) * c = m * c + c /\ m * c \in Int
    OBVIOUS
  <2>3. y + x =< m * c + c
    BY <1>9, <2>2
  <2> QED BY <1>9, <2>1, <2>2, <2>3
<1>10. SizeOf(s, A) >= 0 /\ SizeOf(s, A) =< Cardinality(A) * c
  BY <1>5, <1>6, <1>7, <1>8, <1>9
<1> QED BY <1>10

\* Tracker r has one block more than tracker s, at address a.
OneMore(s, r, a) ==
  /\ a \notin DOMAIN s.blocks /\ DOMAIN r.blocks = DOMAIN s.blocks \cup {a}
  /\ \A x \in DOMAIN s.blocks : r.blocks[x] = s.blocks[x]

\* The other blocks weigh what they did ...
LEMMA SizeSame ==
  ASSUME NEW s, TrackerOK(s), NEW r, TrackerOK(r), NEW a, OneMore(s, r, a),
         NEW B, B \subseteq DOMAIN s.blocks
  PROVE  SizeOf(r, B) = SizeOf(s, B)
<1>1. B \subseteq DOMAIN r.blocks
  BY DEF OneMore
<1> QED BY <1>1, SizeKept DEF OneMore

\* ... and with the new one more by its size.
LEMMA SizeMore ==
  ASSUME NEW s, TrackerOK(s), NEW r, TrackerOK(r), NEW a, OneMore(s, r, a),
         NEW B, B \subseteq DOMAIN s.blocks
  PROVE  SizeOf(r, B \cup {a}) = SizeOf(s, B) + r.blocks[a].size
<1>1. B \subseteq DOMAIN r.blocks /\ B \cup {a} \subseteq DOMAIN r.blocks /\ a \notin B
  BY DEF OneMore
<1>2. SizeOf(r, B) = SizeOf(s, B)
  BY SizeSame
<1>3. SizeOf(r, B \cup {a}) = r.blocks[a].size + SizeOf(r, (B \cup {a}) \ {a})
  BY <1>1, SizeOne
<1>4. (B \cup {a}) \ {a} = B
  BY <1>1
<1>5. SizeOf(s, B) \in Int /\ r.blocks[a].size \in Sizes
  BY <1>1, Finite
<1>6. r.blocks[a].size \in Int
  BY <1>5, SizesPositive
<1>7. SizeOf(r, B \cup {a}) = r.blocks[a].size + SizeOf(s, B)
  BY <1>2, <1>3, <1>4
<1>8. r.blocks[a].size + SizeOf(s, B) = SizeOf(s, B) + r.blocks[a].size
  BY <1>5, <1>6
<1> QED BY <1>2, <1>7, <1>8

\* The counters t of type h cover its blocks.
CoversType(s, h, t) ==
  /\ t.num >= Cardinality(BlocksOf(s, h))
  /\ t.dram >= SizeOf(s, HotBlocksOf(s, h))
  /\ t.total - t.dram >= SizeOf(s, BlocksOf(s, h) \ HotBlocksOf(s, h))

\* A block more changes nothing for the types it does not have.
LEMMA OtherTypes ==
  ASSUME NEW s, TrackerOK(s), NEW r, TrackerOK(r), NEW a, OneMore(s, r, a),
         NEW h, h # r.blocks[a].type, NEW t
  PROVE  CoversType(r, h, t) <=> CoversType(s, h, t)
<1>1. BlocksOf(r, h) = BlocksOf(s, h) /\ HotBlocksOf(r, h) = HotBlocksOf(s, h)
  BY DEF BlocksOf, HotBlocksOf, OneMore
<1>2. BlocksOf(s, h) \subseteq DOMAIN s.blocks /\ HotBlocksOf(s, h) \subseteq DOMAIN s.blocks
      /\ BlocksOf(s, h) \ HotBlocksOf(s, h) \subseteq DOMAIN s.blocks
  BY DEF BlocksOf, HotBlocksOf
<1>3. SizeOf(r, HotBlocksOf(s, h)) = SizeOf(s, HotBlocksOf(s, h))
  BY <1>2, SizeSame
<1>4. SizeOf(r, BlocksOf(s, h) \ HotBlocksOf(s, h))
        = SizeOf(s, BlocksOf(s, h) \ HotBlocksOf(s, h))
  BY <1>2, SizeSame
<1> QED BY <1>1, <1>3, <1>4 DEF CoversType

\* How much more the type of the block has.
LEMMA TypeMore ==
  ASSUME NEW s, TrackerOK(s), NEW r, TrackerOK(r), NEW a, OneMore(s, r, a),
         NEW h, h = r.blocks[a].type, NEW z, z = r.blocks[a].size
  PROVE  /\ Cardinality(BlocksOf(r, h)) = Cardinality(BlocksOf(s, h)) + 1
         /\ SizeOf(r, BlocksOf(r, h)) = SizeOf(s, BlocksOf(s, h)) + z
         /\ SizeOf(r, HotBlocksOf(r, h))
              = SizeOf(s, HotBlocksOf(s, h)) + (IF r.blocks[a].isHot THEN z ELSE 0)
         /\ SizeOf(r, BlocksOf(r, h) \ HotBlocksOf(r, h))
              = SizeOf(s, BlocksOf(s, h) \ HotBlocksOf(s, h))
                  + (IF r.blocks[a].isHot THEN 0 ELSE z)
<1>1. BlocksOf(s, h) \subseteq DOMAIN s.blocks /\ HotBlocksOf(s, h) \subseteq DOMAIN s.blocks
      /\ BlocksOf(s, h) \ HotBlocksOf(s, h) \subseteq DOMAIN s.blocks
  BY DEF BlocksOf, HotBlocksOf
<1>2. BlocksOf(r, h) = BlocksOf(s, h) \cup {a} /\ a \notin BlocksOf(s, h)
  BY DEF BlocksOf, OneMore
<1>3. Cardinality(BlocksOf(r, h)) = Cardinality(BlocksOf(s, h)) + 1
  BY <1>1, <1>2, Finite, FS_AddElement
<1>4. SizeOf(r, BlocksOf(r, h)) = SizeOf(s, BlocksOf(s, h)) + z
  BY <1>1, <1>2, SizeMore
<1>5. /\ SizeOf(s, HotBlocksOf(s, h)) \in Int
      /\ SizeOf(s, BlocksOf(s, h) \ HotBlocksOf(s, h)) \in Int
  BY <1>1, Finite
<1>6. CASE r.blocks[a].isHot
  <2>1. /\ HotBlocksOf(r, h) = HotBlocksOf(s, h) \cup {a}
        /\ BlocksOf(r, h) \ HotBlocksOf(r, h) = BlocksOf(s, h) \ HotBlocksOf(s, h)
    BY <1>6 DEF BlocksOf, HotBlocksOf, OneMore
  <2>2. SizeOf(r, HotBlocksOf(r, h)) = SizeOf(s, HotBlocksOf(s, h)) + z
    BY <1>1, <2>1, SizeMore
  <2>3. SizeOf(r, BlocksOf(r, h) \ HotBlocksOf(r, h))
          = SizeOf(s, BlocksOf(s, h) \ HotBlocksOf(s, h))
    BY <1>1, <2>1, SizeSame
  <2> QED BY <1>3, <1>4, <1>5, <1>6, <2>2, <2>3
<1>7. CASE ~r.blocks[a].isHot
  <2>1. /\ HotBlocksOf(r, h) = HotBlocksOf(s, h)
        /\ BlocksOf(r, h) \ HotBlocksOf(r, h) = (BlocksOf(s, h) \ HotBlocksOf(s, h)) \cup {a}
    BY <1>7 DEF BlocksOf, HotBlocksOf, OneMore
  <2>2. SizeOf(r, HotBlocksOf(r, h)) = SizeOf(s, HotBlocksOf(s, h))
    BY <1>1, <2>1, SizeSame
  <2>3. SizeOf(r, BlocksOf(r, h) \ HotBlocksOf(r, h))
          = SizeOf(s, BlocksOf(s, h) \ HotBlocksOf(s, h)) + z
    BY <1>1, <2>1, SizeMore
  <2> QED BY <1>3, <1>4, <1>5, <1>7, <2>2, <2>3
<1> QED BY <1>6, <1>7

\* The ADDs of register_block and the SUBs of unregister_block keep the
\* counters over the blocks.
LEMMA CoverMore ==
  ASSUME NEW s, TrackerOK(s), NEW r, TrackerOK(r), NEW a, OneMore(s, r, a),
         NEW h, h = r.blocks[a].type, NEW t \in TypeRecords
  PROVE  /\ CoversType(s, h, t) => CoversType(r, h, Counted(t, r.blocks[a]))
         /\ CoversType(r, h, t) => CoversType(s, h, Uncounted(t, r.blocks[a]))
<1>1. PICK z : z = r.blocks[a].size
  OBVIOUS
<1>2. a \in DOMAIN r.blocks
  BY DEF OneMore
<1>3. z \in Int /\ z > 0
  BY <1>1, <1>2, SizesPositive DEF TrackerOK, BlockRecords
<1>4. /\ Cardinality(BlocksOf(s, h)) \in Int /\ SizeOf(s, HotBlocksOf(s, h)) \in Int
      /\ SizeOf(s, BlocksOf(s, h) \ HotBlocksOf(s, h)) \in Int
  <2>1. BlocksOf(s, h) \subseteq DOMAIN s.blocks /\ HotBlocksOf(s, h) \subseteq DOMAIN s.blocks
        /\ BlocksOf(s, h) \ HotBlocksOf(s, h) \subseteq DOMAIN s.blocks
    BY DEF BlocksOf, HotBlocksOf
  <2> QED BY <2>1, Finite
<1>5. t.num \in Int /\ t.total \in Int /\ t.dram \in Int
  BY DEF TypeRecords
<1>6. CASE r.blocks[a].isHot
  <2>1. /\ Counted(t, r.blocks[a]).num = t.num + 1
        /\ Counted(t, r.blocks[a]).total = t.total + z
        /\ Counted(t, r.blocks[a]).dram = t.dram + z
        /\ Uncounted(t, r.blocks[a]).num = t.num - 1
        /\ Uncounted(t, r.blocks[a]).total = t.total - z
        /\ Uncounted(t, r.blocks[a]).dram = t.dram - z
    BY <1>1, <1>6 DEF Counted, Uncounted
  <2>2. /\ Cardinality(BlocksOf(r, h)) = Cardinality(BlocksOf(s, h)) + 1
        /\ SizeOf(r, HotBlocksOf(r, h)) = SizeOf(s, HotBlocksOf(s, h)) + z
        /\ SizeOf(r, BlocksOf(r, h) \ HotBlocksOf(r, h))
             = SizeOf(s, BlocksOf(s, h) \ HotBlocksOf(s, h)) + 0
    BY <1>1, <1>6, TypeMore
  <2> QED BY <1>3, <1>4, <1>5, <2>1, <2>2 DEF CoversType
<1>7. CASE ~r.blocks[a].isHot
  <2>1. /\ Counted(t, r.blocks[a]).num = t.num + 1
        /\ Counted(t, r.blocks[a]).total = t.total + z
        /\ Counted(t, r.blocks[a]).dram = t.dram
        /\ Uncounted(t, r.blocks[a]).num = t.num - 1
        /\ Uncounted(t, r.blocks[a]).total = t.total - z
        /\ Uncounted(t, r.blocks[a]).dram = t.dram
    BY <1>1, <1>7 DEF Counted, Uncounted
  <2>2. /\ Cardinality(BlocksOf(r, h)) = Cardinality(BlocksOf(s, h)) + 1
        /\ SizeOf(r, HotBlocksOf(r, h)) = SizeOf(s, HotBlocksOf(s, h)) + 0
        /\ SizeOf(r, BlocksOf(r, h) \ HotBlocksOf(r, h))
             = SizeOf(s, BlocksOf(s, h) \ HotBlocksOf(s, h)) + z
    BY <1>1, <1>7, TypeMore
  <2> QED BY <1>3, <1>4, <1>5, <2>1, <2>2 DEF CoversType
<1> QED BY <1>6, <1>7

\* A type's record is still one after the increments or the SUBs.
LEMMA CounterTypes ==
  ASSUME NEW t \in TypeRecords, NEW T, NEW bl \in BlockRecords(T)
  PROVE  /\ Counted(t, bl) \in TypeRecords /\ Counted(t, bl).f = t.f
         /\ Uncounted(t, bl) \in TypeRecords /\ Uncounted(t, bl).f = t.f
<1>1. PICK z : z = bl.size
  OBVIOUS
<1>2. z \in Int
  BY <1>1, SizesPositive DEF BlockRecords
<1>3. t.num \in Int /\ t.total \in Int /\ t.dram \in Int /\ t.f \in Hotness
  BY DEF TypeRecords
<1>4. PICK d : d = IF bl.isHot THEN t.dram + z ELSE t.dram
  OBVIOUS
<1>5. PICK e : e = IF bl.isHot THEN t.dram - z ELSE t.dram
  OBVIOUS
<1>6. d \in Int /\ e \in Int /\ t.total + z \in Int /\ t.total - z \in Int
      /\ t.num + 1 \in Int /\ t.num - 1 \in Int
  BY <1>2, <1>3, <1>4, <1>5
<1>7. /\ Counted(t, bl) = [num |-> t.num + 1, total |-> t.total + z, dram |-> d, f |-> t.f]
      /\ Uncounted(t, bl) = [num |-> t.num - 1, total |-> t.total - z, dram |-> e, f |-> t.f]
  BY <1>1, <1>4, <1>5 DEF Counted, Uncounted
<1> QED BY <1>3, <1>6, <1>7 DEF TypeRecords

\* The counters register_block starts from cover the blocks of the type.
LEMMA OldType ==
  ASSUME NEW s, TrackerOK(s), NEW h
  PROVE  TypeOf(s, h) \in TypeRecords /\ (Covers(s) => CoversType(s, h, TypeOf(s, h)))
<1>1. CASE h \in DOMAIN s.types
  BY <1>1 DEF TypeOf, TrackerOK, Covers, CoversType
<1>2. CASE h \notin DOMAIN s.types
  <2>1. TypeOf(s, h) = NewType
    BY <1>2 DEF TypeOf
  <2>2. NewType \in TypeRecords
    BY HotnessAssumption DEF NewType, TypeRecords
  <2>3. BlocksOf(s, h) = {} /\ HotBlocksOf(s, h) = {}
    BY <1>2 DEF BlocksOf, HotBlocksOf, TrackerOK, BlockRecords
  <2>4. SizeOf(s, {}) = 0 /\ Cardinality({}) = 0
    BY SumEmpty, FS_EmptySet DEF SizeOf
  <2>5. {} \ {} = {}
    OBVIOUS
  <2>6. NewType.num = 0 /\ NewType.total = 0 /\ NewType.dram = 0
    BY DEF NewType
  <2>7. CoversType(s, h, NewType)
    BY <2>3, <2>4, <2>5, <2>6 DEF CoversType
  <2> QED BY <2>1, <2>2, <2>7
<1> QED BY <1>1, <1>2

\* register_block.
LEMMA RegisterEffect ==
  ASSUME NEW s, TrackerOK(s), NEW hash \in AllHashes, NEW addr \in Keys,
         NEW size \in Sizes, NEW isHot \in BOOLEAN,
         NEW r, r = RegisterBlock(s, hash, addr, size, isHot)
  PROVE  /\ TrackerOK(r) /\ r.agg = s.agg /\ r.fault = s.fault
         /\ DOMAIN r.types = DOMAIN s.types \cup {hash}
         /\ DOMAIN r.blocks = DOMAIN s.blocks \cup {addr}
         /\ \A h \in DOMAIN s.types : h # hash => r.types[h] = s.types[h]
         /\ r.types[hash] = Counted(TypeOf(s, hash), Block(hash, size, isHot))
         /\ r.types[hash].f = TypeOf(s, hash).f
         /\ \A a \in DOMAIN s.blocks : r.blocks[a] = s.blocks[a]
         /\ addr \notin DOMAIN s.blocks => r.blocks[addr] = Block(hash, size, isHot)
<1>1. PICK bl : bl = Block(hash, size, isHot)
  OBVIOUS
<1>2. PICK t : t = Counted(TypeOf(s, hash), bl)
  OBVIOUS
<1>3. r = [s EXCEPT !.types = Put(s.types, hash, t),
                    !.blocks = IF addr \in DOMAIN s.blocks THEN s.blocks
                               ELSE Put(s.blocks, addr, bl)]
  BY <1>1, <1>2 DEF RegisterBlock
<1>4. /\ r.types = Put(s.types, hash, t)
      /\ r.blocks = IF addr \in DOMAIN s.blocks THEN s.blocks ELSE Put(s.blocks, addr, bl)
      /\ r.agg = s.agg /\ r.fault = s.fault
      /\ r = [types |-> r.types, blocks |-> r.blocks, agg |-> r.agg, fault |-> r.fault]
  BY <1>3 DEF TrackerOK
<1>5. bl \in BlockRecords(DOMAIN s.types \cup {hash})
  BY <1>1 DEF Block, BlockRecords
<1>6. t \in TypeRecords /\ t.f = TypeOf(s, hash).f
  BY <1>2, <1>5, OldType, CounterTypes
<1>7. /\ DOMAIN r.types = DOMAIN s.types \cup {hash} /\ r.types[hash] = t
      /\ \A h \in DOMAIN s.types : h # hash => r.types[h] = s.types[h]
      /\ r.types \in [DOMAIN r.types -> TypeRecords]
  BY <1>4, <1>6 DEF Put, TrackerOK
<1>8. /\ DOMAIN r.blocks = DOMAIN s.blocks \cup {addr}
      /\ \A a \in DOMAIN s.blocks : r.blocks[a] = s.blocks[a]
      /\ addr \notin DOMAIN s.blocks => r.blocks[addr] = bl
      /\ r.blocks = [a \in DOMAIN r.blocks |-> r.blocks[a]]
  BY <1>4 DEF Put, TrackerOK
<1>9. \A a \in DOMAIN s.blocks : s.blocks[a] \in BlockRecords(DOMAIN r.types)
  BY <1>7 DEF TrackerOK, BlockRecords
<1>10. r.blocks \in [DOMAIN r.blocks -> BlockRecords(DOMAIN r.types)]
  BY <1>5, <1>7, <1>8, <1>9
<1>11. TrackerOK(r)
  BY <1>4, <1>7, <1>8, <1>10 DEF TrackerOK
<1> QED BY <1>1, <1>2, <1>4, <1>6, <1>7, <1>8, <1>11

\* register_block keeps the counters covering, also when the block is refused.
LEMMA RegisterCovers ==
  ASSUME NEW s, TrackerOK(s), Covers(s), NEW hash \in AllHashes, NEW addr \in Keys,
         NEW size \in Sizes, NEW isHot \in BOOLEAN,
         NEW r, r = RegisterBlock(s, hash, addr, size, isHot)
  PROVE  Covers(r)
<1>1. PICK bl : bl = Block(hash, size, isHot)
  OBVIOUS
<1>2. PICK old : old = TypeOf(s, hash)
  OBVIOUS
<1>3. /\ TrackerOK(r) /\ DOMAIN r.types = DOMAIN s.types \cup {hash}
      /\ DOMAIN r.blocks = DOMAIN s.blocks \cup {addr}
      /\ \A h \in DOMAIN s.types : h # hash => r.types[h] = s.types[h]
      /\ r.types[hash] = Counted(old, bl)
      /\ \A a \in DOMAIN s.blocks : r.blocks[a] = s.blocks[a]
      /\ addr \notin DOMAIN s.blocks => r.blocks[addr] = bl
  BY <1>1, <1>2, RegisterEffect
<1>4. old \in TypeRecords /\ CoversType(s, hash, old)
  BY <1>2, OldType
<1>5. \A h \in DOMAIN s.types : CoversType(s, h, s.types[h])
  BY DEF Covers, CoversType
<1>6. SUFFICES ASSUME NEW h \in DOMAIN r.types PROVE CoversType(r, h, r.types[h])
  BY DEF Covers, CoversType
<1>7. CASE addr \in DOMAIN s.blocks
  <2>1. r.blocks = s.blocks
    BY <1>3, <1>7 DEF TrackerOK
  <2>2. \A t : CoversType(r, h, t) <=> CoversType(s, h, t)
    BY <2>1 DEF CoversType, SizeOf, BlockSizes, BlocksOf, HotBlocksOf
  <2>3. CASE h # hash
    BY <1>3, <1>5, <2>2, <2>3
  <2>4. CASE h = hash
    <3>1. CoversType(r, hash, old)
      BY <1>4, <2>2, <2>4
    <3>2. PICK z : z = bl.size
      OBVIOUS
    <3>3. z \in Int /\ z > 0 /\ old.num \in Int /\ old.total \in Int /\ old.dram \in Int
      BY <1>1, <1>4, <3>2, SizesPositive DEF Block, TypeRecords
    <3>4. /\ Counted(old, bl).num = old.num + 1 /\ Counted(old, bl).total = old.total + z
          /\ Counted(old, bl).dram = IF bl.isHot THEN old.dram + z ELSE old.dram
      BY <3>2 DEF Counted
    <3>5. /\ Cardinality(BlocksOf(r, hash)) \in Int /\ SizeOf(r, HotBlocksOf(r, hash)) \in Int
          /\ SizeOf(r, BlocksOf(r, hash) \ HotBlocksOf(r, hash)) \in Int
      <4>1. BlocksOf(r, hash) \subseteq DOMAIN r.blocks /\ HotBlocksOf(r, hash) \subseteq DOMAIN r.blocks
            /\ BlocksOf(r, hash) \ HotBlocksOf(r, hash) \subseteq DOMAIN r.blocks
        BY DEF BlocksOf, HotBlocksOf
      <4> QED BY <1>3, <4>1, Finite
    <3>6. CoversType(r, hash, Counted(old, bl))
      BY <3>1, <3>3, <3>4, <3>5 DEF CoversType
    <3> QED BY <1>3, <2>4, <3>6
  <2> QED BY <2>3, <2>4
<1>8. CASE addr \notin DOMAIN s.blocks
  <2>1. OneMore(s, r, addr) /\ r.blocks[addr] = bl /\ bl.type = hash
    BY <1>1, <1>3, <1>8 DEF OneMore, Block
  <2>2. CASE h # hash
    BY <1>3, <1>5, <2>1, <2>2, OtherTypes
  <2>3. CASE h = hash
    BY <1>3, <1>4, <2>1, <2>3, CoverMore
  <2> QED BY <2>2, <2>3
<1> QED BY <1>7, <1>8

\* A remainder is a size_t.
LEMMA Remainder ==
  ASSUME NEW x \in Int
  PROVE  x % SizeModulus \in 0..SizeModulus - 1
BY ModulusAssumption

\* critnib_find_le finds a block, the one at the address when there is one.
LEMMA FindLe ==
  ASSUME NEW s, TrackerOK(s), NEW addr \in Keys, KeysLe(s, addr) # {}
  PROVE  /\ Max(KeysLe(s, addr)) \in DOMAIN s.blocks
         /\ addr \in DOMAIN s.blocks => Max(KeysLe(s, addr)) = addr
<1>1. Keys \subseteq Nat /\ \A a \in Keys : a =< MaxAddr
  BY Constants
<1>2. KeysLe(s, addr) \subseteq Nat /\ \A a \in KeysLe(s, addr) : a =< addr /\ addr \in Nat
      /\ KeysLe(s, addr) \subseteq DOMAIN s.blocks
  BY <1>1 DEF KeysLe, TrackerOK
<1>3. Max(KeysLe(s, addr)) \in KeysLe(s, addr)
      /\ \A y \in KeysLe(s, addr) : y =< Max(KeysLe(s, addr))
  BY <1>1, <1>2, Greatest
<1>4. ASSUME addr \in DOMAIN s.blocks PROVE Max(KeysLe(s, addr)) = addr
  <2>1. addr \in KeysLe(s, addr)
    BY <1>1, <1>4 DEF KeysLe
  <2>2. PICK m : m = Max(KeysLe(s, addr))
    OBVIOUS
  <2>3. addr =< m /\ m =< addr /\ m \in Nat /\ addr \in Nat
    BY <1>2, <1>3, <2>1, <2>2
  <2> QED BY <2>2, <2>3
<1> QED BY <1>2, <1>3, <1>4

\* The hotness of a block.
LEMMA BlockHotness ==
  ASSUME NEW s, TrackerOK(s), NEW a \in DOMAIN s.blocks
  PROVE  /\ s.blocks[a].type \in DOMAIN s.types
         /\ s.types[s.blocks[a].type] \in TypeRecords
         /\ s.types[s.blocks[a].type].f \in Hotness
BY DEF TrackerOK, BlockRecords, TypeRecords

\* register_block_in_ranking.
Heavier(s, f, size) == (s.agg[f] + size) % SizeModulus
AddedTo(s, r, f, size) == r.agg = [s.agg EXCEPT ![f] = Heavier(s, f, size)]
LEMMA RankEffect ==
  ASSUME NEW s, TrackerOK(s), NEW addr \in Keys, NEW size \in Sizes,
         NEW r, r = RegisterBlockInRanking(s, addr, size)
  PROVE  /\ TrackerOK(r) /\ r.types = s.types /\ r.blocks = s.blocks /\ r.fault = s.fault
         /\ addr \in DOMAIN s.blocks => AddedTo(s, r, HotnessOf(s, addr), size)
<1>1. CASE KeysLe(s, addr) = {}
  <2>1. r = s
    BY <1>1 DEF RegisterBlockInRanking
  <2>2. addr =< addr
    BY Constants
  <2>3. addr \notin DOMAIN s.blocks
    BY <1>1, <2>2 DEF KeysLe
  <2> QED BY <2>1, <2>3
<1>2. CASE KeysLe(s, addr) # {}
  <2>1. PICK m, f : m = Max(KeysLe(s, addr)) /\ f = HotnessOf(s, m)
    OBVIOUS
  <2>2. m \in DOMAIN s.blocks /\ (addr \in DOMAIN s.blocks => m = addr)
    BY <1>2, <2>1, FindLe
  <2>3. f \in Hotness
    BY <2>1, <2>2, BlockHotness DEF HotnessOf
  <2>4. r = [s EXCEPT !.agg[f] = (s.agg[f] + size) % SizeModulus]
    BY <1>2, <2>1 DEF RegisterBlockInRanking, RankingAdd, HotnessOf
  <2>5. s.agg[f] \in Int /\ size \in Int
    BY <2>3, SizesPositive DEF TrackerOK
  <2>6. PICK v : v = (s.agg[f] + size) % SizeModulus /\ v = Heavier(s, f, size)
    BY DEF Heavier
  <2>7. v \in 0..SizeModulus - 1
    BY <2>5, <2>6, Remainder
  <2>8. /\ r.agg = [s.agg EXCEPT ![f] = v] /\ r.types = s.types /\ r.blocks = s.blocks
        /\ r.fault = s.fault
        /\ r = [types |-> r.types, blocks |-> r.blocks, agg |-> r.agg, fault |-> r.fault]
    BY <2>4, <2>6 DEF TrackerOK
  <2>9. r.agg \in [Hotness -> 0..SizeModulus - 1]
    BY <2>3, <2>7, <2>8 DEF TrackerOK
  <2>10. TrackerOK(r)
    BY <2>8, <2>9 DEF TrackerOK
  <2>11. AddedTo(s, r, f, size)
    BY <2>6, <2>8 DEF AddedTo
  <2> QED BY <2>1, <2>2, <2>8, <2>10, <2>11
<1> QED BY <1>1, <1>2

\* Whether the counters cover the blocks depends on the blocks and on the
\* counters only.
LEMMA CoversKept ==
  ASSUME NEW s, Covers(s), NEW r, r.blocks = s.blocks, DOMAIN r.types = DOMAIN s.types,
         \A h \in DOMAIN s.types : /\ r.types[h].num = s.types[h].num
                                   /\ r.types[h].total = s.types[h].total
                                   /\ r.types[h].dram = s.types[h].dram
  PROVE  Covers(r)
<1>1. \A B : SizeOf(r, B) = SizeOf(s, B)
  BY DEF SizeOf, BlockSizes
<1>2. \A h : BlocksOf(r, h) = BlocksOf(s, h) /\ HotBlocksOf(r, h) = HotBlocksOf(s, h)
  BY DEF BlocksOf, HotBlocksOf
<1> QED BY <1>1, <1>2 DEF Covers

\* unregister_block takes block bl of type h away from address addr.
Unregistered(s, r, addr, bl, h) ==
  /\ TrackerOK(r) /\ OneMore(r, s, addr) /\ DOMAIN r.types = DOMAIN s.types
  /\ \A x \in DOMAIN s.types : x # h => r.types[x] = s.types[x]
  /\ r.types[h] = Uncounted(s.types[h], bl)
  /\ \A x \in DOMAIN s.types : r.types[x].f = s.types[x].f
Lighter(s, f, bl) == (s.agg[f] - bl.size) % SizeModulus
RemovedFrom(s, r, f, bl) ==
  /\ r.agg = IF s.agg[f] = 0 THEN s.agg ELSE [s.agg EXCEPT ![f] = Lighter(s, f, bl)]
  /\ ~(bl.size > s.agg[f]) => r.fault = s.fault

\* What unregister_block does to the types, the blocks and the ranking.
LEMMA UnregisterEffect ==
  ASSUME NEW s, TrackerOK(s), NEW addr \in DOMAIN s.blocks,
         NEW r, r = UnregisterBlock(s, addr), NEW bl, bl = s.blocks[addr],
         NEW h, h = bl.type, NEW f, f = s.types[h].f
  PROVE  /\ Unregistered(s, r, addr, bl, h)
         /\ RemovedFrom(s, r, f, bl)
<1>1. PICK t, z, v : t = s.types[h] /\ z = bl.size /\ v = Lighter(s, f, bl)
  OBVIOUS
<1>2. /\ h \in DOMAIN s.types /\ t \in TypeRecords /\ f \in Hotness
      /\ bl \in BlockRecords(DOMAIN s.types) /\ z \in Sizes
  BY <1>1 DEF TrackerOK, BlockRecords, TypeRecords
<1>3. PICK u : u = Uncounted(t, bl)
  OBVIOUS
<1>4. u \in TypeRecords /\ u.f = f
  BY <1>1, <1>2, <1>3, CounterTypes
<1>5. z \in Int /\ z # 0 /\ s.agg[f] \in Int
  BY <1>2, SizesPositive DEF TrackerOK
<1>6. PICK less : less = [s EXCEPT !.types = Put(s.types, h, u), !.blocks = Without(s.blocks, addr)]
  OBVIOUS
<1>7. r = RankingRemove(less, f, z)
  BY <1>1, <1>3, <1>6 DEF UnregisterBlock
<1>8. /\ less.types = Put(s.types, h, u) /\ less.blocks = Without(s.blocks, addr)
      /\ less.agg = s.agg /\ less.fault = s.fault
      /\ less = [types |-> less.types, blocks |-> less.blocks, agg |-> less.agg,
                 fault |-> less.fault]
  BY <1>6 DEF TrackerOK
<1>9. /\ DOMAIN less.types = DOMAIN s.types /\ less.types[h] = u
      /\ \A x \in DOMAIN s.types : x # h => less.types[x] = s.types[x]
      /\ less.types \in [DOMAIN less.types -> TypeRecords]
  BY <1>2, <1>4, <1>8 DEF Put, TrackerOK
<1>10. /\ DOMAIN less.blocks = DOMAIN s.blocks \ {addr}
       /\ \A a \in DOMAIN less.blocks : less.blocks[a] = s.blocks[a]
       /\ less.blocks \in [DOMAIN less.blocks -> BlockRecords(DOMAIN less.types)]
  BY <1>8, <1>9 DEF Without, TrackerOK
<1>11. TrackerOK(less)
  BY <1>8, <1>9, <1>10 DEF TrackerOK
<1>12. PICK w : w = IF z > s.agg[f] THEN "underflow" ELSE s.fault
  OBVIOUS
<1>13. v \in 0..SizeModulus - 1
  <2>1. s.agg[f] - z \in Int
    BY <1>5
  <2>2. v = (s.agg[f] - z) % SizeModulus
    BY <1>1 DEF Lighter
  <2> QED BY <2>1, <2>2, Remainder
<1>14. w \in {"none", "underflow", "assert"}
  BY <1>12 DEF TrackerOK
<1>15. r = IF s.agg[f] = 0 THEN less ELSE [less EXCEPT !.agg[f] = v, !.fault = w]
  BY <1>1, <1>5, <1>7, <1>8, <1>12 DEF RankingRemove, Lighter
<1>16. /\ r.types = less.types /\ r.blocks = less.blocks
       /\ r.agg = (IF s.agg[f] = 0 THEN s.agg ELSE [s.agg EXCEPT ![f] = v])
       /\ r.fault \in {"none", "underflow", "assert"}
       /\ ~(z > s.agg[f]) => r.fault = s.fault
       /\ r = [types |-> r.types, blocks |-> r.blocks, agg |-> r.agg, fault |-> r.fault]
  <2>1. less.fault \in {"none", "underflow", "assert"}
    BY <1>11 DEF TrackerOK
  <2>2. CASE s.agg[f] = 0
    BY <1>8, <1>15, <2>1, <2>2
  <2>3. CASE s.agg[f] # 0
    <3>1. r = [less EXCEPT !.agg[f] = v, !.fault = w]
      BY <1>15, <2>3
    <3> QED BY <1>8, <1>12, <1>14, <2>3, <3>1
  <2> QED BY <2>2, <2>3
<1>17. r.agg \in [Hotness -> 0..SizeModulus - 1]
  BY <1>2, <1>13, <1>16 DEF TrackerOK
<1>18. TrackerOK(r)
  BY <1>11, <1>16, <1>17 DEF TrackerOK
<1>19. OneMore(r, s, addr)
  BY <1>10, <1>16 DEF OneMore
<1>20. \A x \in DOMAIN s.types : r.types[x].f = s.types[x].f
  BY <1>1, <1>4, <1>9, <1>16
<1>21. Unregistered(s, r, addr, bl, h)
  BY <1>1, <1>3, <1>9, <1>16, <1>18, <1>19, <1>20 DEF Unregistered
<1>22. RemovedFrom(s, r, f, bl)
  BY <1>1, <1>16 DEF RemovedFrom
<1> QED BY <1>21, <1>22

\* unregister_block keeps the counters covering.
LEMMA UnregisterCovers ==
  ASSUME NEW s, TrackerOK(s), Covers(s), NEW addr \in DOMAIN s.blocks,
         NEW r, r = UnregisterBlock(s, addr)
  PROVE  Covers(r)
<1>1. PICK bl, h, f : bl = s.blocks[addr] /\ h = bl.type /\ f = s.types[h].f
  OBVIOUS
<1>0. Unregistered(s, r, addr, bl, h)
  BY <1>1, UnregisterEffect
<1>2. /\ TrackerOK(r) /\ OneMore(r, s, addr) /\ DOMAIN r.types = DOMAIN s.types
      /\ \A x \in DOMAIN s.types : x # h => r.types[x] = s.types[x]
      /\ r.types[h] = Uncounted(s.types[h], bl)
  BY <1>0 DEF Unregistered
<1>3. h \in DOMAIN s.types /\ s.types[h] \in TypeRecords
  BY <1>1, BlockHotness
<1>4. \A x \in DOMAIN s.types : CoversType(s, x, s.types[x])
  BY DEF Covers, CoversType
<1>5. CoversType(r, h, r.types[h])
  BY <1>1, <1>2, <1>3, <1>4, CoverMore
<1>6. \A x \in DOMAIN s.types : x # h => CoversType(r, x, r.types[x])
  BY <1>1, <1>2, <1>4, OtherTypes
<1>7. \A x \in DOMAIN r.types : CoversType(r, x, r.types[x])
  BY <1>2, <1>5, <1>6
<1> QED BY <1>7 DEF Covers, CoversType

-----------------------------------------------------------------------------
\* Touches.

\* The sizes fit a size_t, alone and as often as there are calls.
LEMMA SizesFit == SizeModulus \in Nat /\ \A z \in Sizes : z =< SizeModulus
<1>1. \A z \in Sizes : z < SizeModulus /\ z \in Nat
  BY RoomAssumption, HeapAssumption
<1> QED BY <1>1, ModulusAssumption

\* The counters of a covered type are not negative.
LEMMA Positive ==
  ASSUME NEW s, TrackerOK(s), Covers(s), NEW h \in DOMAIN s.types
  PROVE  s.types[h].total \in Nat
<1>1. PICK n, c, d, t : /\ n = s.types[h].total /\ c = SizeOf(s, HotBlocksOf(s, h))
                        /\ d = SizeOf(s, BlocksOf(s, h) \ HotBlocksOf(s, h))
                        /\ t = s.types[h].dram
  OBVIOUS
<1>2. HotBlocksOf(s, h) \subseteq DOMAIN s.blocks
      /\ BlocksOf(s, h) \ HotBlocksOf(s, h) \subseteq DOMAIN s.blocks
  BY DEF BlocksOf, HotBlocksOf
<1>3. c >= 0
  BY <1>1, <1>2, SizesFit, SizeBound
<1>4. d >= 0
  BY <1>1, <1>2, SizesFit, SizeBound
<1>5. c \in Int /\ d \in Int
  BY <1>1, <1>2, Finite
<1>6. n \in Int /\ t \in Int
  BY <1>1 DEF TrackerOK, TypeRecords
<1>7. t >= c /\ n - t >= d
  BY <1>1 DEF Covers
<1>8. n \in Nat
  BY <1>3, <1>4, <1>5, <1>6, <1>7
<1> QED BY <1>1, <1>8

\* Arithmetic modulo SizeModulus.
LEMMA Division ==
  ASSUME NEW x \in Int
  PROVE  \E q \in Int : x = SizeModulus * q + (x % SizeModulus)
<1>1. ASSUME NEW M \in Nat, M > 0, NEW z \in Int
      PROVE  z \div M \in Int /\ z = M * (z \div M) + (z % M)
  BY <1>1
<1>2. SizeModulus \in Nat /\ SizeModulus > 0
  BY ModulusAssumption
<1> QED BY <1>1, <1>2

\* The remainder of a multiple of SizeModulus and a size_t is the latter.
LEMMA Residue ==
  ASSUME NEW x \in Int, NEW q \in Int, NEW v \in 0..SizeModulus - 1, x = SizeModulus * q + v
  PROVE  x % SizeModulus = v
<1>1. ASSUME NEW M \in Nat, M > 0, NEW z \in Int, NEW r \in 0..M - 1, NEW p \in Int,
             z = M * p + r
      PROVE  z % M = r
  BY <1>1
<1>2. SizeModulus \in Nat /\ SizeModulus > 0
  BY ModulusAssumption
<1> QED BY <1>1, <1>2

\* Replacing a number by its remainder leaves the remainder of a sum.
LEMMA Wrapped ==
  ASSUME NEW x \in Int, NEW y \in Int
  PROVE  (x + (y % SizeModulus) - y) % SizeModulus = x % SizeModulus
<1>1. SizeModulus \in Int
  BY ModulusAssumption
<1>2. PICK q \in Int : y = SizeModulus * q + (y % SizeModulus)
  BY Division
<1>3. PICK p \in Int : x = SizeModulus * p + (x % SizeModulus)
  BY Division
<1>4. PICK v, w : v = x % SizeModulus /\ w = y % SizeModulus
  OBVIOUS
<1>5. v \in 0..SizeModulus - 1 /\ w \in Int
  BY <1>4, Remainder
<1>6. v \in Int
  BY <1>5
<1>7. PICK m, n : m = SizeModulus * p /\ n = SizeModulus * q
  OBVIOUS
<1>8. m \in Int /\ n \in Int /\ SizeModulus * (p - q) = m - n
  BY <1>1, <1>7
<1>9. x + w - y = SizeModulus * (p - q) + v
  BY <1>2, <1>3, <1>4, <1>5, <1>6, <1>7, <1>8
<1>10. p - q \in Int /\ x + w - y \in Int
  BY <1>5
<1>11. (x + w - y) % SizeModulus = v
  BY <1>5, <1>9, <1>10, Residue
<1> QED BY <1>4, <1>11

\* ranking_touch_internal moves the size n from hotness g to hotness f.
Shifted(A, g, f, n) ==
  [[A EXCEPT ![g] = A[g] - n] EXCEPT ![f] = ([A EXCEPT ![g] = A[g] - n][f] + n) % SizeModulus]

\* A size that moves from one hotness to another leaves the sum of the ranking.
LEMMA ShiftEffect ==
  ASSUME NEW A \in [Hotness -> 0..SizeModulus - 1], NEW g \in Hotness, NEW f \in Hotness,
         NEW n \in 0..A[g]
  PROVE  /\ Shifted(A, g, f, n) \in [Hotness -> 0..SizeModulus - 1]
         /\ SumFunctionOnSet(Shifted(A, g, f, n), Hotness) % SizeModulus
              = SumFunctionOnSet(A, Hotness) % SizeModulus
<1>0. SizeModulus \in Nat /\ SizeModulus > 0
  BY ModulusAssumption
<1>1. PICK B : B = [A EXCEPT ![g] = A[g] - n]
  OBVIOUS
<1>2. A[g] \in Int /\ n \in Int /\ A[g] - n \in 0..SizeModulus - 1
  BY <1>0
<1>3. B \in [Hotness -> 0..SizeModulus - 1] /\ B[g] = A[g] - n
      /\ \A x \in Hotness : x # g => B[x] = A[x]
  BY <1>1, <1>2
<1>4. B[f] \in Int
  BY <1>3
<1>5. PICK y : y = B[f] + n
  OBVIOUS
<1>6. y \in Int
  BY <1>2, <1>4, <1>5
<1>7. PICK v : v = y % SizeModulus
  OBVIOUS
<1>8. v \in 0..SizeModulus - 1
  BY <1>6, <1>7, Remainder
<1>9. PICK C : C = [B EXCEPT ![f] = v]
  OBVIOUS
<1>10. C \in [Hotness -> 0..SizeModulus - 1] /\ C[f] = v
       /\ \A x \in Hotness : x # f => C[x] = B[x]
  BY <1>3, <1>8, <1>9
<1>11. Shifted(A, g, f, n) = C
  BY <1>1, <1>5, <1>7, <1>9 DEF Shifted
<1>12. /\ \A x \in Hotness : A[x] \in Int
       /\ \A x \in Hotness : B[x] \in Int
       /\ \A x \in Hotness : C[x] \in Int
  BY <1>3, <1>10
<1>13. SumFunctionOnSet(B, Hotness) = SumFunctionOnSet(A, Hotness) + B[g] - A[g]
  <2>1. \A x \in Hotness : A[x] \in Int /\ B[x] \in Int
    BY <1>12
  <2>2. \A x \in Hotness \ {g} : B[x] = A[x]
    BY <1>3
  <2> QED BY <2>1, <2>2, HotnessAssumption, SumChange
<1>14. SumFunctionOnSet(C, Hotness) = SumFunctionOnSet(B, Hotness) + C[f] - B[f]
  <2>1. \A x \in Hotness : B[x] \in Int /\ C[x] \in Int
    BY <1>12
  <2>2. \A x \in Hotness \ {f} : C[x] = B[x]
    BY <1>10
  <2> QED BY <2>1, <2>2, HotnessAssumption, SumChange
<1>15. PICK a, b, c : /\ a = SumFunctionOnSet(A, Hotness) /\ b = SumFunctionOnSet(B, Hotness)
                      /\ c = SumFunctionOnSet(C, Hotness)
  OBVIOUS
<1>16. a \in Int
  BY <1>12, <1>15, HotnessAssumption, SumInt
<1>17. b = a - n
  BY <1>2, <1>3, <1>13, <1>15, <1>16
<1>18. v \in Int
  BY <1>8
<1>19. c = a + v - y
  <2>1. c = b + v - B[f]
    BY <1>10, <1>14, <1>15
  <2> QED BY <1>2, <1>4, <1>5, <1>16, <1>17, <1>18, <2>1
<1>20. c % SizeModulus = a % SizeModulus
  BY <1>6, <1>7, <1>16, <1>19, Wrapped
<1> QED BY <1>10, <1>11, <1>15, <1>20

\* touch: the blocks and the counters stay, one type may get another hotness.
Retyped(s, h, f) == [s.types EXCEPT ![h] = [num |-> s.types[h].num, total |-> s.types[h].total,
                                           dram |-> s.types[h].dram, f |-> f]]
TouchesType(s, r, h, f) ==
  /\ r.types = Retyped(s, h, f) /\ r.fault = s.fault /\ ~RelaxedAssertFails(s, s.types[h])
  /\ r.agg = Shifted(s.agg, s.types[h].f, f, RelaxedSize(s, s.types[h]))
Fails(s, r, h) == RelaxedAssertFails(s, s.types[h]) /\ r = [s EXCEPT !.fault = "assert"]
Touched(s, r) ==
  /\ TrackerOK(r) /\ r.blocks = s.blocks /\ DOMAIN r.types = DOMAIN s.types
  /\ \A h \in DOMAIN s.types : /\ r.types[h].num = s.types[h].num
                               /\ r.types[h].total = s.types[h].total
                               /\ r.types[h].dram = s.types[h].dram
  /\ RankedSize(r) % SizeModulus = RankedSize(s) % SizeModulus

\* ranking_touch of type h: the relaxed removal, then the addition.
LEMMA RankingTouchEffect ==
  ASSUME NEW s, TrackerOK(s), Covers(s), NEW h \in DOMAIN s.types, NEW f \in Hotness,
         NEW r, r = RankingTouch(s, h, f)
  PROVE  Touched(s, r) /\ (Fails(s, r, h) \/ TouchesType(s, r, h, f))
<1>1. PICK t, g, n : t = s.types[h] /\ g = t.f /\ n = RelaxedSize(s, t)
  OBVIOUS
<1>2. t \in TypeRecords /\ g \in Hotness /\ t.num \in Int /\ t.total \in Int /\ t.dram \in Int
  BY <1>1 DEF TrackerOK, TypeRecords
<1>3. t.total \in Nat
  BY <1>1, Positive
<1>4. CASE RelaxedAssertFails(s, t)
  <2>1. r = [s EXCEPT !.fault = "assert"]
    BY <1>1, <1>4 DEF RankingTouch
  <2>2. /\ r.types = s.types /\ r.blocks = s.blocks /\ r.agg = s.agg /\ r.fault = "assert"
        /\ r = [types |-> r.types, blocks |-> r.blocks, agg |-> r.agg, fault |-> r.fault]
    BY <2>1 DEF TrackerOK
  <2>3. TrackerOK(r)
    BY <2>2 DEF TrackerOK
  <2> QED BY <1>1, <1>4, <2>1, <2>2, <2>3 DEF Touched, Fails, RankedSize
<1>5. CASE ~RelaxedAssertFails(s, t)
  <2>1. PICK A, C, T : /\ A = [s.agg EXCEPT ![g] = s.agg[g] - n]
                       /\ C = Shifted(s.agg, g, f, n)
                       /\ T = Retyped(s, h, f)
    OBVIOUS
  <2>2. s.agg \in [Hotness -> 0..SizeModulus - 1] /\ s.agg[g] \in Nat
    BY <1>2 DEF TrackerOK
  <2>3. n \in 0..s.agg[g]
    <3>1. n = Min({t.total, s.agg[g]})
      BY <1>1 DEF RelaxedSize
    <3>2. n = IF t.total =< s.agg[g] THEN t.total ELSE s.agg[g]
      BY <1>2, <2>2, <3>1, MinOfTwo
    <3> QED BY <1>3, <2>2, <3>2
  <2>4. /\ C \in [Hotness -> 0..SizeModulus - 1]
        /\ SumFunctionOnSet(C, Hotness) % SizeModulus
             = SumFunctionOnSet(s.agg, Hotness) % SizeModulus
    BY <1>2, <2>1, <2>2, <2>3, ShiftEffect
  <2>5. /\ T \in [DOMAIN s.types -> TypeRecords] /\ DOMAIN T = DOMAIN s.types
        /\ \A x \in DOMAIN s.types : /\ T[x].num = s.types[x].num
                                     /\ T[x].total = s.types[x].total
                                     /\ T[x].dram = s.types[x].dram
    BY <1>1, <1>2, <2>1 DEF Retyped, TrackerOK, TypeRecords
  <2>6. s.types \in [DOMAIN s.types -> TypeRecords] /\ s.agg \in [Hotness -> 0..SizeModulus - 1]
        /\ s = [types |-> s.types, blocks |-> s.blocks, agg |-> s.agg, fault |-> s.fault]
    BY DEF TrackerOK
  <2>7. T = Put(s.types, h, [t EXCEPT !.f = f])
    <3>1. t = [num |-> t.num, total |-> t.total, dram |-> t.dram, f |-> t.f]
      BY <1>2 DEF TypeRecords
    <3>2. [t EXCEPT !.f = f] = [num |-> t.num, total |-> t.total, dram |-> t.dram, f |-> f]
      BY <3>1
    <3>3. DOMAIN s.types \cup {h} = DOMAIN s.types
      OBVIOUS
    <3> QED BY <1>1, <2>1, <3>2, <3>3 DEF Retyped, Put
  <2>8. PICK w : w = [s EXCEPT !.types = T, !.agg[g] = s.agg[g] - n]
    OBVIOUS
  <2>9. /\ w.types = T /\ w.blocks = s.blocks /\ w.agg = A /\ w.fault = s.fault
        /\ w = [types |-> w.types, blocks |-> w.blocks, agg |-> w.agg, fault |-> w.fault]
    BY <2>1, <2>6, <2>8
  <2>10. r = [w EXCEPT !.agg[f] = (w.agg[f] + n) % SizeModulus]
    BY <1>1, <1>5, <2>7, <2>8 DEF RankingTouch, RankingAdd
  <2>11. /\ r.types = T /\ r.blocks = s.blocks /\ r.fault = s.fault
         /\ r.agg = [A EXCEPT ![f] = (A[f] + n) % SizeModulus]
         /\ r = [types |-> r.types, blocks |-> r.blocks, agg |-> r.agg, fault |-> r.fault]
    BY <2>9, <2>10
  <2>12. r.agg = C
    BY <2>1, <2>11 DEF Shifted
  <2>13. TrackerOK(r)
    BY <2>4, <2>5, <2>11, <2>12 DEF TrackerOK
  <2>14. Touched(s, r)
    BY <2>4, <2>5, <2>11, <2>12, <2>13 DEF Touched, RankedSize
  <2>15. TouchesType(s, r, h, f)
    BY <1>1, <1>5, <2>1, <2>11, <2>12 DEF TouchesType
  <2> QED BY <2>14, <2>15
<1> QED BY <1>4, <1>5

\* touch: of no block, or of the type of the block at the address.
LEMMA TouchEffect ==
  ASSUME NEW s, TrackerOK(s), Covers(s), NEW addr \in Keys, NEW f \in Hotness,
         NEW r, r = Touch(s, addr, f)
  PROVE  /\ Touched(s, r)
         /\ r = s \/ \E h \in DOMAIN s.types : Fails(s, r, h) \/ TouchesType(s, r, h, f)
<1>1. PICK m : m = Max(KeysLe(s, addr))
  OBVIOUS
<1>2. CASE r = s
  BY <1>2 DEF Touched, RankedSize
<1>3. CASE r # s
  <2>1. KeysLe(s, addr) # {} /\ r = RankingTouch(s, s.blocks[m].type, f)
    BY <1>1, <1>3 DEF Touch
  <2>2. s.blocks[m].type \in DOMAIN s.types
    BY <1>1, <2>1, FindLe, BlockHotness
  <2> QED BY <2>1, <2>2, RankingTouchEffect
<1> QED BY <1>2, <1>3

-----------------------------------------------------------------------------
\* An exact tracker stays exact.

\* Two sets of blocks.
LEMMA SizeUnion ==
  ASSUME NEW s, TrackerOK(s), NEW S, S \subseteq DOMAIN s.blocks,
         NEW C, C \subseteq DOMAIN s.blocks, S \cap C = {}
  PROVE  SizeOf(s, S \cup C) = SizeOf(s, S) + SizeOf(s, C)
<1> DEFINE T == {B \in SUBSET S : SizeOf(s, B \cup C) # SizeOf(s, B) + SizeOf(s, C)}
<1> SUFFICES T = {}
  OBVIOUS
<1> SUFFICES ASSUME T # {} PROVE FALSE
  OBVIOUS
<1>1. PICK A \in T : \A y \in T : y \subseteq A => y = A
  <2>1. T \in SUBSET SUBSET S /\ IsFiniteSet(S)
    BY Finite
  <2> HIDE DEF T
  <2> QED BY <2>1, MinimalSubset
<1>2. A # {}
  <2>1. SizeOf(s, {}) = 0
    BY SumEmpty DEF SizeOf
  <2>2. SizeOf(s, C) \in Int /\ {} \cup C = C
    BY Finite
  <2>3. 0 + SizeOf(s, C) = SizeOf(s, C)
    BY <2>2
  <2> QED BY <2>1, <2>2, <2>3
<1>3. PICK a : a \in A
  BY <1>2
<1> DEFINE R == A \ {a}
<1>4. SizeOf(s, R \cup C) = SizeOf(s, R) + SizeOf(s, C)
  BY <1>1, <1>3
<1>5. SizeOf(s, A) = s.blocks[a].size + SizeOf(s, R)
  BY <1>3, SizeOne
<1>6. SizeOf(s, A \cup C) = s.blocks[a].size + SizeOf(s, R \cup C)
  <2>1. (A \cup C) \ {a} = R \cup C /\ a \in A \cup C /\ A \cup C \subseteq DOMAIN s.blocks
    BY <1>3
  <2>2. SizeOf(s, A \cup C) = s.blocks[a].size + SizeOf(s, (A \cup C) \ {a})
    BY <2>1, SizeOne
  <2> QED BY <2>1, <2>2
<1>7. SizeOf(s, R) \in Int /\ SizeOf(s, C) \in Int /\ s.blocks[a].size \in Int
  BY <1>3, Finite, SizesPositive
<1>8. PICK x, y, z : x = SizeOf(s, R) /\ y = SizeOf(s, C) /\ z = s.blocks[a].size
  OBVIOUS
<1>9. z + (x + y) = (z + x) + y
  BY <1>7, <1>8
<1>10. SizeOf(s, A \cup C) = SizeOf(s, A) + SizeOf(s, C)
  BY <1>4, <1>5, <1>6, <1>8, <1>9
<1> QED BY <1>10

\* As long as there are no more blocks than calls, their sizes fit a size_t.
LEMMA Room ==
  ASSUME NEW s, TrackerOK(s), Cardinality(DOMAIN s.blocks) =< MaxOps,
         NEW B, B \subseteq DOMAIN s.blocks
  PROVE  SizeOf(s, B) \in 0..SizeModulus - 1
<1>1. PICK c \in Nat : (\A z \in Sizes : z =< c) /\ MaxOps * c < SizeModulus
  <2>1. CASE Sizes = {}
    <3>1. MaxOps * 0 = 0 /\ 0 < SizeModulus
      BY BoundAssumption, ModulusAssumption
    <3> QED BY <2>1, <3>1
  <2>2. CASE Sizes # {}
    <3>1. Max(Sizes) \in Sizes /\ \A y \in Sizes : y =< Max(Sizes)
      BY <2>2, SizesFit, SizesPositive, Greatest
    <3> QED BY <3>1, SizesPositive, RoomAssumption
  <2> QED BY <2>1, <2>2
<1>2. SizeOf(s, B) >= 0 /\ SizeOf(s, B) =< Cardinality(B) * c
  BY <1>1, SizeBound
<1>3. Cardinality(B) \in Nat /\ SizeOf(s, B) \in Int
  BY Finite
<1>4. Cardinality(B) =< Cardinality(DOMAIN s.blocks) /\ Cardinality(DOMAIN s.blocks) \in Nat
  <2>1. IsFiniteSet(DOMAIN s.blocks) /\ Cardinality(DOMAIN s.blocks) \in Nat
    BY Finite
  <2> QED BY <2>1, FS_Subset
<1>5. Cardinality(B) =< MaxOps /\ MaxOps \in Nat
  BY <1>3, <1>4, BoundAssumption
<1>6. ASSUME NEW m \in Nat, NEW n \in Nat, m =< n, NEW d \in Nat PROVE m * d =< n * d
  <2>1. PICK k \in Nat : n = m + k
    <3>1. n - m \in Nat /\ n = m + (n - m)
      BY <1>6
    <3> QED BY <3>1
  <2>2. (m + k) * d = m * d + k * d /\ k * d \in Nat /\ m * d \in Nat
    OBVIOUS
  <2> QED BY <2>1, <2>2
<1>7. Cardinality(B) * c =< MaxOps * c /\ Cardinality(B) * c \in Nat /\ MaxOps * c \in Nat
  BY <1>3, <1>5, <1>6
<1> QED BY <1>1, <1>2, <1>3, <1>7, ModulusAssumption

\* A size_t is its own remainder.
LEMMA Small == ASSUME NEW x \in 0..SizeModulus - 1 PROVE x % SizeModulus = x
BY ModulusAssumption

\* Tracker r has one block more than s, of hotness f, and the hotness of the
\* others is the same.
MoreAt(s, r, a, f) ==
  /\ OneMore(s, r, a) /\ HotnessOf(r, a) = f
  /\ \A x \in DOMAIN s.blocks : HotnessOf(r, x) = HotnessOf(s, x)

\* A block more weighs at its own hotness only.
LEMMA SizesAt ==
  ASSUME NEW s, TrackerOK(s), NEW r, TrackerOK(r), NEW a, NEW f, MoreAt(s, r, a, f)
  PROVE  /\ SizeOf(r, BlocksAt(r, f)) = SizeOf(s, BlocksAt(s, f)) + r.blocks[a].size
         /\ \A g : g # f => SizeOf(r, BlocksAt(r, g)) = SizeOf(s, BlocksAt(s, g))
<1>1. \A g : BlocksAt(s, g) \subseteq DOMAIN s.blocks
  BY DEF BlocksAt
<1>2. BlocksAt(r, f) = BlocksAt(s, f) \cup {a}
  BY DEF BlocksAt, MoreAt, OneMore
<1>3. \A g : g # f => BlocksAt(r, g) = BlocksAt(s, g)
  BY DEF BlocksAt, MoreAt, OneMore
<1>4. OneMore(s, r, a)
  BY DEF MoreAt
<1>5. SizeOf(r, BlocksAt(r, f)) = SizeOf(s, BlocksAt(s, f)) + r.blocks[a].size
  BY <1>1, <1>2, <1>4, SizeMore
<1>6. ASSUME NEW g, g # f PROVE SizeOf(r, BlocksAt(r, g)) = SizeOf(s, BlocksAt(s, g))
  BY <1>1, <1>3, <1>4, <1>6, SizeSame
<1> QED BY <1>5, <1>6

\* The totals of the types: those of the other types are the same.
LEMMA TotalsOther ==
  ASSUME NEW s, TrackerOK(s), NEW r, TrackerOK(r), NEW a, OneMore(s, r, a),
         NEW h, h # r.blocks[a].type
  PROVE  SizeOf(r, BlocksOf(r, h)) = SizeOf(s, BlocksOf(s, h))
<1>1. BlocksOf(r, h) = BlocksOf(s, h) /\ BlocksOf(s, h) \subseteq DOMAIN s.blocks
  BY DEF BlocksOf, OneMore
<1> QED BY <1>1, SizeSame

\* The total of its type grows by its size.
LEMMA TotalMore ==
  ASSUME NEW s, TrackerOK(s), NEW r, TrackerOK(r), NEW a, OneMore(s, r, a)
  PROVE  SizeOf(r, BlocksOf(r, r.blocks[a].type))
           = SizeOf(s, BlocksOf(s, r.blocks[a].type)) + r.blocks[a].size
<1>1. PICK h : h = r.blocks[a].type
  OBVIOUS
<1>2. BlocksOf(r, h) = BlocksOf(s, h) \cup {a} /\ BlocksOf(s, h) \subseteq DOMAIN s.blocks
  BY <1>1 DEF BlocksOf, OneMore
<1>3. SizeOf(r, BlocksOf(r, h)) = SizeOf(s, BlocksOf(s, h)) + r.blocks[a].size
  BY <1>2, SizeMore
<1> QED BY <1>1, <1>3

\* Registering a block at an address that has none.
LEMMA RegisterExact ==
  ASSUME NEW s, TrackerOK(s), Exact(s), NEW hash \in AllHashes, NEW addr \in Keys,
         NEW size \in Sizes, NEW isHot \in BOOLEAN, addr \notin DOMAIN s.blocks,
         NEW r, r = Registered(s, hash, addr, size, isHot),
         TrackerOK(r), Cardinality(DOMAIN r.blocks) =< MaxOps
  PROVE  Exact(r)
<1>1. PICK m, bl, f : /\ m = RegisterBlock(s, hash, addr, size, isHot)
                      /\ bl = Block(hash, size, isHot) /\ f = TypeOf(s, hash).f
  OBVIOUS
<1>2. r = RegisterBlockInRanking(m, addr, size)
  BY <1>1 DEF Registered
<1>3. /\ TrackerOK(m) /\ m.agg = s.agg /\ m.fault = s.fault
      /\ DOMAIN m.types = DOMAIN s.types \cup {hash}
      /\ DOMAIN m.blocks = DOMAIN s.blocks \cup {addr}
      /\ \A h \in DOMAIN s.types : h # hash => m.types[h] = s.types[h]
      /\ m.types[hash] = Counted(TypeOf(s, hash), bl)
      /\ m.types[hash].f = f
      /\ \A a \in DOMAIN s.blocks : m.blocks[a] = s.blocks[a]
      /\ m.blocks[addr] = bl
  BY <1>1, RegisterEffect
<1>4. /\ r.types = m.types /\ r.blocks = m.blocks /\ r.fault = m.fault
      /\ r.agg = [m.agg EXCEPT ![HotnessOf(m, addr)] = Heavier(m, HotnessOf(m, addr), size)]
  BY <1>2, <1>3, RankEffect DEF AddedTo
<1>5. bl.type = hash /\ bl.size = size
  BY <1>1 DEF Block
<1>6. HotnessOf(m, addr) = f
  BY <1>3, <1>5 DEF HotnessOf
<1>7. f \in Hotness
  BY <1>1, OldType DEF TypeRecords
<1>8. OneMore(s, r, addr) /\ r.blocks[addr] = bl
  BY <1>3, <1>4 DEF OneMore
<1>9. ASSUME NEW x \in DOMAIN s.blocks PROVE HotnessOf(r, x) = HotnessOf(s, x)
  <2>1. PICK h : h = s.blocks[x].type
    OBVIOUS
  <2>2. h \in DOMAIN s.types /\ r.blocks[x] = s.blocks[x]
    BY <1>3, <1>4, <2>1, BlockHotness
  <2>3. r.types[h].f = s.types[h].f
    <3>1. CASE h # hash
      BY <1>3, <1>4, <2>2, <3>1
    <3>2. CASE h = hash
      BY <1>1, <1>3, <1>4, <2>2, <3>2 DEF TypeOf
    <3> QED BY <3>1, <3>2
  <2> QED BY <2>1, <2>2, <2>3 DEF HotnessOf
<1>10. MoreAt(s, r, addr, f)
  BY <1>4, <1>6, <1>8, <1>9 DEF MoreAt, HotnessOf
<1>11. /\ SizeOf(r, BlocksAt(r, f)) = SizeOf(s, BlocksAt(s, f)) + size
       /\ \A g : g # f => SizeOf(r, BlocksAt(r, g)) = SizeOf(s, BlocksAt(s, g))
  BY <1>5, <1>8, <1>10, SizesAt
<1>12. r.agg[f] = SizeOf(r, BlocksAt(r, f))
  <2>1. s.agg[f] = SizeOf(s, BlocksAt(s, f))
    BY <1>7 DEF Exact
  <2>2. PICK v : v = s.agg[f] + size
    OBVIOUS
  <2>3. v = SizeOf(r, BlocksAt(r, f))
    BY <1>11, <2>1, <2>2
  <2>4. v \in 0..SizeModulus - 1
    <3>1. BlocksAt(r, f) \subseteq DOMAIN r.blocks
      BY DEF BlocksAt
    <3> QED BY <2>3, <3>1, Room
  <2>5. v % SizeModulus = v
    BY <2>4, Small
  <2>6. Heavier(m, f, size) = v
    BY <1>3, <2>2, <2>5 DEF Heavier
  <2>7. m.agg \in [Hotness -> 0..SizeModulus - 1]
    BY <1>3 DEF TrackerOK
  <2> QED BY <1>4, <1>6, <1>7, <2>3, <2>6, <2>7
<1>13. ASSUME NEW g \in Hotness, g # f PROVE r.agg[g] = SizeOf(r, BlocksAt(r, g))
  <2>1. m.agg \in [Hotness -> 0..SizeModulus - 1]
    BY <1>3 DEF TrackerOK
  <2>2. r.agg[g] = s.agg[g]
    BY <1>3, <1>4, <1>6, <1>13, <2>1
  <2> QED BY <1>11, <1>13, <2>2 DEF Exact
<1>14. ASSUME NEW h \in DOMAIN r.types PROVE r.types[h].total = SizeOf(r, BlocksOf(r, h))
  <2>1. CASE h # hash
    <3>1. h \in DOMAIN s.types /\ r.types[h] = s.types[h]
      BY <1>3, <1>4, <1>14, <2>1
    <3>2. SizeOf(r, BlocksOf(r, h)) = SizeOf(s, BlocksOf(s, h))
      BY <1>5, <1>8, <2>1, TotalsOther
    <3> QED BY <3>1, <3>2 DEF Exact
  <2>2. CASE h = hash
    <3>1. SizeOf(r, BlocksOf(r, h)) = SizeOf(s, BlocksOf(s, h)) + size
      BY <1>5, <1>8, <2>2, TotalMore
    <3>2. TypeOf(s, hash).total = SizeOf(s, BlocksOf(s, hash))
      <4>1. CASE hash \in DOMAIN s.types
        BY <4>1 DEF TypeOf, Exact
      <4>2. CASE hash \notin DOMAIN s.types
        <5>1. BlocksOf(s, hash) = {}
          BY <4>2 DEF BlocksOf, TrackerOK, BlockRecords
        <5>2. SizeOf(s, {}) = 0
          BY SumEmpty DEF SizeOf
        <5> QED BY <4>2, <5>1, <5>2 DEF TypeOf, NewType
      <4> QED BY <4>1, <4>2
    <3>3. r.types[hash].total = TypeOf(s, hash).total + size
      BY <1>3, <1>4, <1>5 DEF Counted
    <3> QED BY <2>2, <3>1, <3>2, <3>3
  <2> QED BY <2>1, <2>2
<1>15. r.fault = "none"
  BY <1>3, <1>4 DEF Exact
<1>16. \A g \in Hotness : r.agg[g] = SizeOf(r, BlocksAt(r, g))
  BY <1>12, <1>13
<1> QED BY <1>14, <1>15, <1>16 DEF Exact

\* Unregistering a block.
LEMMA UnregisterExact ==
  ASSUME NEW s, TrackerOK(s), Exact(s), NEW addr \in DOMAIN s.blocks,
         NEW r, r = UnregisterBlock(s, addr)
  PROVE  Exact(r)
<1>1. PICK bl, h, f : bl = s.blocks[addr] /\ h = bl.type /\ f = s.types[h].f
  OBVIOUS
<1>a. Unregistered(s, r, addr, bl, h) /\ RemovedFrom(s, r, f, bl)
  BY <1>1, UnregisterEffect
<1>2. /\ Unregistered(s, r, addr, bl, h)
      /\ r.agg = IF s.agg[f] = 0 THEN s.agg ELSE [s.agg EXCEPT ![f] = Lighter(s, f, bl)]
      /\ ~(bl.size > s.agg[f]) => r.fault = s.fault
  BY <1>a DEF RemovedFrom
<1>3. /\ TrackerOK(r) /\ OneMore(r, s, addr) /\ DOMAIN r.types = DOMAIN s.types
      /\ \A x \in DOMAIN s.types : x # h => r.types[x] = s.types[x]
      /\ r.types[h] = Uncounted(s.types[h], bl)
      /\ \A x \in DOMAIN s.types : r.types[x].f = s.types[x].f
  BY <1>2 DEF Unregistered
<1>4. h \in DOMAIN s.types /\ s.types[h] \in TypeRecords /\ f \in Hotness
  BY <1>1, BlockHotness
<1>5. \A x \in DOMAIN r.blocks : HotnessOf(s, x) = HotnessOf(r, x)
  BY <1>3, BlockHotness DEF HotnessOf, OneMore
<1>6. MoreAt(r, s, addr, f)
  BY <1>1, <1>3, <1>5 DEF MoreAt, HotnessOf
<1>7. PICK z : z = bl.size
  OBVIOUS
<1>8. z \in Int /\ z > 0
  BY <1>1, <1>7, SizesPositive DEF TrackerOK, BlockRecords
<1>9. /\ SizeOf(s, BlocksAt(s, f)) = SizeOf(r, BlocksAt(r, f)) + z
      /\ \A g : g # f => SizeOf(s, BlocksAt(s, g)) = SizeOf(r, BlocksAt(r, g))
  <2>1. TrackerOK(r) /\ s.blocks[addr].size = z
    BY <1>1, <1>3, <1>7
  <2>2. /\ SizeOf(s, BlocksAt(s, f)) = SizeOf(r, BlocksAt(r, f)) + s.blocks[addr].size
        /\ \A g : g # f => SizeOf(s, BlocksAt(s, g)) = SizeOf(r, BlocksAt(r, g))
    BY <1>6, <2>1, SizesAt
  <2> QED BY <2>1, <2>2
<1>10. PICK w : w = SizeOf(r, BlocksAt(r, f))
  OBVIOUS
<1>11. w \in Int /\ w >= 0
  <2>1. BlocksAt(r, f) \subseteq DOMAIN r.blocks
    BY DEF BlocksAt
  <2> QED BY <1>3, <1>10, <2>1, Finite, SizesFit, SizeBound
<1>12. s.agg[f] = w + z
  BY <1>4, <1>9, <1>10 DEF Exact
<1>13. s.agg \in [Hotness -> 0..SizeModulus - 1] /\ s.agg[f] \in 0..SizeModulus - 1
  BY <1>4 DEF TrackerOK
<1>14. s.agg[f] # 0 /\ ~(z > s.agg[f]) /\ s.agg[f] - z = w /\ w \in 0..SizeModulus - 1
  BY <1>8, <1>11, <1>12, <1>13, ModulusAssumption
<1>15. Lighter(s, f, bl) = w
  BY <1>7, <1>14, Small DEF Lighter
<1>16. r.agg = [s.agg EXCEPT ![f] = w]
  BY <1>2, <1>14, <1>15
<1>17. \A g \in Hotness : r.agg[g] = SizeOf(r, BlocksAt(r, g))
  <2>1. TAKE g \in Hotness
  <2>2. CASE g = f
    BY <1>4, <1>10, <1>13, <1>16, <2>2
  <2>3. CASE g # f
    BY <1>9, <1>13, <1>16, <2>3 DEF Exact
  <2> QED BY <2>2, <2>3
<1>18. ASSUME NEW x \in DOMAIN r.types PROVE r.types[x].total = SizeOf(r, BlocksOf(r, x))
  <2>1. s.types[x].total = SizeOf(s, BlocksOf(s, x))
    BY <1>3, <1>18 DEF Exact
  <2>2. CASE x # h
    <3>1. SizeOf(s, BlocksOf(s, x)) = SizeOf(r, BlocksOf(r, x))
      BY <1>1, <1>3, <2>2, TotalsOther
    <3> QED BY <1>3, <1>18, <2>1, <2>2, <3>1
  <2>3. CASE x = h
    <3>1. SizeOf(s, BlocksOf(s, h)) = SizeOf(r, BlocksOf(r, h)) + z
      BY <1>1, <1>3, <1>7, TotalMore
    <3>2. PICK u : u = SizeOf(r, BlocksOf(r, h))
      OBVIOUS
    <3>3. u \in Int
      <4>1. BlocksOf(r, h) \subseteq DOMAIN r.blocks
        BY DEF BlocksOf
      <4> QED BY <1>3, <3>2, <4>1, Finite
    <3>4. r.types[h].total = s.types[h].total - z
      BY <1>3, <1>7 DEF Uncounted
    <3>5. r.types[h].total = u
      BY <1>8, <2>1, <2>3, <3>1, <3>2, <3>3, <3>4
    <3> QED BY <2>3, <3>2, <3>5
  <2> QED BY <2>2, <2>3
<1>19. r.fault = "none"
  BY <1>2, <1>7, <1>14 DEF Exact
<1> QED BY <1>17, <1>18, <1>19 DEF Exact

\* The size of a type is part of the size of its hotness.
LEMMA TypeInHotness ==
  ASSUME NEW s, TrackerOK(s), Exact(s), NEW h \in DOMAIN s.types, NEW g, g = s.types[h].f
  PROVE  /\ BlocksOf(s, h) \subseteq BlocksAt(s, g)
         /\ s.agg[g] = s.types[h].total + SizeOf(s, BlocksAt(s, g) \ BlocksOf(s, h))
         /\ s.types[h].total \in Nat /\ SizeOf(s, BlocksAt(s, g) \ BlocksOf(s, h)) \in Nat
<1>1. g \in Hotness
  BY DEF TrackerOK, TypeRecords
<1>2. BlocksOf(s, h) \subseteq BlocksAt(s, g)
  BY DEF BlocksOf, BlocksAt, HotnessOf
<1>3. BlocksAt(s, g) \subseteq DOMAIN s.blocks
  BY DEF BlocksAt
<1>4. PICK A, C : A = BlocksOf(s, h) /\ C = BlocksAt(s, g) \ BlocksOf(s, h)
  OBVIOUS
<1>5. A \subseteq DOMAIN s.blocks /\ C \subseteq DOMAIN s.blocks /\ A \cap C = {}
      /\ A \cup C = BlocksAt(s, g)
  BY <1>2, <1>3, <1>4
<1>6. SizeOf(s, A \cup C) = SizeOf(s, A) + SizeOf(s, C)
  BY <1>5, SizeUnion
<1>7. SizeOf(s, A) \in Int /\ SizeOf(s, C) \in Int
  BY <1>5, Finite
<1>8. SizeOf(s, A) >= 0
  BY <1>5, SizesFit, SizeBound
<1>9. SizeOf(s, C) >= 0
  BY <1>5, SizesFit, SizeBound
<1>10. SizeOf(s, A) \in Nat /\ SizeOf(s, C) \in Nat
  BY <1>7, <1>8, <1>9
<1>11. s.agg[g] = SizeOf(s, A \cup C) /\ s.types[h].total = SizeOf(s, A)
  BY <1>1, <1>4, <1>5 DEF Exact
<1> QED BY <1>2, <1>4, <1>6, <1>10, <1>11

\* A touch of an exact tracker.
LEMMA TouchExact ==
  ASSUME NEW s, TrackerOK(s), Exact(s), Cardinality(DOMAIN s.blocks) =< MaxOps,
         NEW r, Touched(s, r), NEW h \in DOMAIN s.types, NEW f \in Hotness,
         Fails(s, r, h) \/ TouchesType(s, r, h, f)
  PROVE  Exact(r)
<1>1. PICK t, g, n, w : /\ t = s.types[h] /\ g = t.f /\ n = t.total
                        /\ w = SizeOf(s, BlocksAt(s, g) \ BlocksOf(s, h))
  OBVIOUS
<1>2. /\ s.agg[g] = n + w /\ n \in Nat /\ w \in Nat
      /\ BlocksOf(s, h) \subseteq BlocksAt(s, g)
  BY <1>1, TypeInHotness
<1>3. g \in Hotness /\ s.agg \in [Hotness -> 0..SizeModulus - 1]
  BY <1>1 DEF TrackerOK, TypeRecords
<1>4. RelaxedSize(s, t) = n
  <2>1. s.agg[g] \in Int /\ n =< s.agg[g] /\ n \in Int
    BY <1>2
  <2> QED BY <1>1, <2>1, MinOfTwo DEF RelaxedSize
<1>5. ~RelaxedAssertFails(s, t)
  <2>1. n # 0 => n + w # 0
    BY <1>2
  <2> QED BY <1>1, <1>2, <2>1 DEF RelaxedAssertFails
<1>6. TouchesType(s, r, h, f)
  BY <1>1, <1>5 DEF Fails
<1>7. /\ r.types = Retyped(s, h, f) /\ r.fault = s.fault
      /\ r.agg = Shifted(s.agg, g, f, n)
  BY <1>1, <1>4, <1>6 DEF TouchesType
<1>8. /\ TrackerOK(r) /\ r.blocks = s.blocks /\ DOMAIN r.types = DOMAIN s.types
      /\ \A x \in DOMAIN s.types : r.types[x].total = s.types[x].total
  BY DEF Touched
<1>9. \A B : SizeOf(r, B) = SizeOf(s, B)
  BY <1>8 DEF SizeOf, BlockSizes
<1>10. \A x : BlocksOf(r, x) = BlocksOf(s, x)
  BY <1>8 DEF BlocksOf
<1>11. \A x \in DOMAIN r.types : r.types[x].total = SizeOf(r, BlocksOf(r, x))
  BY <1>8, <1>9, <1>10 DEF Exact
<1>12. r.fault = "none"
  BY <1>7 DEF Exact
<1>13. \A x \in DOMAIN s.types : r.types[x].f = IF x = h THEN f ELSE s.types[x].f
  BY <1>7 DEF Retyped, TrackerOK
<1>14. \A a \in DOMAIN s.blocks :
          HotnessOf(r, a) = IF s.blocks[a].type = h THEN f ELSE HotnessOf(s, a)
  BY <1>8, <1>13, BlockHotness DEF HotnessOf
<1>15. s.agg[g] - n = w
  BY <1>2
<1>16. PICK A : A = [s.agg EXCEPT ![g] = w]
  OBVIOUS
<1>17. r.agg = [A EXCEPT ![f] = (A[f] + n) % SizeModulus]
  BY <1>7, <1>15, <1>16 DEF Shifted
<1>18. CASE f = g
  <2>1. A[f] = w
    BY <1>3, <1>16, <1>18
  <2>2. w + n = s.agg[g] /\ s.agg[g] \in 0..SizeModulus - 1
    BY <1>2, <1>3
  <2>3. (A[f] + n) % SizeModulus = s.agg[g]
    BY <2>1, <2>2, Small
  <2>4. r.agg = s.agg
    <3>1. r.agg = [A EXCEPT ![g] = s.agg[g]]
      BY <1>17, <1>18, <2>3
    <3> QED BY <1>3, <1>16, <3>1
  <2>5. \A a \in DOMAIN s.blocks : HotnessOf(r, a) = HotnessOf(s, a)
    BY <1>1, <1>14, <1>18 DEF HotnessOf
  <2>6. \A x : BlocksAt(r, x) = BlocksAt(s, x)
    BY <1>8, <2>5 DEF BlocksAt
  <2> QED BY <1>9, <1>11, <1>12, <2>4, <2>6 DEF Exact
<1>19. CASE f # g
  <2>1. A[f] = s.agg[f] /\ s.agg[f] = SizeOf(s, BlocksAt(s, f))
    BY <1>3, <1>16, <1>19 DEF Exact
  <2>2. BlocksAt(r, f) = BlocksAt(s, f) \cup BlocksOf(s, h)
    BY <1>8, <1>14 DEF BlocksAt, BlocksOf
  <2>3. BlocksAt(s, f) \cap BlocksOf(s, h) = {}
    BY <1>1, <1>19 DEF BlocksAt, BlocksOf, HotnessOf
  <2>4. BlocksAt(s, f) \subseteq DOMAIN s.blocks /\ BlocksOf(s, h) \subseteq DOMAIN s.blocks
        /\ BlocksAt(r, f) \subseteq DOMAIN s.blocks
    BY <1>8 DEF BlocksAt, BlocksOf
  <2>5. SizeOf(s, BlocksAt(r, f)) = SizeOf(s, BlocksAt(s, f)) + SizeOf(s, BlocksOf(s, h))
    BY <2>2, <2>3, <2>4, SizeUnion
  <2>6. n = SizeOf(s, BlocksOf(s, h))
    BY <1>1 DEF Exact
  <2>7. A[f] + n = SizeOf(s, BlocksAt(r, f))
    BY <2>1, <2>5, <2>6
  <2>8. SizeOf(s, BlocksAt(r, f)) \in 0..SizeModulus - 1
    BY <2>4, Room
  <2>9. (A[f] + n) % SizeModulus = SizeOf(s, BlocksAt(r, f))
    BY <2>7, <2>8, Small
  <2>10. r.agg = [A EXCEPT ![f] = SizeOf(s, BlocksAt(r, f))]
    BY <1>17, <2>9
  <2>11. r.agg[f] = SizeOf(r, BlocksAt(r, f))
    BY <1>3, <1>9, <1>16, <2>10
  <2>12. BlocksAt(r, g) = BlocksAt(s, g) \ BlocksOf(s, h)
    BY <1>8, <1>14, <1>19 DEF BlocksAt, BlocksOf
  <2>13. r.agg[g] = SizeOf(r, BlocksAt(r, g))
    BY <1>1, <1>3, <1>9, <1>16, <1>19, <2>10, <2>12
  <2>14. ASSUME NEW x \in Hotness, x # f, x # g PROVE r.agg[x] = SizeOf(r, BlocksAt(r, x))
    <3>1. r.agg[x] = s.agg[x]
      BY <1>3, <1>16, <2>10, <2>14
    <3>2. BlocksAt(r, x) = BlocksAt(s, x)
      BY <1>1, <1>8, <1>14, <2>14 DEF BlocksAt, HotnessOf
    <3> QED BY <1>9, <3>1, <3>2 DEF Exact
  <2>15. \A x \in Hotness : r.agg[x] = SizeOf(r, BlocksAt(r, x))
    BY <2>11, <2>13, <2>14
  <2> QED BY <1>11, <1>12, <2>15 DEF Exact
<1> QED BY <1>18, <1>19

-----------------------------------------------------------------------------
\* Events.

\* An event of post_alloc.
LEMMA CreateEvent ==
  ASSUME NEW e \in Creates
  PROVE  /\ \A a : Adds(e, a) <=> a = e.addr
         /\ \A a : ~Removes(e, a)
         /\ HashOf(e) = e.hash
         /\ \A s : Handle(s, e) = Registered(s, e.hash, e.addr, e.size, e.isHot)
         /\ e.hash \in AllHashes /\ e.addr \in Keys /\ e.size \in Sizes /\ e.isHot \in BOOLEAN
         /\ e.type = "CREATE_ADD"
<1>1. e.type = "CREATE_ADD" /\ e.hash \in AllHashes /\ e.addr \in Keys /\ e.size \in Sizes
      /\ e.isHot \in Tiers
  BY DEF Creates
<1> QED BY <1>1, TierAssumption DEF Adds, Removes, HashOf, Handle

\* An event of memtier_kind_free.
LEMMA DestroyEvent ==
  ASSUME NEW e \in Destroys
  PROVE  /\ \A a : ~Adds(e, a)
         /\ \A a : Removes(e, a) <=> a = e.addr
         /\ \A s : Handle(s, e) = UnregisterBlock(s, e.addr)
         /\ e.addr \in Keys
<1>1. e.type = "DESTROY_REMOVE" /\ e.addr \in Addrs
  BY DEF Destroys
<1> QED BY <1>1 DEF Adds, Removes, Handle, Keys

\* An event of memtier_kind_realloc.
LEMMA MoveEvent ==
  ASSUME NEW e \in Moves
  PROVE  /\ \A a : Adds(e, a) <=> a = e.new
         /\ \A a : Removes(e, a) <=> a = e.old
         /\ HashOf(e) = UnknownHash
         /\ \A s : Handle(s, e) = Registered(UnregisterBlock(s, e.old), UnknownHash, e.new,
                                             e.size, e.isHot)
         /\ e.old \in Keys /\ e.new \in Keys /\ e.size \in Sizes /\ e.isHot \in BOOLEAN
         /\ UnknownHash \in AllHashes /\ e.type = "REALLOC"
<1>1. e.type = "REALLOC" /\ e.old \in Addrs /\ e.new \in Keys /\ e.size \in Sizes
      /\ e.isHot \in Tiers
  BY DEF Moves
<1> QED BY <1>1, TierAssumption DEF Adds, Removes, HashOf, Handle, Keys, AllHashes

\* What a step of the tracker does to the blocks when it registers addr ...
Registers(s, r, hash, addr, isHot) ==
  /\ TrackerOK(r) /\ Covers(r)
  /\ DOMAIN r.blocks = DOMAIN s.blocks \cup {addr}
  /\ \A a \in DOMAIN s.blocks : r.blocks[a] = s.blocks[a]
  /\ addr \notin DOMAIN s.blocks => r.blocks[addr].type = hash /\ r.blocks[addr].isHot = isHot

\* register_block and register_block_in_ranking together.
LEMMA RegisteredEffect ==
  ASSUME NEW s, TrackerOK(s), Covers(s), NEW hash \in AllHashes, NEW addr \in Keys,
         NEW size \in Sizes, NEW isHot \in BOOLEAN,
         NEW r, r = Registered(s, hash, addr, size, isHot)
  PROVE  Registers(s, r, hash, addr, isHot)
<1>1. PICK m : m = RegisterBlock(s, hash, addr, size, isHot)
  OBVIOUS
<1>2. r = RegisterBlockInRanking(m, addr, size)
  BY <1>1 DEF Registered
<1>3. /\ TrackerOK(m) /\ DOMAIN m.blocks = DOMAIN s.blocks \cup {addr}
      /\ \A a \in DOMAIN s.blocks : m.blocks[a] = s.blocks[a]
      /\ addr \notin DOMAIN s.blocks => m.blocks[addr] = Block(hash, size, isHot)
  BY <1>1, RegisterEffect
<1>4. Covers(m)
  BY <1>1, RegisterCovers
<1>5. TrackerOK(r) /\ r.types = m.types /\ r.blocks = m.blocks
  BY <1>2, <1>3, RankEffect
<1>6. Covers(r)
  BY <1>4, <1>5, CoversKept
<1> QED BY <1>3, <1>5, <1>6 DEF Registers, Block

\* ... and when it unregisters it.
Unregisters(s, r, addr) ==
  /\ TrackerOK(r) /\ Covers(r)
  /\ DOMAIN r.blocks = DOMAIN s.blocks \ {addr}
  /\ \A a \in DOMAIN r.blocks : r.blocks[a] = s.blocks[a]

\* unregister_block, whether or not the block is there.
LEMMA UnregisteredEffect ==
  ASSUME NEW s, TrackerOK(s), Covers(s), NEW addr, NEW r, r = UnregisterBlock(s, addr)
  PROVE  Unregisters(s, r, addr)
<1>1. CASE addr \notin DOMAIN s.blocks
  <2>1. r = s
    BY <1>1 DEF UnregisterBlock
  <2> QED BY <1>1, <2>1 DEF Unregisters
<1>2. CASE addr \in DOMAIN s.blocks
  <2>1. PICK bl, h, f : bl = s.blocks[addr] /\ h = bl.type /\ f = s.types[h].f
    OBVIOUS
  <2>2. Unregistered(s, r, addr, bl, h)
    BY <1>2, <2>1, UnregisterEffect
  <2>3. Covers(r)
    BY <1>2, UnregisterCovers
  <2> QED BY <2>2, <2>3 DEF Unregisters, Unregistered, OneMore
<1> QED BY <1>1, <1>2

\* What the PEBS thread makes of event e.
Handles(s, r, e) ==
  /\ TrackerOK(r) /\ Covers(r)
  /\ \A a \in DOMAIN r.blocks : Adds(e, a) \/ (a \in DOMAIN s.blocks /\ ~Removes(e, a))
  /\ \A a \in DOMAIN s.blocks : ~Adds(e, a) /\ ~Removes(e, a)
                                  => a \in DOMAIN r.blocks /\ r.blocks[a] = s.blocks[a]
  /\ \A a \in Keys : Adds(e, a) /\ (a \notin DOMAIN s.blocks \/ Removes(e, a))
       => /\ a \in DOMAIN r.blocks
          /\ r.blocks[a].type = HashOf(e) /\ r.blocks[a].isHot = e.isHot
  /\ Cardinality(DOMAIN r.blocks) =< Cardinality(DOMAIN s.blocks) + 1
Fresh(s, e) == \A a \in DOMAIN s.blocks : Adds(e, a) => Removes(e, a)

\* The number of blocks.
LEMMA OneMoreAtMost ==
  ASSUME NEW s, TrackerOK(s), NEW r, TrackerOK(r), NEW a,
         DOMAIN r.blocks \subseteq DOMAIN s.blocks \cup {a}
  PROVE  Cardinality(DOMAIN r.blocks) =< Cardinality(DOMAIN s.blocks) + 1
<1>1. IsFiniteSet(DOMAIN s.blocks) /\ Cardinality(DOMAIN s.blocks) \in Nat
  BY Finite
<1>2. PICK U : U = DOMAIN s.blocks \cup {a}
  OBVIOUS
<1>3. IsFiniteSet(U) /\ Cardinality(U) =< Cardinality(DOMAIN s.blocks) + 1
  <2>1. CASE a \in DOMAIN s.blocks
    <3>1. U = DOMAIN s.blocks
      BY <1>2, <2>1
    <3> QED BY <1>1, <3>1
  <2>2. CASE a \notin DOMAIN s.blocks
    <3>1. IsFiniteSet(U) /\ Cardinality(U) = Cardinality(DOMAIN s.blocks) + 1
      BY <1>1, <1>2, <2>2, FS_AddElement
    <3> QED BY <1>1, <3>1
  <2> QED BY <2>1, <2>2
<1>4. Cardinality(DOMAIN r.blocks) =< Cardinality(U)
  BY <1>2, <1>3, FS_Subset
<1>5. Cardinality(U) \in Nat /\ Cardinality(DOMAIN r.blocks) \in Nat
  BY <1>3, Finite, FS_CardinalityType
<1> QED BY <1>1, <1>3, <1>4, <1>5

\* Every event, in any state of the tracker.
LEMMA HandleEffect ==
  ASSUME NEW s, TrackerOK(s), Covers(s), NEW e \in Event, NEW r, r = Handle(s, e)
  PROVE  Handles(s, r, e)
<1>1. CASE e \in Creates
  <2>1. r = Registered(s, e.hash, e.addr, e.size, e.isHot)
    BY <1>1, CreateEvent
  <2>2. Registers(s, r, e.hash, e.addr, e.isHot)
    BY <1>1, <2>1, CreateEvent, RegisteredEffect
  <2>3. Cardinality(DOMAIN r.blocks) =< Cardinality(DOMAIN s.blocks) + 1
    BY <2>2, OneMoreAtMost DEF Registers
  <2> QED BY <1>1, <2>2, <2>3, CreateEvent DEF Handles, Registers
<1>2. CASE e \in Destroys
  <2>1. Unregisters(s, r, e.addr)
    BY <1>2, DestroyEvent, UnregisteredEffect
  <2>2. Cardinality(DOMAIN r.blocks) =< Cardinality(DOMAIN s.blocks) + 1
    BY <2>1, OneMoreAtMost DEF Unregisters
  <2> QED BY <1>2, <2>1, <2>2, DestroyEvent DEF Handles, Unregisters
<1>3. CASE e \in Moves
  <2>1. PICK m : m = UnregisterBlock(s, e.old)
    OBVIOUS
  <2>2. r = Registered(m, UnknownHash, e.new, e.size, e.isHot)
    BY <1>3, <2>1, MoveEvent
  <2>3. Unregisters(s, m, e.old)
    BY <2>1, UnregisteredEffect
  <2>4. Registers(m, r, UnknownHash, e.new, e.isHot)
    BY <1>3, <2>2, <2>3, MoveEvent, RegisteredEffect DEF Unregisters
  <2>5. Cardinality(DOMAIN r.blocks) =< Cardinality(DOMAIN s.blocks) + 1
    BY <2>3, <2>4, OneMoreAtMost DEF Registers, Unregisters
  <2> QED BY <1>3, <2>3, <2>4, <2>5, MoveEvent DEF Handles, Registers, Unregisters
<1> QED BY <1>1, <1>2, <1>3 DEF Event

\* A fresh event keeps an exact tracker exact.
LEMMA HandleExact ==
  ASSUME NEW s, TrackerOK(s), Covers(s), Exact(s), NEW e \in Event, Fresh(s, e),
         NEW r, r = Handle(s, e), Cardinality(DOMAIN r.blocks) =< MaxOps
  PROVE  Exact(r)
<1>0. TrackerOK(r)
  BY HandleEffect DEF Handles
<1>1. CASE e \in Creates
  <2>1. r = Registered(s, e.hash, e.addr, e.size, e.isHot) /\ e.addr \notin DOMAIN s.blocks
    BY <1>1, CreateEvent DEF Fresh
  <2> QED BY <1>0, <1>1, <2>1, CreateEvent, RegisterExact
<1>2. CASE e \in Destroys
  <2>1. r = UnregisterBlock(s, e.addr)
    BY <1>2, DestroyEvent
  <2>2. CASE e.addr \in DOMAIN s.blocks
    BY <2>1, <2>2, UnregisterExact
  <2>3. CASE e.addr \notin DOMAIN s.blocks
    BY <2>1, <2>3 DEF UnregisterBlock
  <2> QED BY <2>2, <2>3
<1>3. CASE e \in Moves
  <2>1. PICK m : m = UnregisterBlock(s, e.old)
    OBVIOUS
  <2>2. r = Registered(m, UnknownHash, e.new, e.size, e.isHot)
    BY <1>3, <2>1, MoveEvent
  <2>3. Exact(m)
    <3>1. CASE e.old \in DOMAIN s.blocks
      BY <2>1, <3>1, UnregisterExact
    <3>2. CASE e.old \notin DOMAIN s.blocks
      BY <2>1, <3>2 DEF UnregisterBlock
    <3> QED BY <3>1, <3>2
  <2>4. TrackerOK(m) /\ DOMAIN m.blocks = DOMAIN s.blocks \ {e.old}
    BY <2>1, UnregisteredEffect DEF Unregisters
  <2>5. e.new \notin DOMAIN m.blocks
    BY <1>3, <2>4, MoveEvent DEF Fresh
  <2> QED BY <1>0, <1>3, <2>2, <2>3, <2>4, <2>5, MoveEvent, RegisterExact
<1> QED BY <1>1, <1>2, <1>3 DEF Event

-----------------------------------------------------------------------------
\* The queue.

\* Queue p is q with event e at its end; queue p is q without its first event.
Pushed(q, e, p) ==
  /\ Len(q) \in Nat /\ Len(p) = Len(q) + 1 /\ p[Len(q) + 1] = e
  /\ \A i \in 1..Len(q) : p[i] = q[i]
Popped(q, p) ==
  /\ Len(q) \in Nat /\ Len(q) > 0 /\ Len(p) = Len(q) - 1
  /\ \A i \in 1..Len(p) : p[i] = q[i + 1]

\* The queue after a push ...
LEMMA AppendPushed ==
  ASSUME NEW q \in Seq(Event), NEW e \in Event
  PROVE  Pushed(q, e, Append(q, e)) /\ Append(q, e) \in Seq(Event)
BY DEF Pushed

\* ... and after a pop.
LEMMA TailPopped ==
  ASSUME NEW q \in Seq(Event), q # <<>>
  PROVE  Popped(q, Tail(q)) /\ Tail(q) \in Seq(Event) /\ Head(q) = q[1] /\ q[1] \in Event
         /\ Len(Tail(q)) = Len(q) - 1 /\ Len(q) \in Nat
BY DEF Popped

\* An address that is to be gone stays so when other addresses are
\* registered, ...
LEMMA GonePush ==
  ASSUME NEW q, NEW e, NEW p, Pushed(q, e, p), NEW B, NEW a, Gone(q, B, a), ~Adds(e, a)
  PROVE  Gone(p, B, a)
<1>1. PICK n : n = Len(q)
  OBVIOUS
<1>2. n \in Nat /\ Len(p) = n + 1 /\ p[n + 1] = e /\ \A i \in 1..n : p[i] = q[i]
  BY <1>1 DEF Pushed
<1>3. /\ \A i \in 1..n : Adds(q[i], a) => \E k \in 1..n : i < k /\ Removes(q[k], a)
      /\ a \in DOMAIN B => \E k \in 1..n : Removes(q[k], a)
  BY <1>1 DEF Gone
<1>4. ASSUME NEW i \in 1..n + 1, Adds(p[i], a)
      PROVE  \E k \in 1..n + 1 : i < k /\ Removes(p[k], a)
  <2>1. i # n + 1
    BY <1>2, <1>4
  <2>2. i \in 1..n
    BY <1>2, <2>1
  <2>3. PICK k \in 1..n : i < k /\ Removes(q[k], a)
    BY <1>2, <1>3, <1>4, <2>2
  <2>4. k \in 1..n + 1 /\ Removes(p[k], a)
    BY <1>2, <2>3
  <2> QED BY <2>3, <2>4
<1>5. ASSUME a \in DOMAIN B PROVE \E k \in 1..n + 1 : Removes(p[k], a)
  <2>1. PICK k \in 1..n : Removes(q[k], a)
    BY <1>3, <1>5
  <2>2. k \in 1..n + 1 /\ Removes(p[k], a)
    BY <1>2, <2>1
  <2> QED BY <2>2
<1> QED BY <1>2, <1>4, <1>5 DEF Gone

\* ... an address the last event removes is to be gone, ...
LEMMA GoneRemoved ==
  ASSUME NEW q, NEW e, NEW p, Pushed(q, e, p), NEW B, NEW a, Removes(e, a), ~Adds(e, a)
  PROVE  Gone(p, B, a)
<1>1. PICK n : n = Len(q)
  OBVIOUS
<1>2. n \in Nat /\ Len(p) = n + 1 /\ p[n + 1] = e
  BY <1>1 DEF Pushed
<1>3. n + 1 \in 1..n + 1 /\ Removes(p[n + 1], a)
  BY <1>2
<1>4. ASSUME NEW i \in 1..n + 1, Adds(p[i], a) PROVE i < n + 1
  BY <1>2, <1>4
<1> QED BY <1>2, <1>3, <1>4 DEF Gone

\* ... and applying an event changes nothing.
LEMMA GonePop ==
  ASSUME NEW q, NEW p, Popped(q, p), NEW s, NEW r, Handles(s, r, q[1]),
         NEW a, Gone(q, s.blocks, a)
  PROVE  Gone(p, r.blocks, a)
<1>1. PICK n : n = Len(q)
  OBVIOUS
<1>2. n \in Nat /\ n > 0 /\ Len(p) = n - 1 /\ \A i \in 1..n - 1 : p[i] = q[i + 1]
  BY <1>1 DEF Popped
<1>3. /\ \A i \in 1..n : Adds(q[i], a) => \E k \in 1..n : i < k /\ Removes(q[k], a)
      /\ a \in DOMAIN s.blocks => \E k \in 1..n : Removes(q[k], a)
  BY <1>1 DEF Gone
<1>4. ASSUME NEW k \in 1..n, k # 1, Removes(q[k], a)
      PROVE  k - 1 \in 1..n - 1 /\ Removes(p[k - 1], a)
  <2>1. k - 1 \in 1..n - 1 /\ (k - 1) + 1 = k
    BY <1>2, <1>4
  <2>2. p[k - 1] = q[(k - 1) + 1]
    BY <1>2, <2>1
  <2> QED BY <1>4, <2>1, <2>2
<1>5. ASSUME NEW i \in 1..n - 1, Adds(p[i], a)
      PROVE  \E k \in 1..n - 1 : i < k /\ Removes(p[k], a)
  <2>1. i + 1 \in 1..n /\ Adds(q[i + 1], a)
    BY <1>2, <1>5
  <2>2. PICK k \in 1..n : i + 1 < k /\ Removes(q[k], a)
    BY <1>3, <2>1
  <2>3. k # 1 /\ i < k - 1
    BY <1>2, <2>2
  <2>4. k - 1 \in 1..n - 1 /\ Removes(p[k - 1], a)
    BY <1>4, <2>2, <2>3
  <2> QED BY <2>3, <2>4
<1>6. ASSUME a \in DOMAIN r.blocks PROVE \E k \in 1..n - 1 : Removes(p[k], a)
  <2>1. Adds(q[1], a) \/ (a \in DOMAIN s.blocks /\ ~Removes(q[1], a))
    BY <1>6 DEF Handles
  <2>2. PICK k \in 1..n : k # 1 /\ Removes(q[k], a)
    <3>1. CASE Adds(q[1], a)
      <4>1. 1 \in 1..n
        BY <1>2
      <4>2. PICK k \in 1..n : 1 < k /\ Removes(q[k], a)
        BY <1>3, <3>1, <4>1
      <4>3. k # 1
        BY <4>2
      <4> QED BY <4>2, <4>3
    <3>2. CASE a \in DOMAIN s.blocks /\ ~Removes(q[1], a)
      BY <1>3, <3>2
    <3> QED BY <2>1, <3>1, <3>2
  <2> QED BY <1>4, <2>2
<1> QED BY <1>2, <1>5, <1>6 DEF Gone

\* No event registers what is registered: an event that is pushed either
\* removes the address it registers or finds it gone, ...
LEMMA AlternatePush ==
  ASSUME NEW q, NEW e, NEW p, Pushed(q, e, p), NEW B, Alternate(q, B),
         DOMAIN B \subseteq Keys,
         \A a \in Keys : Adds(e, a) => Removes(e, a) \/ Gone(q, B, a)
  PROVE  Alternate(p, B)
<1>1. PICK n : n = Len(q)
  OBVIOUS
<1>2. n \in Nat /\ Len(p) = n + 1 /\ p[n + 1] = e /\ \A i \in 1..n : p[i] = q[i]
  BY <1>1 DEF Pushed
<1>3. /\ \A i, j \in 1..n : \A a \in Keys :
           i < j /\ Adds(q[i], a) /\ Adds(q[j], a)
             => \E k \in 1..n : i < k /\ k =< j /\ Removes(q[k], a)
      /\ \A j \in 1..n : \A a \in DOMAIN B :
           Adds(q[j], a) => \E k \in 1..n : k =< j /\ Removes(q[k], a)
  BY <1>1 DEF Alternate
<1>4. ASSUME NEW k \in 1..n, NEW a, Removes(q[k], a) PROVE k \in 1..n + 1 /\ Removes(p[k], a)
  BY <1>2, <1>4
<1>5. ASSUME NEW i \in 1..n + 1, NEW j \in 1..n + 1, NEW a \in Keys,
             i < j, Adds(p[i], a), Adds(p[j], a)
      PROVE  \E k \in 1..n + 1 : i < k /\ k =< j /\ Removes(p[k], a)
  <2>1. i \in 1..n /\ Adds(q[i], a)
    BY <1>2, <1>5
  <2>2. CASE j = n + 1
    <3>1. CASE Removes(e, a)
      BY <1>2, <1>5, <2>2, <3>1
    <3>2. CASE Gone(q, B, a)
      <4>1. PICK k \in 1..n : i < k /\ Removes(q[k], a)
        BY <1>1, <2>1, <3>2 DEF Gone
      <4>2. k =< j
        BY <1>2, <2>2
      <4> QED BY <1>4, <4>1, <4>2
    <3>3. Adds(e, a)
      BY <1>2, <1>5, <2>2
    <3> QED BY <3>1, <3>2, <3>3
  <2>3. CASE j # n + 1
    <3>1. j \in 1..n /\ Adds(q[j], a)
      BY <1>2, <1>5, <2>3
    <3>2. PICK k \in 1..n : i < k /\ k =< j /\ Removes(q[k], a)
      BY <1>3, <1>5, <2>1, <3>1
    <3> QED BY <1>4, <3>2
  <2> QED BY <2>2, <2>3
<1>6. ASSUME NEW j \in 1..n + 1, NEW a \in DOMAIN B, Adds(p[j], a)
      PROVE  \E k \in 1..n + 1 : k =< j /\ Removes(p[k], a)
  <2>1. CASE j = n + 1
    <3>1. CASE Removes(e, a)
      BY <1>2, <2>1, <3>1
    <3>2. CASE Gone(q, B, a)
      <4>1. PICK k \in 1..n : Removes(q[k], a)
        BY <1>1, <3>2 DEF Gone
      <4>2. k =< j
        BY <1>2, <2>1
      <4> QED BY <1>4, <4>1, <4>2
    <3>3. Adds(e, a)
      BY <1>2, <1>6, <2>1
    <3> QED BY <3>1, <3>2, <3>3
  <2>2. CASE j # n + 1
    <3>1. j \in 1..n /\ Adds(q[j], a)
      BY <1>2, <1>6, <2>2
    <3>2. PICK k \in 1..n : k =< j /\ Removes(q[k], a)
      BY <1>3, <3>1
    <3> QED BY <1>4, <3>2
  <2> QED BY <2>1, <2>2
<1> QED BY <1>2, <1>5, <1>6 DEF Alternate

\* ... and the first event registers an address that is free.
LEMMA FreshHead ==
  ASSUME NEW q, NEW s, Alternate(q, s.blocks), Len(q) \in Nat, Len(q) > 0
  PROVE  Fresh(s, q[1])
<1>1. ASSUME NEW a \in DOMAIN s.blocks, Adds(q[1], a) PROVE Removes(q[1], a)
  <2>1. 1 \in 1..Len(q)
    OBVIOUS
  <2>2. PICK k \in 1..Len(q) : k =< 1 /\ Removes(q[k], a)
    BY <1>1, <2>1 DEF Alternate
  <2>3. k = 1
    BY <2>2
  <2> QED BY <2>2, <2>3
<1> QED BY <1>1 DEF Fresh

\* Adds and removes of an address still alternate after a pop.
LEMMA AlternatePop ==
  ASSUME NEW q, NEW p, Popped(q, p), NEW s, NEW r, Handles(s, r, q[1]),
         Alternate(q, s.blocks), DOMAIN r.blocks \subseteq Keys
  PROVE  Alternate(p, r.blocks)
<1>1. PICK n : n = Len(q)
  OBVIOUS
<1>2. n \in Nat /\ n > 0 /\ Len(p) = n - 1 /\ \A i \in 1..n - 1 : p[i] = q[i + 1]
  BY <1>1 DEF Popped
<1>3. /\ \A i, j \in 1..n : \A a \in Keys :
           i < j /\ Adds(q[i], a) /\ Adds(q[j], a)
             => \E k \in 1..n : i < k /\ k =< j /\ Removes(q[k], a)
      /\ \A j \in 1..n : \A a \in DOMAIN s.blocks :
           Adds(q[j], a) => \E k \in 1..n : k =< j /\ Removes(q[k], a)
  BY <1>1 DEF Alternate
<1>4. ASSUME NEW k \in 1..n, NEW a, k # 1, Removes(q[k], a)
      PROVE  k - 1 \in 1..n - 1 /\ Removes(p[k - 1], a)
  <2>1. k - 1 \in 1..n - 1 /\ (k - 1) + 1 = k
    BY <1>2, <1>4
  <2>2. p[k - 1] = q[(k - 1) + 1]
    BY <1>2, <2>1
  <2> QED BY <1>4, <2>1, <2>2
<1>5. ASSUME NEW i \in 1..n - 1, NEW j \in 1..n - 1, NEW a \in Keys,
             i < j, Adds(p[i], a), Adds(p[j], a)
      PROVE  \E k \in 1..n - 1 : i < k /\ k =< j /\ Removes(p[k], a)
  <2>1. i + 1 \in 1..n /\ j + 1 \in 1..n /\ i + 1 < j + 1
        /\ Adds(q[i + 1], a) /\ Adds(q[j + 1], a)
    BY <1>2, <1>5
  <2>2. PICK k \in 1..n : i + 1 < k /\ k =< j + 1 /\ Removes(q[k], a)
    BY <1>3, <2>1
  <2>3. k # 1 /\ i < k - 1 /\ k - 1 =< j
    BY <1>2, <2>2
  <2>4. k - 1 \in 1..n - 1 /\ Removes(p[k - 1], a)
    BY <1>4, <2>2, <2>3
  <2> QED BY <2>3, <2>4
<1>6. ASSUME NEW j \in 1..n - 1, NEW a \in DOMAIN r.blocks, Adds(p[j], a)
      PROVE  \E k \in 1..n - 1 : k =< j /\ Removes(p[k], a)
  <2>1. 1 \in 1..n /\ j + 1 \in 1..n /\ 1 < j + 1 /\ Adds(q[j + 1], a) /\ a \in Keys
    BY <1>2, <1>6
  <2>2. Adds(q[1], a) \/ (a \in DOMAIN s.blocks /\ ~Removes(q[1], a))
    BY DEF Handles
  <2>3. PICK k \in 1..n : k # 1 /\ k =< j + 1 /\ Removes(q[k], a)
    <3>1. CASE Adds(q[1], a)
      <4>1. PICK k \in 1..n : 1 < k /\ k =< j + 1 /\ Removes(q[k], a)
        BY <1>3, <2>1, <3>1
      <4>2. k # 1
        BY <4>1
      <4> QED BY <4>1, <4>2
    <3>2. CASE a \in DOMAIN s.blocks /\ ~Removes(q[1], a)
      <4>1. PICK k \in 1..n : k =< j + 1 /\ Removes(q[k], a)
        BY <1>3, <2>1, <3>2
      <4>2. k # 1
        BY <3>2, <4>1
      <4> QED BY <4>1, <4>2
    <3> QED BY <2>2, <3>1, <3>2
  <2>4. k - 1 =< j
    BY <1>2, <2>3
  <2>5. k - 1 \in 1..n - 1 /\ Removes(p[k - 1], a)
    BY <1>4, <2>3
  <2> QED BY <2>4, <2>5
<1> QED BY <1>2, <1>5, <1>6 DEF Alternate

\* A block that is to be registered stays so when events about other addresses
\* are pushed, is to be registered after the event that registers it, and stays
\* so when an event is applied.
LEMMA HerePush ==
  ASSUME NEW q, NEW e, NEW p, Pushed(q, e, p), NEW B, NEW a, NEW x, Here(q, B, a, x),
         ~Adds(e, a), ~Removes(e, a)
  PROVE  Here(p, B, a, x)
<1>1. PICK n : n = Len(q)
  OBVIOUS
<1>2. n \in Nat /\ Len(p) = n + 1 /\ p[n + 1] = e /\ \A i \in 1..n : p[i] = q[i]
  BY <1>1 DEF Pushed
<1>3. CASE \E i \in 1..n :
             /\ Adds(q[i], a) /\ HashOf(q[i]) = x.hash /\ q[i].isHot = x.hot
             /\ \A k \in 1..n : i < k => ~Adds(q[k], a) /\ ~Removes(q[k], a)
  <2>1. PICK i \in 1..n :
             /\ Adds(q[i], a) /\ HashOf(q[i]) = x.hash /\ q[i].isHot = x.hot
             /\ \A k \in 1..n : i < k => ~Adds(q[k], a) /\ ~Removes(q[k], a)
    BY <1>3
  <2>2. i \in 1..n + 1 /\ p[i] = q[i]
    BY <1>2
  <2>3. ASSUME NEW k \in 1..n + 1, i < k PROVE ~Adds(p[k], a) /\ ~Removes(p[k], a)
    <3>1. CASE k = n + 1
      BY <1>2, <3>1
    <3>2. CASE k # n + 1
      <4>1. k \in 1..n
        BY <1>2, <3>2
      <4> QED BY <1>2, <2>1, <2>3, <4>1
    <3> QED BY <3>1, <3>2
  <2> QED BY <1>2, <2>1, <2>2, <2>3 DEF Here
<1>4. CASE /\ \A k \in 1..n : ~Adds(q[k], a) /\ ~Removes(q[k], a)
           /\ a \in DOMAIN B /\ B[a].type = x.hash /\ B[a].isHot = x.hot
  <2>1. ASSUME NEW k \in 1..n + 1 PROVE ~Adds(p[k], a) /\ ~Removes(p[k], a)
    <3>1. CASE k = n + 1
      BY <1>2, <3>1
    <3>2. CASE k # n + 1
      <4>1. k \in 1..n
        BY <1>2, <3>2
      <4> QED BY <1>2, <1>4, <4>1
    <3> QED BY <3>1, <3>2
  <2> QED BY <1>2, <1>4, <2>1 DEF Here
<1> QED BY <1>1, <1>3, <1>4 DEF Here

\* The block that the pushed event adds is registered by it.
LEMMA HereAdded ==
  ASSUME NEW q, NEW e, NEW p, Pushed(q, e, p), NEW B, NEW a, NEW x,
         Adds(e, a), HashOf(e) = x.hash, e.isHot = x.hot
  PROVE  Here(p, B, a, x)
<1>1. Len(p) \in Nat /\ Len(p) \in 1..Len(p) /\ p[Len(p)] = e
  BY DEF Pushed
<1>2. \A k \in 1..Len(p) : ~(Len(p) < k)
  BY <1>1
<1> QED BY <1>1, <1>2 DEF Here

\* What the queue registers it still registers after its head is applied.
LEMMA HerePop ==
  ASSUME NEW q, NEW p, Popped(q, p), NEW s, NEW r, Handles(s, r, q[1]), Fresh(s, q[1]),
         NEW a \in Keys, NEW x, Here(q, s.blocks, a, x)
  PROVE  Here(p, r.blocks, a, x)
<1>1. PICK n : n = Len(q)
  OBVIOUS
<1>2. n \in Nat /\ n > 0 /\ Len(p) = n - 1 /\ \A i \in 1..n - 1 : p[i] = q[i + 1]
  BY <1>1 DEF Popped
<1>3. CASE \E i \in 1..n :
             /\ Adds(q[i], a) /\ HashOf(q[i]) = x.hash /\ q[i].isHot = x.hot
             /\ \A k \in 1..n : i < k => ~Adds(q[k], a) /\ ~Removes(q[k], a)
  <2>1. PICK i \in 1..n :
             /\ Adds(q[i], a) /\ HashOf(q[i]) = x.hash /\ q[i].isHot = x.hot
             /\ \A k \in 1..n : i < k => ~Adds(q[k], a) /\ ~Removes(q[k], a)
    BY <1>3
  <2>2. ASSUME NEW k \in 1..n - 1, i < k + 1 PROVE ~Adds(p[k], a) /\ ~Removes(p[k], a)
    <3>1. k + 1 \in 1..n /\ p[k] = q[k + 1]
      BY <1>2
    <3> QED BY <2>1, <2>2, <3>1
  <2>3. CASE i = 1
    <3>1. a \notin DOMAIN s.blocks \/ Removes(q[1], a)
      BY <2>1, <2>3 DEF Fresh
    <3>2. a \in DOMAIN r.blocks /\ r.blocks[a].type = HashOf(q[1])
          /\ r.blocks[a].isHot = q[1].isHot
      BY <2>1, <2>3, <3>1 DEF Handles
    <3>3. \A k \in 1..n - 1 : ~Adds(p[k], a) /\ ~Removes(p[k], a)
      BY <1>2, <2>2, <2>3
    <3> QED BY <1>2, <2>1, <2>3, <3>2, <3>3 DEF Here
  <2>4. CASE i # 1
    <3>1. i - 1 \in 1..n - 1 /\ (i - 1) + 1 = i
      BY <1>2, <2>4
    <3>2. p[i - 1] = q[i]
      <4>1. p[i - 1] = q[(i - 1) + 1]
        BY <1>2, <3>1
      <4> QED BY <3>1, <4>1
    <3>3. \A k \in 1..n - 1 : i - 1 < k => ~Adds(p[k], a) /\ ~Removes(p[k], a)
      BY <1>2, <2>2
    <3> QED BY <1>2, <2>1, <3>1, <3>2, <3>3 DEF Here
  <2> QED BY <2>3, <2>4
<1>4. CASE /\ \A k \in 1..n : ~Adds(q[k], a) /\ ~Removes(q[k], a)
           /\ a \in DOMAIN s.blocks /\ s.blocks[a].type = x.hash /\ s.blocks[a].isHot = x.hot
  <2>1. 1 \in 1..n /\ \A k \in 1..n - 1 : k + 1 \in 1..n
    BY <1>2
  <2>2. a \in DOMAIN r.blocks /\ r.blocks[a] = s.blocks[a]
    BY <1>4, <2>1 DEF Handles
  <2>3. \A k \in 1..n - 1 : ~Adds(p[k], a) /\ ~Removes(p[k], a)
    BY <1>2, <1>4, <2>1
  <2> QED BY <1>2, <1>4, <2>2, <2>3 DEF Here
<1> QED BY <1>1, <1>3, <1>4 DEF Here

-----------------------------------------------------------------------------
\* The types.

\* The forms of the calls.
LEMMA CallForms ==
  ASSUME TypesOK, NEW t \in Threads
  PROVE  /\ call[t].op = "push" => call[t].addr \in Keys /\ call[t].event \in Creates \cup Moves
         /\ call[t].op = "free" => call[t].addr \in Addrs
         /\ call[t].op = "malloc" => call[t].addr = NULL /\ call[t].len \in Sizes
                                     /\ call[t].hot \in Tiers
         /\ Busy(t) <=> call[t].op # "none"
         /\ call[t].op \in {"none", "push", "free", "malloc"}
<1>1. CASE call[t] = Idle
  BY <1>1 DEF Idle, Busy
<1>2. CASE call[t] \in PushCalls
  BY <1>2 DEF PushCalls, Idle, Busy
<1>3. CASE call[t] \in FreeCalls
  BY <1>3 DEF FreeCalls, Idle, Busy
<1>4. CASE call[t] \in MallocCalls
  BY <1>4 DEF MallocCalls, Idle, Busy
<1> QED BY <1>1, <1>2, <1>3, <1>4 DEF TypesOK, Calls

\* A free extent does not begin where a block does.
LEMMA FitsFree ==
  ASSUME TypesOK, NEW S, S \subseteq DOMAIN heap, NEW a \in Addrs, NEW m \in Nat \ {0},
         Fits(a, m, S)
  PROVE  a \notin S
<1> SUFFICES ASSUME a \in S PROVE FALSE
  OBVIOUS
<1>1. PICK n : n = heap[a].len
  OBVIOUS
<1>2. n \in Nat \ {0} /\ a \in Nat
  BY <1>1, HeapAssumption DEF TypesOK, Addrs, Extents
<1>3. a < a + n /\ a < a + m
  BY <1>2
<1>4. ~Overlap(a, m, a, n)
  BY <1>1 DEF Fits
<1> QED BY <1>3, <1>4 DEF Overlap

\* Blocks that come and go.
LEMMA HeapPut ==
  ASSUME NEW D, D \subseteq Addrs,
         NEW G \in [D -> Extents], NEW a \in Addrs, NEW x \in Extents
  PROVE  /\ DOMAIN Put(G, a, x) = D \cup {a} /\ DOMAIN Put(G, a, x) \subseteq Addrs
         /\ Put(G, a, x) \in [DOMAIN Put(G, a, x) -> Extents]
         /\ Put(G, a, x)[a] = x /\ \A b \in D : b # a => Put(G, a, x)[b] = G[b]
BY DEF Put

\* The heap without a block.
LEMMA HeapDrop ==
  ASSUME TypesOK, NEW a
  PROVE  /\ DOMAIN Drop(a) = DOMAIN heap \ {a} /\ DOMAIN Drop(a) \subseteq Addrs
         /\ Drop(a) \in [DOMAIN Drop(a) -> Extents]
         /\ \A b \in DOMAIN Drop(a) : Drop(a)[b] = heap[b]
BY DEF Drop, Without, TypesOK

\* Types of the records the calls make.
LEMMA ExtentTypes ==
  ASSUME NEW len \in Nat \ {0}, NEW hash \in AllHashes, NEW hot \in Tiers
  PROVE  Extent(len, hash, hot) \in Extents
BY DEF Extent, Extents

\* Types of the events of an allocation and a reallocation ...
LEMMA EventTypes ==
  ASSUME NEW size \in Sizes, NEW hot \in Tiers, NEW a \in Keys
  PROVE  /\ \A hash \in AllHashes : Create(hash, a, size, hot) \in Creates
         /\ \A b \in Addrs : Realloc(b, a, size, hot) \in Moves
BY DEF Create, Realloc, Creates, Moves

\* ... and of a free.
LEMMA DestroyType == ASSUME NEW a \in Addrs PROVE Destroy(a) \in Destroys
BY DEF Destroy, Destroys

\* A call is entered or left.
LEMMA CallChange ==
  ASSUME TypesOK, NEW t \in Threads, NEW c \in Calls, call' = [call EXCEPT ![t] = c]
  PROVE  /\ call' \in [Threads -> Calls] /\ call'[t] = c
         /\ \A u \in Threads : u # t => call'[u] = call[u]
BY DEF TypesOK

\* What a push may do: the event is lost, and then the run is no longer clean.
LEMMA PushEffect ==
  ASSUME TypesOK, NEW e \in Event, NEW sound \in BOOLEAN, Push(e, sound)
  PROVE  /\ queue' \in Seq(Event) /\ clean' \in BOOLEAN
         /\ queue' = queue \/ Pushed(queue, e, queue')
         /\ clean' => clean /\ sound /\ Pushed(queue, e, queue')
         /\ Len(queue') =< Len(queue) + 1 /\ Len(queue) \in Nat /\ Len(queue') \in Nat
<1>1. queue \in Seq(Event) /\ clean \in BOOLEAN
  BY DEF TypesOK
<1>2. CASE queue' = Append(queue, e) /\ clean' = (clean /\ sound)
  <2>1. Pushed(queue, e, queue') /\ queue' \in Seq(Event)
    BY <1>1, <1>2, AppendPushed
  <2>2. Len(queue') =< Len(queue) + 1 /\ Len(queue) \in Nat /\ Len(queue') \in Nat
    BY <2>1 DEF Pushed
  <2>3. clean' \in BOOLEAN
    BY <1>1, <1>2
  <2> QED BY <1>2, <2>1, <2>2, <2>3
<1>3. CASE queue' = queue /\ clean' = FALSE
  <2>1. Len(queue) \in Nat
    BY <1>1
  <2>2. Len(queue) =< Len(queue) + 1
    BY <2>1
  <2> QED BY <1>1, <1>3, <2>1, <2>2
<1> QED BY <1>2, <1>3 DEF Push

\* The calls a thread may be inside.
LEMMA PushCallType ==
  ASSUME NEW a \in Keys, NEW e \in Creates \cup Moves
  PROVE  [op |-> "push", addr |-> a, event |-> e] \in Calls
BY DEF Calls, PushCalls

\* The calls that push no event when they return.
LEMMA OtherCallTypes ==
  /\ Idle \in Calls
  /\ \A a \in Addrs : [op |-> "free", addr |-> a] \in Calls
  /\ \A size \in Sizes, hot \in Tiers :
       [op |-> "malloc", addr |-> NULL, len |-> size, hot |-> hot] \in Calls
BY DEF Calls, FreeCalls, MallocCalls

\* malloc and calloc: a block x at a, and the call that will push event e.
Allocates(t, a, x, e) ==
  /\ call[t] = Idle /\ a \in Addrs /\ a \notin DOMAIN heap /\ x \in Extents
  /\ e \in Creates /\ e.addr = a /\ e.hash = x.hash /\ e.isHot = x.hot
  /\ heap' = Put(heap, a, x)
  /\ call' = [call EXCEPT ![t] = [op |-> "push", addr |-> a, event |-> e]]
  /\ clean' = (clean /\ a \notin Released)
  /\ ops < MaxOps /\ ops' = ops + 1
  /\ UNCHANGED <<queue, tk>>

\* memtier_malloc and memtier_calloc allocate.
LEMMA MallocAllocates ==
  ASSUME TypesOK, NEW t \in Threads, Malloc(t) \/ Calloc(t)
  PROVE  \E a, x, e : Allocates(t, a, x, e)
<1>1. PICK hash \in Hashes, size \in Sizes, hot \in Tiers, a \in Addrs,
           len \in Nat \ {0} :
        /\ Fits(a, len, DOMAIN heap)
        /\ heap' = Put(heap, a, Extent(len, hash, hot))
        /\ clean' = (clean /\ a \notin Released)
        /\ call' = [call EXCEPT ![t] = [op |-> "push", addr |-> a,
                                        event |-> Create(hash, a, size, hot)]]
  <2>1. \A z \in Sizes : z \in Nat \ {0} /\ 2 * z \in Nat \ {0}
    BY SizesPositive
  <2>2. CASE Malloc(t)
    BY <2>1, <2>2 DEF Malloc, Enter
  <2>3. CASE Calloc(t)
    BY <2>1, <2>3 DEF Calloc, Enter
  <2> QED BY <2>2, <2>3
<1>2. call[t] = Idle /\ ops < MaxOps /\ ops' = ops + 1 /\ UNCHANGED <<queue, tk>>
  BY DEF Malloc, Calloc, Begin
<1>4. hash \in AllHashes /\ a \in Keys
  BY DEF AllHashes, Keys
<1>5. PICK x, e : x = Extent(len, hash, hot) /\ e = Create(hash, a, size, hot)
  OBVIOUS
<1>6. x \in Extents /\ e \in Creates
  BY <1>4, <1>5, ExtentTypes, EventTypes
<1>7. e.addr = a /\ e.hash = x.hash /\ e.isHot = x.hot
  BY <1>5 DEF Create, Extent
<1>8. a \notin DOMAIN heap
  BY <1>1, FitsFree
<1>9. Allocates(t, a, x, e)
  BY <1>1, <1>2, <1>5, <1>6, <1>7, <1>8 DEF Allocates
<1> QED BY <1>9

\* realloc: block a becomes block x at b.
Reallocates(t, a, b, x, e) ==
  /\ call[t] = Idle /\ a \in Owned /\ b \in Addrs /\ (b = a \/ b \notin DOMAIN heap)
  /\ x \in Extents /\ x.hash = UnknownHash
  /\ e \in Moves /\ e.old = a /\ e.new = b /\ e.isHot = x.hot
  /\ heap' = Put(Drop(a), b, x)
  /\ call' = [call EXCEPT ![t] = [op |-> "push", addr |-> b, event |-> e]]
  /\ clean' = (clean /\ b \notin Released)
  /\ ops < MaxOps /\ ops' = ops + 1
  /\ UNCHANGED <<queue, tk>>

\* The blocks an application may pass to a call are live.
LEMMA OwnedLive == TypesOK => Owned \subseteq DOMAIN heap /\ Owned \subseteq Addrs
BY DEF Owned, TypesOK

\* memtier_kind_realloc reallocates.
LEMMA ReallocReallocates ==
  ASSUME TypesOK, NEW t \in Threads, ReallocBlock(t)
  PROVE  \E a, b, x, e : Reallocates(t, a, b, x, e)
<1>1. PICK a \in Owned, size \in Sizes, b \in Addrs :
        /\ Fits(b, size, IF b = a THEN DOMAIN heap \ {a} ELSE DOMAIN heap)
        /\ heap' = Put(Drop(a), b, Extent(size, UnknownHash, heap[a].hot))
        /\ clean' = (clean /\ b \notin Released)
        /\ call' = [call EXCEPT ![t] = [op |-> "push", addr |-> b,
                                        event |-> Realloc(a, b, size, heap[a].hot)]]
  BY DEF ReallocBlock, Enter
<1>2. call[t] = Idle /\ ops < MaxOps /\ ops' = ops + 1 /\ UNCHANGED <<queue, tk>>
  BY DEF ReallocBlock, Begin
<1>3. size \in Nat \ {0}
  BY SizesPositive
<1>4. UnknownHash \in AllHashes /\ b \in Keys /\ a \in Addrs /\ a \in DOMAIN heap
  BY OwnedLive DEF AllHashes, Keys
<1>5. heap[a].hot \in Tiers
  BY <1>4 DEF TypesOK, Extents
<1>6. PICK x, e : x = Extent(size, UnknownHash, heap[a].hot) /\ e = Realloc(a, b, size, heap[a].hot)
  OBVIOUS
<1>7. x \in Extents /\ e \in Moves
  BY <1>3, <1>4, <1>5, <1>6, ExtentTypes, EventTypes
<1>8. e.old = a /\ e.new = b /\ x.hash = UnknownHash /\ e.isHot = x.hot
  BY <1>6 DEF Realloc, Extent
<1>9. b = a \/ b \notin DOMAIN heap
  BY <1>1, <1>3, FitsFree
<1>10. Reallocates(t, a, b, x, e)
  BY <1>1, <1>2, <1>6, <1>7, <1>8, <1>9 DEF Reallocates
<1> QED BY <1>10

\* A call that will push an event about NULL.
Misreports(t, a, e) ==
  /\ call[t] = Idle /\ a \in {NULL} \cup Owned /\ e \in Creates \cup Moves
  /\ call' = [call EXCEPT ![t] = [op |-> "push", addr |-> a, event |-> e]]
  /\ clean' = FALSE /\ ops < MaxOps /\ ops' = ops + 1
  /\ UNCHANGED <<heap, queue, tk>>

\* Allocations that fail misreport.
LEMMA FailsMisreports ==
  ASSUME TypesOK, NEW t \in Threads, MallocFails(t) \/ ReallocFails(t)
  PROVE  \E a, e : Misreports(t, a, e)
<1>1. CASE MallocFails(t)
  <2>1. PICK hash \in Hashes, size \in Sizes, hot \in Tiers :
          call' = [call EXCEPT ![t] = [op |-> "push", addr |-> NULL,
                                       event |-> Create(hash, NULL, size, hot)]]
    BY <1>1 DEF MallocFails, Enter
  <2>2. PICK e : e = Create(hash, NULL, size, hot)
    OBVIOUS
  <2>3. NULL \in Keys /\ hash \in AllHashes
    BY DEF Keys, AllHashes
  <2>4. e \in Creates
    BY <2>2, <2>3, EventTypes
  <2> QED BY <1>1, <2>1, <2>2, <2>4 DEF MallocFails, Begin, Misreports
<1>2. CASE ReallocFails(t)
  <2>1. PICK a \in Owned, size \in Sizes :
          call' = [call EXCEPT ![t] = [op |-> "push", addr |-> a,
                                       event |-> Realloc(a, NULL, size, heap[a].hot)]]
    BY <1>2 DEF ReallocFails, Enter
  <2>2. PICK e : e = Realloc(a, NULL, size, heap[a].hot)
    OBVIOUS
  <2>3. NULL \in Keys /\ a \in Addrs /\ a \in DOMAIN heap
    BY OwnedLive DEF Keys
  <2>4. heap[a].hot \in Tiers
    BY <2>3 DEF TypesOK, Extents
  <2>5. e \in Moves
    BY <2>2, <2>3, <2>4, EventTypes
  <2> QED BY <1>2, <2>1, <2>2, <2>5 DEF ReallocFails, Begin, Misreports
<1> QED BY <1>1, <1>2

\* Every step has one of these shapes: a thread enters a call with a new block,
\* a moved one or none, ...
AllocateStep(t) == \E a, x, e : Allocates(t, a, x, e)
ReallocateStep(t) == \E a, b, x, e : Reallocates(t, a, b, x, e)
MisreportStep(t) == \E a, e : Misreports(t, a, e)

\* ... or none of the variables of the invariant changes.
Stutter == UNCHANGED <<heap, call, queue, tk, ops, clean>>

\* Every step has one of eleven forms.
LEMMA Shapes ==
  ASSUME TypesOK, [Next]_vars
  PROVE  \/ \E t \in Threads : \/ AllocateStep(t) \/ ReallocateStep(t) \/ MisreportStep(t)
                               \/ KindReallocNull(t) \/ KindReallocMalloc(t)
                               \/ PostAlloc(t) \/ FreePush(t) \/ FreeBlock(t)
         \/ PopEvent \/ Sample \/ Stutter
<1>1. CASE \E t \in Threads : Malloc(t) \/ Calloc(t)
  BY <1>1, MallocAllocates DEF AllocateStep
<1>2. CASE \E t \in Threads : ReallocBlock(t)
  BY <1>2, ReallocReallocates DEF ReallocateStep
<1>3. CASE \E t \in Threads : MallocFails(t) \/ ReallocFails(t)
  BY <1>3, FailsMisreports DEF MisreportStep
<1>4. CASE EndBatch \/ EndCycle \/ UNCHANGED vars
  BY <1>4 DEF EndBatch, EndCycle, vars, Stutter
<1> QED BY <1>1, <1>2, <1>3, <1>4 DEF Next, Finish, PebsStep

\* The types, and the counters that cover the blocks, are kept by every step.
LEMMA TypesStep ==
  ASSUME TypesOK, Covers(tk), [Next]_vars
  PROVE  TypesOK' /\ Covers(tk)'
<1>0. heap \in [DOMAIN heap -> Extents] /\ DOMAIN heap \subseteq Addrs /\ TrackerOK(tk)
      /\ queue \in Seq(Event) /\ ops \in Nat /\ ops =< MaxOps /\ clean \in BOOLEAN
      /\ call \in [Threads -> Calls] /\ Addrs \subseteq Keys /\ NULL \in Keys /\ MaxOps \in Nat
  BY BoundAssumption DEF TypesOK, Keys
<1>1. ASSUME NEW t \in Threads, AllocateStep(t) PROVE TypesOK' /\ Covers(tk)'
  <2>1. PICK a, x, e : Allocates(t, a, x, e)
    BY <1>1 DEF AllocateStep
  <2>2. /\ a \in Addrs /\ x \in Extents /\ e \in Creates /\ heap' = Put(heap, a, x)
        /\ call' = [call EXCEPT ![t] = [op |-> "push", addr |-> a, event |-> e]]
        /\ clean' = (clean /\ a \notin Released)
        /\ ops < MaxOps /\ ops' = ops + 1 /\ queue' = queue /\ tk' = tk
    BY <2>1 DEF Allocates
  <2>3. heap' \in [DOMAIN heap' -> Extents] /\ DOMAIN heap' \subseteq Addrs
    BY <1>0, <2>2, HeapPut
  <2>4. call' \in [Threads -> Calls]
    BY <1>0, <2>2, PushCallType, CallChange
  <2>5. clean' \in BOOLEAN
    BY <1>0, <2>2
  <2>6. ops' \in Nat /\ ops' =< MaxOps
    BY <1>0, <2>2
  <2> QED BY <1>0, <2>2, <2>3, <2>4, <2>5, <2>6 DEF TypesOK
<1>2. ASSUME NEW t \in Threads, ReallocateStep(t) PROVE TypesOK' /\ Covers(tk)'
  <2>1. PICK a, b, x, e : Reallocates(t, a, b, x, e)
    BY <1>2 DEF ReallocateStep
  <2>2. /\ b \in Addrs /\ x \in Extents /\ e \in Moves /\ heap' = Put(Drop(a), b, x)
        /\ call' = [call EXCEPT ![t] = [op |-> "push", addr |-> b, event |-> e]]
        /\ clean' = (clean /\ b \notin Released)
        /\ ops < MaxOps /\ ops' = ops + 1 /\ queue' = queue /\ tk' = tk
    BY <2>1 DEF Reallocates
  <2>3. DOMAIN Drop(a) \subseteq Addrs /\ Drop(a) \in [DOMAIN Drop(a) -> Extents]
    BY HeapDrop
  <2>4. heap' \in [DOMAIN heap' -> Extents] /\ DOMAIN heap' \subseteq Addrs
    BY <2>2, <2>3, HeapPut
  <2>5. call' \in [Threads -> Calls]
    BY <1>0, <2>2, PushCallType, CallChange
  <2>6. clean' \in BOOLEAN
    BY <1>0, <2>2
  <2>7. ops' \in Nat /\ ops' =< MaxOps
    BY <1>0, <2>2
  <2> QED BY <1>0, <2>2, <2>4, <2>5, <2>6, <2>7 DEF TypesOK
<1>3. ASSUME NEW t \in Threads, MisreportStep(t) PROVE TypesOK' /\ Covers(tk)'
  <2>1. PICK a, e : Misreports(t, a, e)
    BY <1>3 DEF MisreportStep
  <2>2. /\ a \in Keys /\ e \in Creates \cup Moves
        /\ call' = [call EXCEPT ![t] = [op |-> "push", addr |-> a, event |-> e]]
        /\ clean' = FALSE /\ ops < MaxOps /\ ops' = ops + 1
        /\ heap' = heap /\ queue' = queue /\ tk' = tk
    BY <1>0, <2>1, OwnedLive DEF Misreports
  <2>3. call' \in [Threads -> Calls]
    BY <2>2, PushCallType, CallChange
  <2>4. ops' \in Nat /\ ops' =< MaxOps
    BY <1>0, <2>2
  <2> QED BY <1>0, <2>2, <2>3, <2>4 DEF TypesOK
<1>4. ASSUME NEW t \in Threads, KindReallocNull(t) PROVE TypesOK' /\ Covers(tk)'
  <2>1. PICK size \in Sizes, hot \in Tiers :
          /\ Push(Create(UnknownHash, NULL, size, hot), FALSE)
          /\ call' = [call EXCEPT ![t] = [op |-> "malloc", addr |-> NULL, len |-> size,
                                          hot |-> hot]]
    BY <1>4 DEF KindReallocNull, Enter
  <2>2. ops < MaxOps /\ ops' = ops + 1 /\ heap' = heap /\ tk' = tk
    BY <1>4 DEF KindReallocNull, Begin
  <2>3. Create(UnknownHash, NULL, size, hot) \in Event
    BY <1>0, EventTypes DEF Event, AllHashes
  <2>4. queue' \in Seq(Event) /\ clean' \in BOOLEAN
    BY <2>1, <2>3, PushEffect
  <2>5. call' \in [Threads -> Calls]
    BY <2>1, OtherCallTypes, CallChange
  <2>6. ops' \in Nat /\ ops' =< MaxOps
    BY <1>0, <2>2
  <2> QED BY <1>0, <2>2, <2>4, <2>5, <2>6 DEF TypesOK
<1>5. ASSUME NEW t \in Threads, KindReallocMalloc(t) PROVE TypesOK' /\ Covers(tk)'
  <2>1. /\ call[t].op = "malloc" /\ call' = [call EXCEPT ![t] = Idle]
        /\ queue' = queue /\ tk' = tk /\ ops' = ops /\ clean' = clean
        /\ \/ \E a \in Addrs : heap' = Put(heap, a, Extent(call[t].len, UnknownHash, call[t].hot))
           \/ heap' = heap
    BY <1>5 DEF KindReallocMalloc, Return
  <2>2. call[t].len \in Nat \ {0} /\ call[t].hot \in Tiers /\ UnknownHash \in AllHashes
    BY <2>1, CallForms, SizesPositive DEF AllHashes
  <2>3. heap' \in [DOMAIN heap' -> Extents] /\ DOMAIN heap' \subseteq Addrs
    <3>1. CASE heap' = heap
      BY <1>0, <3>1
    <3>2. CASE heap' # heap
      <4>1. PICK a \in Addrs : heap' = Put(heap, a, Extent(call[t].len, UnknownHash, call[t].hot))
        BY <2>1, <3>2
      <4>2. PICK x : x = Extent(call[t].len, UnknownHash, call[t].hot)
        OBVIOUS
      <4>3. x \in Extents
        BY <2>2, <4>2, ExtentTypes
      <4>4. heap' = Put(heap, a, x)
        BY <4>1, <4>2
      <4> QED BY <1>0, <4>3, <4>4, HeapPut
    <3> QED BY <3>1, <3>2
  <2>4. call' \in [Threads -> Calls]
    BY <2>1, OtherCallTypes, CallChange
  <2> QED BY <1>0, <2>1, <2>3, <2>4 DEF TypesOK
<1>6. ASSUME NEW t \in Threads, PostAlloc(t) PROVE TypesOK' /\ Covers(tk)'
  <2>1. /\ call[t].op = "push" /\ Push(call[t].event, TRUE) /\ call' = [call EXCEPT ![t] = Idle]
        /\ heap' = heap /\ tk' = tk /\ ops' = ops
    BY <1>6 DEF PostAlloc, Return
  <2>2. call[t].event \in Event
    BY <2>1, CallForms DEF Event
  <2>3. queue' \in Seq(Event) /\ clean' \in BOOLEAN
    BY <2>1, <2>2, PushEffect
  <2>4. call' \in [Threads -> Calls]
    BY <2>1, OtherCallTypes, CallChange
  <2> QED BY <1>0, <2>1, <2>3, <2>4 DEF TypesOK
<1>7. ASSUME NEW t \in Threads, FreePush(t) PROVE TypesOK' /\ Covers(tk)'
  <2>1. PICK a \in Owned : /\ Push(Destroy(a), TRUE)
                           /\ call' = [call EXCEPT ![t] = [op |-> "free", addr |-> a]]
    BY <1>7 DEF FreePush, Enter
  <2>2. ops < MaxOps /\ ops' = ops + 1 /\ heap' = heap /\ tk' = tk
    BY <1>7 DEF FreePush, Begin
  <2>3. a \in Addrs /\ Destroy(a) \in Event
    BY OwnedLive, DestroyType DEF Event
  <2>4. queue' \in Seq(Event) /\ clean' \in BOOLEAN
    BY <2>1, <2>3, PushEffect
  <2>5. call' \in [Threads -> Calls]
    BY <2>1, <2>3, OtherCallTypes, CallChange
  <2>6. ops' \in Nat /\ ops' =< MaxOps
    BY <1>0, <2>2
  <2> QED BY <1>0, <2>2, <2>4, <2>5, <2>6 DEF TypesOK
<1>8. ASSUME NEW t \in Threads, FreeBlock(t) PROVE TypesOK' /\ Covers(tk)'
  <2>1. /\ heap' = Drop(call[t].addr) /\ call' = [call EXCEPT ![t] = Idle]
        /\ queue' = queue /\ tk' = tk /\ ops' = ops /\ clean' = clean
    BY <1>8 DEF FreeBlock, Return
  <2>2. heap' \in [DOMAIN heap' -> Extents] /\ DOMAIN heap' \subseteq Addrs
    BY <2>1, HeapDrop
  <2>3. call' \in [Threads -> Calls]
    BY <2>1, OtherCallTypes, CallChange
  <2> QED BY <1>0, <2>1, <2>2, <2>3 DEF TypesOK
<1>9. ASSUME PopEvent PROVE TypesOK' /\ Covers(tk)'
  <2>1. /\ queue # <<>> /\ tk' = Handle(tk, Head(queue)) /\ queue' = Tail(queue)
        /\ heap' = heap /\ call' = call /\ ops' = ops /\ clean' = clean
    BY <1>9 DEF PopEvent
  <2>2. queue' \in Seq(Event) /\ Head(queue) \in Event
    BY <1>0, <2>1, TailPopped
  <2>3. TrackerOK(tk') /\ Covers(tk')
    BY <1>0, <2>1, <2>2, HandleEffect DEF Handles
  <2> QED BY <1>0, <2>1, <2>2, <2>3 DEF TypesOK
<1>10. ASSUME Sample PROVE TypesOK' /\ Covers(tk)'
  <2>1. PICK a \in Addrs, f \in Hotness : tk' = Touch(tk, a, f)
    BY <1>10 DEF Sample
  <2>2. heap' = heap /\ call' = call /\ queue' = queue /\ ops' = ops /\ clean' = clean
    BY <1>10 DEF Sample
  <2>3. Touched(tk, tk')
    BY <1>0, <2>1, TouchEffect
  <2>4. TrackerOK(tk') /\ Covers(tk')
    BY <2>3, CoversKept DEF Touched
  <2> QED BY <1>0, <2>2, <2>4 DEF TypesOK
<1>11. ASSUME Stutter PROVE TypesOK' /\ Covers(tk)'
  BY <1>0, <1>11 DEF Stutter, TypesOK
<1> QED BY <1>1, <1>2, <1>3, <1>4, <1>5, <1>6, <1>7, <1>8, <1>9, <1>10, <1>11, Shapes

-----------------------------------------------------------------------------
\* The calls own their blocks.

\* A thread enters call c on a block that no other call works on.
LEMMA OwnEnter ==
  ASSUME TypesOK, CallsOwn, NEW t \in Threads, NEW c \in Calls, call[t] = Idle,
         call' = [call EXCEPT ![t] = c],
         c.addr # NULL => c.addr \in DOMAIN heap',
         \A u \in Threads : Busy(u) => c.addr = NULL \/ call[u].addr # c.addr,
         \A u \in Threads : call[u].op \in {"push", "free"} /\ call[u].addr # NULL
                              => call[u].addr \in DOMAIN heap'
  PROVE  CallsOwn'
<1>1. call'[t] = c /\ \A u \in Threads : u # t => call'[u] = call[u]
  BY CallChange
<1>2. ASSUME NEW u \in Threads, call'[u].op \in {"push", "free"}, call'[u].addr # NULL
      PROVE  call'[u].addr \in DOMAIN heap'
  BY <1>1, <1>2
<1>3. ASSUME NEW u \in Threads, NEW v \in Threads, Busy(u)', Busy(v)',
             call'[u].addr = call'[v].addr
      PROVE  u = v \/ call'[u].addr = NULL
  <2>1. CASE u = t
    BY <1>1, <1>3, <2>1 DEF Busy
  <2>2. CASE v = t
    BY <1>1, <1>3, <2>2 DEF Busy
  <2>3. CASE u # t /\ v # t
    BY <1>1, <1>3, <2>3 DEF Busy, CallsOwn
  <2> QED BY <2>1, <2>2, <2>3
<1> QED BY <1>2, <1>3 DEF CallsOwn

\* A thread returns.
LEMMA OwnReturn ==
  ASSUME TypesOK, CallsOwn, NEW t \in Threads, call' = [call EXCEPT ![t] = Idle],
         \A u \in Threads : u # t /\ call[u].op \in {"push", "free"} /\ call[u].addr # NULL
                              => call[u].addr \in DOMAIN heap'
  PROVE  CallsOwn'
<1>1. call'[t] = Idle /\ \A u \in Threads : u # t => call'[u] = call[u]
  BY CallChange, OtherCallTypes
<1>2. ASSUME NEW u \in Threads, call'[u].op \in {"push", "free"}, call'[u].addr # NULL
      PROVE  call'[u].addr \in DOMAIN heap'
  <2>1. u # t
    BY <1>1, <1>2 DEF Idle
  <2> QED BY <1>1, <1>2, <2>1
<1>3. ASSUME NEW u \in Threads, NEW v \in Threads, Busy(u)', Busy(v)',
             call'[u].addr = call'[v].addr
      PROVE  u = v \/ call'[u].addr = NULL
  <2>1. u # t /\ v # t
    BY <1>1, <1>3 DEF Busy
  <2> QED BY <1>1, <1>3, <2>1 DEF Busy, CallsOwn
<1> QED BY <1>2, <1>3 DEF CallsOwn

\* A block that an application thread may pass to a call is in no other call.
LEMMA OwnedFree ==
  ASSUME TypesOK, NEW a \in Owned
  PROVE  a # NULL /\ \A u \in Threads : Busy(u) => call[u].addr # a
BY OwnedLive, Constants DEF Owned, Busy

\* Nor is one that is not allocated.
LEMMA DeadFree ==
  ASSUME TypesOK, CallsOwn, NEW a \in Addrs, a \notin DOMAIN heap
  PROVE  \A u \in Threads : Busy(u) => call[u].addr # a
<1> TAKE u \in Threads
<1> HAVE Busy(u)
<1>1. call[u].op \in {"push", "free", "malloc"}
  BY CallForms
<1>2. CASE call[u].op = "malloc"
  BY <1>2, CallForms, Constants
<1>3. CASE call[u].op # "malloc"
  BY <1>1, <1>3, Constants DEF CallsOwn
<1> QED BY <1>2, <1>3

\* Every step keeps the blocks of the calls live and apart.
LEMMA CallsOwnStep ==
  ASSUME TypesOK, CallsOwn, [Next]_vars
  PROVE  CallsOwn'
<1>0. heap \in [DOMAIN heap -> Extents] /\ DOMAIN heap \subseteq Addrs
      /\ Addrs \subseteq Keys /\ NULL \in Keys /\ NULL \notin Addrs
  BY Constants DEF TypesOK
<1>a. \A u \in Threads : call[u].op \in {"push", "free"} /\ call[u].addr # NULL
                           => call[u].addr \in DOMAIN heap
  BY DEF CallsOwn
<1>1. ASSUME NEW t \in Threads, AllocateStep(t) PROVE CallsOwn'
  <2>1. PICK a, x, e : Allocates(t, a, x, e)
    BY <1>1 DEF AllocateStep
  <2>2. /\ a \in Addrs /\ a \notin DOMAIN heap /\ x \in Extents /\ e \in Creates
        /\ heap' = Put(heap, a, x) /\ call[t] = Idle
        /\ call' = [call EXCEPT ![t] = [op |-> "push", addr |-> a, event |-> e]]
    BY <2>1 DEF Allocates
  <2>3. DOMAIN heap' = DOMAIN heap \cup {a}
    BY <2>2 DEF Put
  <2>4. PICK c : c = [op |-> "push", addr |-> a, event |-> e]
    OBVIOUS
  <2>5. c \in Calls /\ c.addr = a
    BY <1>0, <2>2, <2>4, PushCallType
  <2>6. \A u \in Threads : Busy(u) => call[u].addr # a
    BY <2>2, DeadFree
  <2>7. call' = [call EXCEPT ![t] = c]
    BY <2>2, <2>4
  <2> QED BY <1>a, <2>2, <2>3, <2>5, <2>6, <2>7, OwnEnter
<1>2. ASSUME NEW t \in Threads, ReallocateStep(t) PROVE CallsOwn'
  <2>1. PICK a, b, x, e : Reallocates(t, a, b, x, e)
    BY <1>2 DEF ReallocateStep
  <2>2. /\ b \in Addrs /\ x \in Extents /\ e \in Moves /\ heap' = Put(Drop(a), b, x)
        /\ call[t] = Idle /\ a \in Owned /\ (b = a \/ b \notin DOMAIN heap)
        /\ call' = [call EXCEPT ![t] = [op |-> "push", addr |-> b, event |-> e]]
    BY <2>1 DEF Reallocates
  <2>3. DOMAIN heap' = (DOMAIN heap \ {a}) \cup {b}
    <3>1. DOMAIN Drop(a) = DOMAIN heap \ {a}
      BY HeapDrop
    <3> QED BY <2>2, <3>1 DEF Put
  <2>4. PICK c : c = [op |-> "push", addr |-> b, event |-> e]
    OBVIOUS
  <2>5. c \in Calls /\ c.addr = b
    BY <1>0, <2>2, <2>4, PushCallType
  <2>6. \A u \in Threads : Busy(u) => call[u].addr # b
    BY <2>2, DeadFree, OwnedFree
  <2>7. call' = [call EXCEPT ![t] = c]
    BY <2>2, <2>4
  <2>8. \A u \in Threads : Busy(u) => call[u].addr # a
    BY <2>2, OwnedFree
  <2>9. \A u \in Threads : call[u].op \in {"push", "free"} /\ call[u].addr # NULL
                             => call[u].addr \in DOMAIN heap'
    BY <1>a, <2>3, <2>8, CallForms
  <2> QED BY <2>2, <2>3, <2>5, <2>6, <2>7, <2>9, OwnEnter
<1>3. ASSUME NEW t \in Threads, MisreportStep(t) PROVE CallsOwn'
  <2>1. PICK a, e : Misreports(t, a, e)
    BY <1>3 DEF MisreportStep
  <2>2. /\ a \in {NULL} \cup Owned /\ e \in Creates \cup Moves /\ call[t] = Idle
        /\ call' = [call EXCEPT ![t] = [op |-> "push", addr |-> a, event |-> e]]
        /\ heap' = heap
    BY <2>1 DEF Misreports
  <2>3. a # NULL => a \in DOMAIN heap
    BY <2>2, OwnedLive
  <2>4. PICK c : c = [op |-> "push", addr |-> a, event |-> e]
    OBVIOUS
  <2>5. c \in Calls /\ c.addr = a
    BY <1>0, <2>2, <2>3, <2>4, PushCallType
  <2>6. \A u \in Threads : Busy(u) => a = NULL \/ call[u].addr # a
    BY <2>2, OwnedFree
  <2>7. call' = [call EXCEPT ![t] = c]
    BY <2>2, <2>4
  <2> QED BY <1>a, <2>2, <2>3, <2>5, <2>6, <2>7, OwnEnter
<1>4. ASSUME NEW t \in Threads, KindReallocNull(t) PROVE CallsOwn'
  <2>1. PICK size \in Sizes, hot \in Tiers :
          call' = [call EXCEPT ![t] = [op |-> "malloc", addr |-> NULL, len |-> size,
                                       hot |-> hot]]
    BY <1>4 DEF KindReallocNull, Enter
  <2>2. heap' = heap /\ call[t] = Idle
    BY <1>4 DEF KindReallocNull, Begin
  <2>3. PICK c : c = [op |-> "malloc", addr |-> NULL, len |-> size, hot |-> hot]
    OBVIOUS
  <2>4. c \in Calls /\ c.addr = NULL
    BY <2>3, OtherCallTypes
  <2>5. call' = [call EXCEPT ![t] = c]
    BY <2>1, <2>3
  <2> QED BY <1>a, <2>2, <2>4, <2>5, OwnEnter
<1>5. ASSUME NEW t \in Threads, KindReallocMalloc(t) PROVE CallsOwn'
  <2>1. /\ call[t].op = "malloc" /\ call' = [call EXCEPT ![t] = Idle]
        /\ \/ \E a \in Addrs : heap' = Put(heap, a, Extent(call[t].len, UnknownHash, call[t].hot))
           \/ heap' = heap
    BY <1>5 DEF KindReallocMalloc, Return
  <2>2. DOMAIN heap \subseteq DOMAIN heap'
    BY <2>1 DEF Put
  <2> QED BY <1>a, <2>1, <2>2, OwnReturn
<1>6. ASSUME NEW t \in Threads, PostAlloc(t) PROVE CallsOwn'
  <2>1. call' = [call EXCEPT ![t] = Idle] /\ heap' = heap
    BY <1>6 DEF PostAlloc, Return
  <2> QED BY <1>a, <2>1, OwnReturn
<1>7. ASSUME NEW t \in Threads, FreePush(t) PROVE CallsOwn'
  <2>1. PICK a \in Owned : call' = [call EXCEPT ![t] = [op |-> "free", addr |-> a]]
    BY <1>7 DEF FreePush, Enter
  <2>2. heap' = heap /\ call[t] = Idle
    BY <1>7 DEF FreePush, Begin
  <2>3. PICK c : c = [op |-> "free", addr |-> a]
    OBVIOUS
  <2>4. c \in Calls /\ c.addr = a /\ a \in DOMAIN heap
    BY <2>3, OtherCallTypes, OwnedLive
  <2>5. call' = [call EXCEPT ![t] = c]
    BY <2>1, <2>3
  <2>6. \A u \in Threads : Busy(u) => call[u].addr # a
    BY OwnedFree
  <2> QED BY <1>a, <2>2, <2>4, <2>5, <2>6, OwnEnter
<1>8. ASSUME NEW t \in Threads, FreeBlock(t) PROVE CallsOwn'
  <2>1. /\ heap' = Drop(call[t].addr) /\ call' = [call EXCEPT ![t] = Idle]
        /\ call[t].op = "free"
    BY <1>8 DEF FreeBlock, Return
  <2>2. DOMAIN heap' = DOMAIN heap \ {call[t].addr}
    BY <2>1, HeapDrop
  <2>3. Busy(t) /\ call[t].addr # NULL
    BY <1>0, <2>1, CallForms
  <2>4. \A u \in Threads : u # t /\ Busy(u) => call[u].addr # call[t].addr
    BY <2>3 DEF CallsOwn
  <2>5. \A u \in Threads : u # t /\ call[u].op \in {"push", "free"} /\ call[u].addr # NULL
                             => call[u].addr \in DOMAIN heap'
    BY <1>a, <2>2, <2>4, CallForms
  <2> QED BY <2>1, <2>5, OwnReturn
<1>9. ASSUME PopEvent \/ Sample \/ Stutter PROVE CallsOwn'
  <2>1. heap' = heap /\ call' = call
    BY <1>9 DEF PopEvent, Sample, Stutter
  <2> QED BY <2>1 DEF CallsOwn, Busy
<1> QED BY <1>1, <1>2, <1>3, <1>4, <1>5, <1>6, <1>7, <1>8, <1>9, Shapes

-----------------------------------------------------------------------------
\* An operation registers one block at most.

\* The numbers that are counted.
LEMMA PushingFinite ==
  ASSUME TypesOK
  PROVE  IsFiniteSet(Pushing) /\ Cardinality(Pushing) \in Nat
         /\ Cardinality(DOMAIN tk.blocks) \in Nat /\ Len(queue) \in Nat /\ ops \in Nat
<1>1. IsFiniteSet(Pushing) /\ Cardinality(Pushing) \in Nat
  BY ThreadAssumption, FS_Subset, FS_CardinalityType DEF Pushing
<1>2. TrackerOK(tk) /\ queue \in Seq(Event) /\ ops \in Nat
  BY DEF TypesOK
<1>3. Cardinality(DOMAIN tk.blocks) \in Nat
  BY <1>2, Finite
<1> QED BY <1>1, <1>2, <1>3

\* A thread more, or less, is about to push.
LEMMA PushingMore ==
  ASSUME TypesOK, NEW t \in Threads, NEW c \in Calls, call[t] = Idle, c.op = "push",
         call' = [call EXCEPT ![t] = c]
  PROVE  Cardinality(Pushing') = Cardinality(Pushing) + 1
<1>1. call'[t] = c /\ \A u \in Threads : u # t => call'[u] = call[u]
  BY CallChange
<1>2. t \notin Pushing
  BY DEF Pushing, Idle
<1>3. Pushing' = Pushing \cup {t}
  BY <1>1 DEF Pushing
<1> QED BY <1>2, <1>3, PushingFinite, FS_AddElement

\* A call that pushes nothing, or has pushed, is not counted.
LEMMA PushingLess ==
  ASSUME TypesOK, NEW t \in Threads, NEW c \in Calls, c.op # "push",
         call' = [call EXCEPT ![t] = c]
  PROVE  Cardinality(Pushing') = IF call[t].op = "push" THEN Cardinality(Pushing) - 1
                                                        ELSE Cardinality(Pushing)
<1>1. call'[t] = c /\ \A u \in Threads : u # t => call'[u] = call[u]
  BY CallChange
<1>2. Pushing' = Pushing \ {t}
  BY <1>1 DEF Pushing
<1>3. CASE call[t].op = "push"
  <2>1. t \in Pushing
    BY <1>3 DEF Pushing
  <2> QED BY <1>2, <1>3, <2>1, PushingFinite, FS_RemoveElement
<1>4. CASE call[t].op # "push"
  <2>1. Pushing' = Pushing
    BY <1>2, <1>4 DEF Pushing
  <2> QED BY <1>4, <2>1
<1> QED BY <1>3, <1>4

\* Every step keeps the number of blocks within the number of operations.
LEMMA OneBlockStep ==
  ASSUME TypesOK, Covers(tk), OneBlockEach, [Next]_vars
  PROVE  OneBlockEach'
<1>0. /\ Cardinality(Pushing) \in Nat /\ Cardinality(DOMAIN tk.blocks) \in Nat
      /\ Len(queue) \in Nat /\ ops \in Nat
      /\ Cardinality(DOMAIN tk.blocks) + Len(queue) + Cardinality(Pushing) =< ops
  BY PushingFinite DEF OneBlockEach
<1>a. OneBlockEach' <=> Cardinality(DOMAIN tk'.blocks) + Len(queue') + Cardinality(Pushing') =< ops'
  BY DEF OneBlockEach
<1>b. TrackerOK(tk) /\ queue \in Seq(Event) /\ Addrs \subseteq Keys /\ NULL \in Keys
  BY Constants DEF TypesOK
<1>c. ASSUME NEW t \in Threads, NEW c \in Calls, call[t] = Idle, c.op = "push",
             call' = [call EXCEPT ![t] = c], tk' = tk, queue' = queue, ops' = ops + 1
      PROVE  OneBlockEach'
  <2>1. Cardinality(Pushing') = Cardinality(Pushing) + 1
    BY <1>c, PushingMore
  <2> QED BY <1>0, <1>a, <1>c, <2>1
<1>1. ASSUME NEW t \in Threads, AllocateStep(t) PROVE OneBlockEach'
  <2>1. PICK a, x, e : Allocates(t, a, x, e)
    BY <1>1 DEF AllocateStep
  <2>2. PICK c : c = [op |-> "push", addr |-> a, event |-> e]
    OBVIOUS
  <2>3. /\ a \in Addrs /\ e \in Creates /\ call[t] = Idle
        /\ call' = [call EXCEPT ![t] = c] /\ ops' = ops + 1 /\ queue' = queue /\ tk' = tk
    BY <2>1, <2>2 DEF Allocates
  <2>4. c \in Calls /\ c.op = "push"
    BY <1>b, <2>2, <2>3, PushCallType
  <2> QED BY <1>c, <2>3, <2>4
<1>2. ASSUME NEW t \in Threads, ReallocateStep(t) PROVE OneBlockEach'
  <2>1. PICK a, b, x, e : Reallocates(t, a, b, x, e)
    BY <1>2 DEF ReallocateStep
  <2>2. PICK c : c = [op |-> "push", addr |-> b, event |-> e]
    OBVIOUS
  <2>3. /\ b \in Addrs /\ e \in Moves /\ call[t] = Idle
        /\ call' = [call EXCEPT ![t] = c] /\ ops' = ops + 1 /\ queue' = queue /\ tk' = tk
    BY <2>1, <2>2 DEF Reallocates
  <2>4. c \in Calls /\ c.op = "push"
    BY <1>b, <2>2, <2>3, PushCallType
  <2> QED BY <1>c, <2>3, <2>4
<1>3. ASSUME NEW t \in Threads, MisreportStep(t) PROVE OneBlockEach'
  <2>1. PICK a, e : Misreports(t, a, e)
    BY <1>3 DEF MisreportStep
  <2>2. PICK c : c = [op |-> "push", addr |-> a, event |-> e]
    OBVIOUS
  <2>3. /\ a \in Keys /\ e \in Creates \cup Moves /\ call[t] = Idle
        /\ call' = [call EXCEPT ![t] = c] /\ ops' = ops + 1 /\ queue' = queue /\ tk' = tk
    BY <1>b, <2>1, <2>2, OwnedLive DEF Misreports
  <2>4. c \in Calls /\ c.op = "push"
    BY <2>2, <2>3, PushCallType
  <2> QED BY <1>c, <2>3, <2>4
<1>4. ASSUME NEW t \in Threads, KindReallocNull(t) PROVE OneBlockEach'
  <2>1. PICK size \in Sizes, hot \in Tiers :
          /\ Push(Create(UnknownHash, NULL, size, hot), FALSE)
          /\ call' = [call EXCEPT ![t] = [op |-> "malloc", addr |-> NULL, len |-> size,
                                          hot |-> hot]]
    BY <1>4 DEF KindReallocNull, Enter
  <2>2. ops' = ops + 1 /\ tk' = tk /\ call[t] = Idle
    BY <1>4 DEF KindReallocNull, Begin
  <2>3. PICK c : c = [op |-> "malloc", addr |-> NULL, len |-> size, hot |-> hot]
    OBVIOUS
  <2>4. c \in Calls /\ c.op # "push" /\ call' = [call EXCEPT ![t] = c]
    BY <2>1, <2>3, OtherCallTypes
  <2>5. Cardinality(Pushing') = Cardinality(Pushing)
    <3>1. call[t].op # "push"
      BY <2>2 DEF Idle
    <3> QED BY <2>4, <3>1, PushingLess
  <2>6. Create(UnknownHash, NULL, size, hot) \in Event
    BY <1>b, EventTypes DEF Event, AllHashes
  <2>7. Len(queue') =< Len(queue) + 1 /\ Len(queue') \in Nat
    BY <2>1, <2>6, PushEffect
  <2> QED BY <1>0, <1>a, <2>2, <2>5, <2>7
<1>5. ASSUME NEW t \in Threads, KindReallocMalloc(t) \/ FreeBlock(t) PROVE OneBlockEach'
  <2>1. /\ call[t].op # "push" /\ call' = [call EXCEPT ![t] = Idle]
        /\ queue' = queue /\ tk' = tk /\ ops' = ops
    BY <1>5 DEF KindReallocMalloc, FreeBlock, Return
  <2>2. Cardinality(Pushing') = Cardinality(Pushing)
    <3>1. Idle \in Calls /\ Idle.op # "push"
      BY OtherCallTypes DEF Idle
    <3> QED BY <2>1, <3>1, PushingLess
  <2> QED BY <1>0, <1>a, <2>1, <2>2
<1>6. ASSUME NEW t \in Threads, PostAlloc(t) PROVE OneBlockEach'
  <2>1. /\ call[t].op = "push" /\ Push(call[t].event, TRUE) /\ call' = [call EXCEPT ![t] = Idle]
        /\ tk' = tk /\ ops' = ops
    BY <1>6 DEF PostAlloc, Return
  <2>2. call[t].event \in Event
    BY <2>1, CallForms DEF Event
  <2>3. Len(queue') =< Len(queue) + 1 /\ Len(queue') \in Nat
    BY <2>1, <2>2, PushEffect
  <2>4. Cardinality(Pushing') = Cardinality(Pushing) - 1
    <3>1. Idle \in Calls /\ Idle.op # "push"
      BY OtherCallTypes DEF Idle
    <3> QED BY <2>1, <3>1, PushingLess
  <2> QED BY <1>0, <1>a, <2>1, <2>3, <2>4
<1>7. ASSUME NEW t \in Threads, FreePush(t) PROVE OneBlockEach'
  <2>1. PICK a \in Owned : /\ Push(Destroy(a), TRUE)
                           /\ call' = [call EXCEPT ![t] = [op |-> "free", addr |-> a]]
    BY <1>7 DEF FreePush, Enter
  <2>2. ops' = ops + 1 /\ tk' = tk /\ call[t] = Idle
    BY <1>7 DEF FreePush, Begin
  <2>3. a \in Addrs /\ Destroy(a) \in Event
    BY OwnedLive, DestroyType DEF Event
  <2>4. PICK c : c = [op |-> "free", addr |-> a]
    OBVIOUS
  <2>5. c \in Calls /\ c.op # "push" /\ call' = [call EXCEPT ![t] = c]
    BY <2>1, <2>3, <2>4, OtherCallTypes
  <2>6. Cardinality(Pushing') = Cardinality(Pushing)
    <3>1. call[t].op # "push"
      BY <2>2 DEF Idle
    <3> QED BY <2>5, <3>1, PushingLess
  <2>7. Len(queue') =< Len(queue) + 1 /\ Len(queue') \in Nat
    BY <2>1, <2>3, PushEffect
  <2> QED BY <1>0, <1>a, <2>2, <2>6, <2>7
<1>8. ASSUME PopEvent PROVE OneBlockEach'
  <2>1. /\ queue # <<>> /\ tk' = Handle(tk, Head(queue)) /\ queue' = Tail(queue)
        /\ call' = call /\ ops' = ops
    BY <1>8 DEF PopEvent
  <2>2. Len(queue') = Len(queue) - 1 /\ Head(queue) \in Event
    BY <1>b, <2>1, TailPopped
  <2>3. TrackerOK(tk')
    BY <1>b, <2>1, <2>2, HandleEffect DEF Handles
  <2>4. Cardinality(DOMAIN tk'.blocks) =< Cardinality(DOMAIN tk.blocks) + 1
    BY <1>b, <2>1, <2>2, HandleEffect DEF Handles
  <2>5. Cardinality(DOMAIN tk'.blocks) \in Nat
    BY <2>3, Finite
  <2>6. Pushing' = Pushing
    BY <2>1 DEF Pushing
  <2> QED BY <1>0, <1>a, <2>1, <2>2, <2>4, <2>5, <2>6
<1>9. ASSUME Sample PROVE OneBlockEach'
  <2>1. PICK a \in Addrs, f \in Hotness : tk' = Touch(tk, a, f)
    BY <1>9 DEF Sample
  <2>2. call' = call /\ queue' = queue /\ ops' = ops
    BY <1>9 DEF Sample
  <2>3. Touched(tk, tk')
    BY <1>b, <2>1, TouchEffect
  <2>4. tk'.blocks = tk.blocks
    BY <2>3 DEF Touched
  <2>5. Pushing' = Pushing
    BY <2>2 DEF Pushing
  <2> QED BY <1>0, <1>a, <2>2, <2>4, <2>5
<1>10. ASSUME Stutter PROVE OneBlockEach'
  BY <1>10 DEF Stutter, OneBlockEach, Pushing
<1> QED BY <1>1, <1>2, <1>3, <1>4, <1>5, <1>6, <1>7, <1>8, <1>9, <1>10, Shapes

-----------------------------------------------------------------------------
\* The events stay in the order in which the heap changed hands.

\* What a pending event removes and memkind_realloc released.
LEMMA RemovesReleased ==
  ASSUME TypesOK, NEW t \in Pushing, NEW a, Removes(call[t].event, a)
  PROVE  a \in Released
<1>1. t \in Threads /\ call[t].op = "push" /\ call[t].event \in Creates \cup Moves
  BY CallForms DEF Pushing
<1>2. call[t].event.type \in {"CREATE_ADD", "REALLOC"}
  BY <1>1 DEF Creates, Moves
<1>3. call[t].event.type = "REALLOC" /\ call[t].event.old = a
  BY <1>2 DEF Removes
<1> QED BY <1>1, <1>3 DEF Released

\* A thread enters an allocation: block b arrives, the blocks of the heap
\* that are not in D have left it.
LEMMA OrderedEnter ==
  ASSUME TypesOK, CallsOwn, Ordered, NEW t \in Threads, call[t] = Idle,
         NEW b \in Addrs, NEW x \in Extents, NEW e \in Creates \cup Moves,
         NEW D, D \subseteq DOMAIN heap, DOMAIN heap' = D \cup {b}, heap'[b] = x,
         \A d \in D : d # b => heap'[d] = heap[d],
         b \notin DOMAIN heap \/ Removes(e, b), b \notin Released,
         \A d \in Keys : Adds(e, d) <=> d = b,
         \A d \in Keys : Removes(e, d) <=> d \in DOMAIN heap /\ d \notin D,
         \A u \in Threads : Busy(u) => call[u].addr # b,
         \A u \in Threads : Busy(u) => call[u].addr \notin DOMAIN heap \/ call[u].addr \in D,
         e.isHot = x.hot, HashOf(e) = x.hash,
         NEW c, c = [op |-> "push", addr |-> b, event |-> e],
         call' = [call EXCEPT ![t] = c], queue' = queue, tk' = tk
  PROVE  Ordered'
<1>0. /\ Addrs \subseteq Keys /\ NULL \in Keys /\ NULL \notin Addrs /\ DOMAIN heap \subseteq Addrs
      /\ b \in Keys /\ b # NULL
  BY Constants DEF TypesOK
<1>1. c \in Calls /\ c.op = "push" /\ c.addr = b /\ c.event = e
  BY <1>0, PushCallType
<1>2. call'[t] = c /\ \A u \in Threads : u # t => call'[u] = call[u]
  BY <1>1, CallChange
<1>3. /\ \A u \in Threads : call[u].op # "malloc"
      /\ \A u \in Threads : call[u].op = "push" => PushOK(u)
      /\ \A u \in Threads : call[u].op = "free" => Gone(queue, tk.blocks, call[u].addr)
      /\ \A a \in Keys \ DOMAIN heap : Departs(a)
      /\ \A a \in DOMAIN heap : Arrives(a)
      /\ Alternate(queue, tk.blocks)
  BY DEF Ordered
<1>4. ASSUME NEW d \in Addrs, d \notin DOMAIN heap, d \notin Released
      PROVE  Gone(queue, tk.blocks, d)
  BY <1>0, <1>3, <1>4, RemovesReleased DEF Departs
<1>5. ASSUME NEW u \in Threads PROVE call'[u].op # "malloc"
  BY <1>1, <1>2, <1>3
<1>6. ASSUME NEW u \in Threads, call'[u].op = "push" PROVE PushOK(u)'
  <2>1. CASE u = t
    <3>1. call'[u].addr = b /\ call'[u].event = e
      BY <1>1, <1>2, <2>1
    <3>2. \A d \in Keys : Removes(e, d) => d = b \/ d \notin DOMAIN heap'
      OBVIOUS
    <3>3. ~Removes(e, b) => Gone(queue', tk'.blocks, b)
      BY <1>4
    <3> QED BY <1>0, <3>1, <3>2, <3>3 DEF PushOK
  <2>2. CASE u # t
    <3>1. call'[u] = call[u] /\ call[u].op = "push" /\ PushOK(u)
      BY <1>2, <1>3, <1>6, <2>2
    <3>2. PICK f, a : f = call[u].event /\ a = call[u].addr
      OBVIOUS
    <3>3. /\ a # NULL /\ f.isHot = heap[a].hot /\ HashOf(f) = heap[a].hash
          /\ \A d \in Keys : Adds(f, d) <=> d = a
          /\ \A d \in Keys : Removes(f, d) => d = a \/ d \notin DOMAIN heap
          /\ ~Removes(f, a) => Gone(queue, tk.blocks, a)
      BY <3>1, <3>2 DEF PushOK
    <3>4. a \in DOMAIN heap /\ a \in D /\ a # b
      <4>1. Busy(u) /\ a \in DOMAIN heap
        BY <3>1, <3>2, <3>3, CallForms DEF CallsOwn
      <4> QED BY <3>2, <4>1
    <3>5. heap'[a] = heap[a]
      BY <3>4
    <3>6. ASSUME NEW d \in Keys, Removes(f, d) PROVE d = a \/ d \notin DOMAIN heap'
      <4>1. u \in Pushing
        BY <3>1 DEF Pushing
      <4>2. d # b
        BY <3>2, <3>6, <4>1, RemovesReleased
      <4> QED BY <3>3, <3>6, <4>2
    <3>7. call'[u].event = f /\ call'[u].addr = a
      BY <3>1, <3>2
    <3> QED BY <3>3, <3>5, <3>6, <3>7 DEF PushOK
  <2> QED BY <2>1, <2>2
<1>7. ASSUME NEW u \in Threads, call'[u].op = "free"
      PROVE  Gone(queue', tk'.blocks, call'[u].addr)
  BY <1>1, <1>2, <1>3, <1>7
<1>8. ASSUME NEW a \in Keys \ DOMAIN heap' PROVE Departs(a)'
  <2>1. CASE a \in DOMAIN heap
    <3>1. Removes(e, a) /\ t \in Pushing'
      BY <1>0, <1>1, <1>2, <1>8, <2>1 DEF Pushing
    <3> QED BY <1>1, <1>2, <3>1 DEF Departs
  <2>2. CASE a \notin DOMAIN heap
    <3>1. Departs(a)
      BY <1>3, <2>2
    <3>2. \A u \in Pushing : u \in Pushing' /\ call'[u] = call[u]
      BY <1>2 DEF Pushing, Idle
    <3> QED BY <3>1, <3>2 DEF Departs
  <2> QED BY <2>1, <2>2
<1>9. ASSUME NEW a \in DOMAIN heap' PROVE Arrives(a)'
  <2>1. CASE a = b
    <3>1. call'[t] # Idle /\ call'[t].addr = a
      BY <1>1, <1>2, <2>1 DEF Idle
    <3> QED BY <3>1 DEF Arrives, Busy
  <2>2. CASE a # b
    <3>1. a \in D /\ heap'[a] = heap[a] /\ Arrives(a)
      BY <1>3, <1>9, <2>2
    <3>2. \A u \in Threads : Busy(u) => Busy(u)' /\ call'[u] = call[u]
      BY <1>2 DEF Busy
    <3> QED BY <3>1, <3>2 DEF Arrives
  <2> QED BY <2>1, <2>2
<1>10. Alternate(queue', tk'.blocks)
  BY <1>3
<1> QED BY <1>5, <1>6, <1>7, <1>8, <1>9, <1>10 DEF Ordered

\* A new block comes from where no event is still to come.
LEMMA OrderedAllocates ==
  ASSUME TypesOK, CallsOwn, Ordered, NEW t \in Threads, NEW a, NEW x, NEW e,
         Allocates(t, a, x, e), clean'
  PROVE  Ordered'
<1>1. /\ call[t] = Idle /\ a \in Addrs /\ a \notin DOMAIN heap /\ x \in Extents
      /\ e \in Creates /\ e.addr = a /\ e.hash = x.hash /\ e.isHot = x.hot
      /\ heap' = Put(heap, a, x) /\ queue' = queue /\ tk' = tk /\ a \notin Released
  BY DEF Allocates
<1>2. PICK c : c = [op |-> "push", addr |-> a, event |-> e]
  OBVIOUS
<1>3. call' = [call EXCEPT ![t] = c]
  BY <1>2 DEF Allocates
<1>4. DOMAIN heap' = DOMAIN heap \cup {a} /\ heap'[a] = x
      /\ \A d \in DOMAIN heap : d # a => heap'[d] = heap[d]
  BY <1>1 DEF Put
<1>5. /\ \A d \in Keys : Adds(e, d) <=> d = a
      /\ \A d \in Keys : Removes(e, d) <=> d \in DOMAIN heap /\ d \notin DOMAIN heap
      /\ HashOf(e) = x.hash
  BY <1>1, CreateEvent
<1>6. \A u \in Threads : Busy(u) => call[u].addr # a
  BY <1>1, DeadFree
<1>7. /\ call[t] = Idle /\ a \in Addrs /\ x \in Extents /\ e \in Creates \cup Moves
      /\ a \notin DOMAIN heap /\ a \notin Released /\ e.isHot = x.hot
      /\ queue' = queue /\ tk' = tk /\ DOMAIN heap \subseteq DOMAIN heap
  BY <1>1
<1>8. \A u \in Threads : Busy(u) => call[u].addr \notin DOMAIN heap \/ call[u].addr \in DOMAIN heap
  OBVIOUS
<1>9. a \notin DOMAIN heap \/ Removes(e, a)
  BY <1>1
<1> QED BY <1>2, <1>3, <1>4, <1>5, <1>6, <1>7, <1>8, <1>9, OrderedEnter

\* So does a block that moved; the event will remove what it left.
LEMMA OrderedReallocates ==
  ASSUME TypesOK, CallsOwn, Ordered, NEW t \in Threads, NEW a, NEW b, NEW x, NEW e,
         Reallocates(t, a, b, x, e), clean'
  PROVE  Ordered'
<1>1. /\ call[t] = Idle /\ a \in Owned /\ b \in Addrs /\ (b = a \/ b \notin DOMAIN heap)
      /\ x \in Extents /\ x.hash = UnknownHash
      /\ e \in Moves /\ e.old = a /\ e.new = b /\ e.isHot = x.hot
      /\ heap' = Put(Drop(a), b, x) /\ queue' = queue /\ tk' = tk /\ b \notin Released
  BY DEF Reallocates
<1>2. PICK c : c = [op |-> "push", addr |-> b, event |-> e]
  OBVIOUS
<1>3. call' = [call EXCEPT ![t] = c]
  BY <1>2 DEF Reallocates
<1>4. a \in DOMAIN heap
  BY <1>1, OwnedLive
<1>5. PICK D : D = DOMAIN heap \ {a}
  OBVIOUS
<1>6. DOMAIN heap' = D \cup {b} /\ heap'[b] = x
      /\ \A d \in D : d # b => heap'[d] = heap[d]
  <2>1. DOMAIN Drop(a) = D /\ \A d \in D : Drop(a)[d] = heap[d]
    BY <1>5, HeapDrop
  <2> QED BY <1>1, <2>1 DEF Put
<1>7. /\ \A d \in Keys : Adds(e, d) <=> d = b
      /\ \A d \in Keys : Removes(e, d) <=> d \in DOMAIN heap /\ d \notin D
      /\ HashOf(e) = x.hash /\ (b \notin DOMAIN heap \/ Removes(e, b))
  BY <1>1, <1>4, <1>5, MoveEvent
<1>8. \A u \in Threads : Busy(u) => call[u].addr # b
  BY <1>1, DeadFree, OwnedFree
<1>9. \A u \in Threads : Busy(u) => call[u].addr \notin DOMAIN heap \/ call[u].addr \in D
  BY <1>1, <1>5, OwnedFree
<1>10. D \subseteq DOMAIN heap
  BY <1>5
<1>11. /\ call[t] = Idle /\ b \in Addrs /\ x \in Extents /\ e \in Creates \cup Moves
       /\ b \notin Released /\ e.isHot = x.hot /\ queue' = queue /\ tk' = tk
  BY <1>1
<1> QED BY <1>2, <1>3, <1>6, <1>7, <1>8, <1>9, <1>10, <1>11, OrderedEnter

\* Another thread's pending event after event f is pushed.
LEMMA PushOKPush ==
  ASSUME TypesOK, CallsOwn, NEW u \in Threads, call[u].op = "push", PushOK(u), call'[u] = call[u],
         NEW f, Pushed(queue, f, queue'), ~Adds(f, call[u].addr), heap' = heap, tk' = tk
  PROVE  PushOK(u)'
<1>1. PICK e, a : e = call[u].event /\ a = call[u].addr
  OBVIOUS
<1>2. /\ a # NULL /\ e.isHot = heap[a].hot /\ HashOf(e) = heap[a].hash
      /\ \A d \in Keys : Adds(e, d) <=> d = a
      /\ \A d \in Keys : Removes(e, d) => d = a \/ d \notin DOMAIN heap
      /\ ~Removes(e, a) => Gone(queue, tk.blocks, a)
  BY <1>1 DEF PushOK
<1>3. ~Removes(e, a) => Gone(queue', tk.blocks, a)
  BY <1>1, <1>2, GonePush
<1>4. call'[u].event = e /\ call'[u].addr = a
  BY <1>1
<1> QED BY <1>2, <1>3, <1>4 DEF PushOK

\* The event of an allocation is pushed after the block's address was taken ...
LEMMA OrderedPostAlloc ==
  ASSUME TypesOK, CallsOwn, Ordered, NEW t \in Threads, PostAlloc(t), clean'
  PROVE  Ordered'
<1>0. /\ Addrs \subseteq Keys /\ NULL \in Keys /\ NULL \notin Addrs /\ DOMAIN heap \subseteq Addrs
  BY Constants DEF TypesOK
<1>1. /\ call[t].op = "push" /\ Push(call[t].event, TRUE) /\ call' = [call EXCEPT ![t] = Idle]
      /\ heap' = heap /\ tk' = tk
  BY DEF PostAlloc, Return
<1>2. call'[t] = Idle /\ \A u \in Threads : u # t => call'[u] = call[u]
  BY <1>1, OtherCallTypes, CallChange
<1>3. /\ \A u \in Threads : call[u].op # "malloc"
      /\ \A u \in Threads : call[u].op = "push" => PushOK(u)
      /\ \A u \in Threads : call[u].op = "free" => Gone(queue, tk.blocks, call[u].addr)
      /\ \A d \in Keys \ DOMAIN heap : Departs(d)
      /\ \A d \in DOMAIN heap : Arrives(d)
      /\ Alternate(queue, tk.blocks)
  BY DEF Ordered
<1>4. PICK e, a : e = call[t].event /\ a = call[t].addr
  OBVIOUS
<1>5. Pushed(queue, e, queue')
  <2>1. e \in Event
    BY <1>1, <1>4, CallForms DEF Event
  <2> QED BY <1>1, <1>4, <2>1, PushEffect
<1>6. /\ a # NULL /\ e.isHot = heap[a].hot /\ HashOf(e) = heap[a].hash
      /\ \A d \in Keys : Adds(e, d) <=> d = a
      /\ \A d \in Keys : Removes(e, d) => d = a \/ d \notin DOMAIN heap
      /\ ~Removes(e, a) => Gone(queue, tk.blocks, a)
  BY <1>1, <1>3, <1>4 DEF PushOK
<1>7. a \in DOMAIN heap /\ Busy(t)
  BY <1>1, <1>4, <1>6, CallForms DEF CallsOwn
<1>8. \A u \in Threads : u # t /\ Busy(u) => call[u].addr # a
  BY <1>4, <1>6, <1>7 DEF CallsOwn
<1>9. ASSUME NEW u \in Threads, call'[u].op \in {"push", "free"}
      PROVE  u # t /\ call'[u] = call[u] /\ call[u].addr \in Keys /\ ~Adds(e, call[u].addr)
  <2>1. u # t
    BY <1>2, <1>9 DEF Idle
  <2>2. call'[u] = call[u] /\ Busy(u) /\ call[u].addr \in Keys
    BY <1>0, <1>2, <1>9, <2>1, CallForms
  <2> QED BY <1>6, <1>8, <2>1, <2>2
<1>10. ASSUME NEW u \in Threads PROVE call'[u].op # "malloc"
  BY <1>2, <1>3 DEF Idle
<1>11. ASSUME NEW u \in Threads, call'[u].op = "push" PROVE PushOK(u)'
  <2>1. call'[u] = call[u] /\ ~Adds(e, call[u].addr)
    BY <1>9, <1>11
  <2>2. call[u].op = "push" /\ PushOK(u)
    BY <1>3, <1>11, <2>1
  <2> QED BY <1>1, <1>5, <2>1, <2>2, PushOKPush
<1>12. ASSUME NEW u \in Threads, call'[u].op = "free"
       PROVE  Gone(queue', tk'.blocks, call'[u].addr)
  <2>1. call'[u] = call[u] /\ ~Adds(e, call[u].addr)
    BY <1>9, <1>12
  <2>2. Gone(queue, tk.blocks, call[u].addr)
    BY <1>3, <1>12, <2>1
  <2> QED BY <1>1, <1>5, <2>1, <2>2, GonePush
<1>13. ASSUME NEW d \in Keys \ DOMAIN heap' PROVE Departs(d)'
  <2>1. d \notin DOMAIN heap /\ d \in Keys /\ ~Adds(e, d) /\ Departs(d)
    BY <1>0, <1>1, <1>3, <1>6, <1>7, <1>13
  <2>2. CASE Removes(e, d)
    <3>1. Gone(queue', tk'.blocks, d)
      BY <1>5, <2>1, <2>2, GoneRemoved
    <3> QED BY <3>1 DEF Departs
  <2>3. CASE ~Removes(e, d)
    <3>1. CASE Gone(queue, tk.blocks, d)
      <4>1. Gone(queue', tk'.blocks, d)
        BY <1>1, <1>5, <2>1, <3>1, GonePush
      <4> QED BY <4>1 DEF Departs
    <3>2. CASE \E u \in Pushing : Removes(call[u].event, d)
      <4>1. PICK u \in Pushing : Removes(call[u].event, d)
        BY <3>2
      <4>2. u # t
        BY <1>4, <2>3, <4>1
      <4>3. u \in Pushing' /\ call'[u] = call[u]
        BY <1>2, <4>2 DEF Pushing
      <4> QED BY <4>1, <4>3 DEF Departs
    <3> QED BY <2>1, <3>1, <3>2 DEF Departs
  <2> QED BY <2>2, <2>3
<1>14. ASSUME NEW d \in DOMAIN heap' PROVE Arrives(d)'
  <2>1. CASE d = a
    <3>1. Adds(e, a)
      BY <1>0, <1>6, <1>7
    <3>2. Here(queue', tk'.blocks, d, heap'[d])
      BY <1>1, <1>5, <1>6, <2>1, <3>1, HereAdded
    <3> QED BY <3>2 DEF Arrives
  <2>2. CASE d # a
    <3>1. ~Adds(e, d) /\ ~Removes(e, d) /\ Arrives(d)
      BY <1>0, <1>1, <1>3, <1>6, <1>14, <2>2
    <3>2. CASE Here(queue, tk.blocks, d, heap[d])
      <4>1. Here(queue', tk'.blocks, d, heap'[d])
        BY <1>1, <1>5, <3>1, <3>2, HerePush
      <4> QED BY <4>1 DEF Arrives
    <3>3. CASE \E u \in Threads : Busy(u) /\ call[u].addr = d
      <4>1. PICK u \in Threads : Busy(u) /\ call[u].addr = d
        BY <3>3
      <4>2. call'[u] = call[u]
        BY <1>2, <1>4, <2>2, <4>1
      <4> QED BY <4>1, <4>2 DEF Arrives, Busy
    <3> QED BY <3>1, <3>2, <3>3 DEF Arrives
  <2> QED BY <2>1, <2>2
<1>15. Alternate(queue', tk'.blocks)
  <2>1. DOMAIN tk.blocks \subseteq Keys
    BY DEF TypesOK, TrackerOK
  <2>2. \A d \in Keys : Adds(e, d) => Removes(e, d) \/ Gone(queue, tk.blocks, d)
    BY <1>6
  <2> QED BY <1>1, <1>3, <1>5, <2>1, <2>2, AlternatePush
<1> QED BY <1>10, <1>11, <1>12, <1>13, <1>14, <1>15 DEF Ordered

\* ... and that of a free before the address is given back: ...
LEMMA OrderedFreePush ==
  ASSUME TypesOK, CallsOwn, Ordered, NEW t \in Threads, FreePush(t), clean'
  PROVE  Ordered'
<1>0. /\ Addrs \subseteq Keys /\ NULL \in Keys /\ NULL \notin Addrs /\ DOMAIN heap \subseteq Addrs
  BY Constants DEF TypesOK
<1>1. PICK a \in Owned : /\ Push(Destroy(a), TRUE)
                         /\ call' = [call EXCEPT ![t] = [op |-> "free", addr |-> a]]
  BY DEF FreePush, Enter
<1>2. heap' = heap /\ tk' = tk /\ call[t] = Idle
  BY DEF FreePush, Begin
<1>3. PICK c, e : c = [op |-> "free", addr |-> a] /\ e = Destroy(a)
  OBVIOUS
<1>4. a \in Addrs /\ a \in DOMAIN heap /\ e \in Event
      /\ (\A d : ~Adds(e, d)) /\ \A d : Removes(e, d) <=> d = a
  BY <1>3, OwnedLive, DestroyType DEF Event, Destroy, Adds, Removes
<1>5. c \in Calls /\ c.op = "free" /\ c.addr = a /\ call' = [call EXCEPT ![t] = c]
  BY <1>1, <1>3, <1>4, OtherCallTypes
<1>6. call'[t] = c /\ \A u \in Threads : u # t => call'[u] = call[u]
  BY <1>5, CallChange
<1>7. Pushed(queue, e, queue')
  BY <1>1, <1>3, <1>4, PushEffect
<1>8. /\ \A u \in Threads : call[u].op # "malloc"
      /\ \A u \in Threads : call[u].op = "push" => PushOK(u)
      /\ \A u \in Threads : call[u].op = "free" => Gone(queue, tk.blocks, call[u].addr)
      /\ \A d \in Keys \ DOMAIN heap : Departs(d)
      /\ \A d \in DOMAIN heap : Arrives(d)
      /\ Alternate(queue, tk.blocks)
  BY DEF Ordered
<1>9. ASSUME NEW u \in Threads PROVE call'[u].op # "malloc"
  BY <1>5, <1>6, <1>8
<1>10. ASSUME NEW u \in Threads, call'[u].op = "push" PROVE PushOK(u)'
  <2>1. u # t /\ call'[u] = call[u]
    BY <1>5, <1>6, <1>10
  <2>2. call[u].op = "push" /\ PushOK(u)
    BY <1>8, <1>10, <2>1
  <2> QED BY <1>2, <1>4, <1>7, <2>1, <2>2, PushOKPush
<1>11. ASSUME NEW u \in Threads, call'[u].op = "free"
       PROVE  Gone(queue', tk'.blocks, call'[u].addr)
  <2>1. CASE u = t
    <3>1. call'[u].addr = a
      BY <1>5, <1>6, <2>1
    <3>2. Gone(queue', tk'.blocks, a)
      BY <1>4, <1>7, GoneRemoved
    <3> QED BY <3>1, <3>2
  <2>2. CASE u # t
    <3>1. call'[u] = call[u] /\ Gone(queue, tk.blocks, call[u].addr)
      BY <1>6, <1>8, <1>11, <2>2
    <3> QED BY <1>2, <1>4, <1>7, <3>1, GonePush
  <2> QED BY <2>1, <2>2
<1>12. ASSUME NEW d \in Keys \ DOMAIN heap' PROVE Departs(d)'
  <2>1. Departs(d)
    BY <1>2, <1>8, <1>12
  <2>2. CASE Gone(queue, tk.blocks, d)
    <3>1. Gone(queue', tk'.blocks, d)
      BY <1>2, <1>4, <1>7, <2>2, GonePush
    <3> QED BY <3>1 DEF Departs
  <2>3. CASE \E u \in Pushing : Removes(call[u].event, d)
    <3>1. \A u \in Pushing : u \in Pushing' /\ call'[u] = call[u]
      BY <1>2, <1>6 DEF Pushing, Idle
    <3> QED BY <2>3, <3>1 DEF Departs
  <2> QED BY <2>1, <2>2, <2>3 DEF Departs
<1>13. ASSUME NEW d \in DOMAIN heap' PROVE Arrives(d)'
  <2>1. CASE d = a
    <3>1. call'[t] # Idle /\ call'[t].addr = d
      BY <1>5, <1>6, <2>1 DEF Idle
    <3> QED BY <3>1 DEF Arrives, Busy
  <2>2. CASE d # a
    <3>1. ~Adds(e, d) /\ ~Removes(e, d) /\ Arrives(d)
      BY <1>2, <1>4, <1>8, <1>13, <2>2
    <3>2. CASE Here(queue, tk.blocks, d, heap[d])
      <4>1. Here(queue', tk'.blocks, d, heap'[d])
        BY <1>2, <1>7, <3>1, <3>2, HerePush
      <4> QED BY <4>1 DEF Arrives
    <3>3. CASE \E u \in Threads : Busy(u) /\ call[u].addr = d
      <4>1. \A u \in Threads : Busy(u) => call'[u] = call[u]
        BY <1>2, <1>6 DEF Busy
      <4> QED BY <3>3, <4>1 DEF Arrives, Busy
    <3> QED BY <3>1, <3>2, <3>3 DEF Arrives
  <2> QED BY <2>1, <2>2
<1>14. Alternate(queue', tk'.blocks)
  <2>1. DOMAIN tk.blocks \subseteq Keys
    BY DEF TypesOK, TrackerOK
  <2> QED BY <1>2, <1>4, <1>7, <1>8, <2>1, AlternatePush
<1> QED BY <1>9, <1>10, <1>11, <1>12, <1>13, <1>14 DEF Ordered

\* ... when it is, the queue already removes it.
LEMMA OrderedFreeBlock ==
  ASSUME TypesOK, CallsOwn, Ordered, NEW t \in Threads, FreeBlock(t)
  PROVE  Ordered'
<1>0. /\ Addrs \subseteq Keys /\ NULL \in Keys /\ NULL \notin Addrs /\ DOMAIN heap \subseteq Addrs
  BY Constants DEF TypesOK
<1>1. PICK a : a = call[t].addr
  OBVIOUS
<1>2. /\ heap' = Drop(a) /\ call' = [call EXCEPT ![t] = Idle] /\ call[t].op = "free"
      /\ queue' = queue /\ tk' = tk
  BY <1>1 DEF FreeBlock, Return
<1>3. call'[t] = Idle /\ \A u \in Threads : u # t => call'[u] = call[u]
  BY <1>2, OtherCallTypes, CallChange
<1>4. DOMAIN heap' = DOMAIN heap \ {a} /\ \A d \in DOMAIN heap' : heap'[d] = heap[d]
  BY <1>2, HeapDrop
<1>5. a \in Addrs /\ Busy(t)
  BY <1>1, <1>2, CallForms
<1>6. \A u \in Threads : u # t /\ Busy(u) => call[u].addr # a
  BY <1>0, <1>1, <1>5 DEF CallsOwn
<1>7. /\ \A u \in Threads : call[u].op # "malloc"
      /\ \A u \in Threads : call[u].op = "push" => PushOK(u)
      /\ \A u \in Threads : call[u].op = "free" => Gone(queue, tk.blocks, call[u].addr)
      /\ \A d \in Keys \ DOMAIN heap : Departs(d)
      /\ \A d \in DOMAIN heap : Arrives(d)
      /\ Alternate(queue, tk.blocks)
  BY DEF Ordered
<1>8. ASSUME NEW u \in Threads PROVE call'[u].op # "malloc"
  BY <1>3, <1>7 DEF Idle
<1>9. ASSUME NEW u \in Threads, call'[u].op = "push" PROVE PushOK(u)'
  <2>1. u # t
    BY <1>3, <1>9 DEF Idle
  <2>2. call'[u] = call[u] /\ call[u].op = "push" /\ PushOK(u)
    BY <1>3, <1>7, <1>9, <2>1
  <2>3. PICK f, b : f = call[u].event /\ b = call[u].addr
    OBVIOUS
  <2>4. /\ b # NULL /\ f.isHot = heap[b].hot /\ HashOf(f) = heap[b].hash
        /\ \A d \in Keys : Adds(f, d) <=> d = b
        /\ \A d \in Keys : Removes(f, d) => d = b \/ d \notin DOMAIN heap
        /\ ~Removes(f, b) => Gone(queue, tk.blocks, b)
    BY <2>2, <2>3 DEF PushOK
  <2>5. b # a /\ b \in DOMAIN heap
    BY <1>6, <2>1, <2>2, <2>3, <2>4, CallForms DEF CallsOwn
  <2>6. heap'[b] = heap[b]
    BY <1>4, <2>5
  <2>7. \A d \in Keys : Removes(f, d) => d = b \/ d \notin DOMAIN heap'
    BY <1>4, <2>4
  <2>8. call'[u].event = f /\ call'[u].addr = b
    BY <2>2, <2>3
  <2> QED BY <1>2, <2>4, <2>6, <2>7, <2>8 DEF PushOK
<1>10. ASSUME NEW u \in Threads, call'[u].op = "free"
       PROVE  Gone(queue', tk'.blocks, call'[u].addr)
  <2>1. u # t
    BY <1>3, <1>10 DEF Idle
  <2> QED BY <1>2, <1>3, <1>7, <1>10, <2>1
<1>11. ASSUME NEW d \in Keys \ DOMAIN heap' PROVE Departs(d)'
  <2>1. CASE d = a
    <3>1. Gone(queue', tk'.blocks, d)
      BY <1>1, <1>2, <1>7, <2>1
    <3> QED BY <3>1 DEF Departs
  <2>2. CASE d # a
    <3>1. Departs(d)
      BY <1>4, <1>7, <1>11, <2>2
    <3>2. \A u \in Pushing : u \in Pushing' /\ call'[u] = call[u]
      BY <1>2, <1>3 DEF Pushing
    <3> QED BY <1>2, <3>1, <3>2 DEF Departs
  <2> QED BY <2>1, <2>2
<1>12. ASSUME NEW d \in DOMAIN heap' PROVE Arrives(d)'
  <2>1. d # a /\ heap'[d] = heap[d] /\ Arrives(d)
    BY <1>4, <1>7, <1>12
  <2>2. \A u \in Threads : Busy(u) /\ call[u].addr = d => call'[u] = call[u]
    BY <1>1, <1>3, <2>1
  <2> QED BY <1>2, <2>1, <2>2 DEF Arrives, Busy
<1>13. Alternate(queue', tk'.blocks)
  BY <1>2, <1>7
<1> QED BY <1>8, <1>9, <1>10, <1>11, <1>12, <1>13 DEF Ordered

\* The tracker changes, the calls and the heap do not.
LEMMA OrderedTracker ==
  ASSUME Ordered, heap' = heap, call' = call, TypesOK,
         \A a \in Keys : Gone(queue, tk.blocks, a) => Gone(queue', tk'.blocks, a),
         \A a \in Keys : \A x \in Extents : Here(queue, tk.blocks, a, x) => Here(queue', tk'.blocks, a, x),
         Alternate(queue', tk'.blocks)
  PROVE  Ordered'
<1>0. /\ Addrs \subseteq Keys /\ DOMAIN heap \subseteq Addrs /\ heap \in [DOMAIN heap -> Extents]
  BY Constants DEF TypesOK
<1>1. /\ \A u \in Threads : call[u].op # "malloc"
      /\ \A u \in Threads : call[u].op = "push" => PushOK(u)
      /\ \A u \in Threads : call[u].op = "free" => Gone(queue, tk.blocks, call[u].addr)
      /\ \A d \in Keys \ DOMAIN heap : Departs(d)
      /\ \A d \in DOMAIN heap : Arrives(d)
  BY DEF Ordered
<1>2. ASSUME NEW u \in Threads PROVE call'[u].op # "malloc"
  BY <1>1
<1>3. ASSUME NEW u \in Threads, call'[u].op = "push" PROVE PushOK(u)'
  <2>1. PushOK(u) /\ call[u].addr \in Keys
    BY <1>1, <1>3, CallForms
  <2> QED BY <2>1 DEF PushOK
<1>4. ASSUME NEW u \in Threads, call'[u].op = "free"
      PROVE  Gone(queue', tk'.blocks, call'[u].addr)
  BY <1>0, <1>1, <1>4, CallForms
<1>5. ASSUME NEW d \in Keys \ DOMAIN heap' PROVE Departs(d)'
  <2>1. Departs(d) /\ d \in Keys /\ Pushing' = Pushing
    BY <1>0, <1>1, <1>5 DEF Pushing
  <2> QED BY <2>1 DEF Departs
<1>6. ASSUME NEW d \in DOMAIN heap' PROVE Arrives(d)'
  <2>1. Arrives(d) /\ d \in Keys /\ heap[d] \in Extents
    BY <1>0, <1>1, <1>6
  <2> QED BY <2>1 DEF Arrives, Busy
<1> QED BY <1>2, <1>3, <1>4, <1>5, <1>6 DEF Ordered

\* The PEBS thread applies the head of the queue.
LEMMA OrderedPop ==
  ASSUME TypesOK, Covers(tk), Ordered, PopEvent
  PROVE  Ordered'
<1>1. /\ queue # <<>> /\ tk' = Handle(tk, Head(queue)) /\ queue' = Tail(queue)
      /\ heap' = heap /\ call' = call
  BY DEF PopEvent
<1>2. queue \in Seq(Event) /\ TrackerOK(tk) /\ Alternate(queue, tk.blocks)
  BY DEF TypesOK, Ordered
<1>3. /\ Popped(queue, queue') /\ Head(queue) = queue[1] /\ queue[1] \in Event
      /\ Len(queue) \in Nat /\ Len(queue) > 0
  BY <1>1, <1>2, TailPopped DEF Popped
<1>4. Handles(tk, tk', queue[1])
  <2>1. tk' = Handle(tk, queue[1])
    BY <1>1, <1>3
  <2> QED BY <1>2, <1>3, <2>1, HandleEffect
<1>5. Fresh(tk, queue[1])
  BY <1>2, <1>3, FreshHead
<1>6. \A a \in Keys : Gone(queue, tk.blocks, a) => Gone(queue', tk'.blocks, a)
  BY <1>3, <1>4, GonePop
<1>7. \A a \in Keys : \A x \in Extents : Here(queue, tk.blocks, a, x) => Here(queue', tk'.blocks, a, x)
  BY <1>3, <1>4, <1>5, HerePop
<1>8. Alternate(queue', tk'.blocks)
  <2>1. DOMAIN tk'.blocks \subseteq Keys
    BY <1>4 DEF Handles, TrackerOK
  <2> QED BY <1>2, <1>3, <1>4, <2>1, AlternatePop
<1> QED BY <1>1, <1>6, <1>7, <1>8, OrderedTracker

-----------------------------------------------------------------------------
\* The ranking stays exact.

\* The event it applies is fresh, and the sizes fit a size_t.
LEMMA ExactPop ==
  ASSUME TypesOK, Covers(tk), Ordered, Exact(tk), OneBlockEach, OneBlockEach', TypesOK', PopEvent
  PROVE  Exact(tk')
<1>1. /\ queue # <<>> /\ tk' = Handle(tk, Head(queue)) /\ ops' = ops /\ queue' = Tail(queue)
      /\ call' = call
  BY DEF PopEvent
<1>2. queue \in Seq(Event) /\ TrackerOK(tk) /\ Alternate(queue, tk.blocks)
      /\ ops \in Nat /\ ops =< MaxOps /\ TrackerOK(tk') /\ MaxOps \in Nat
  BY BoundAssumption DEF TypesOK, Ordered
<1>3. /\ Head(queue) = queue[1] /\ queue[1] \in Event /\ Len(queue) \in Nat /\ Len(queue) > 0
      /\ Len(queue') \in Nat
  BY <1>1, <1>2, TailPopped DEF Popped
<1>4. Fresh(tk, queue[1]) /\ tk' = Handle(tk, queue[1])
  BY <1>1, <1>2, <1>3, FreshHead
<1>5. Cardinality(DOMAIN tk'.blocks) =< MaxOps
  <2>1. Cardinality(DOMAIN tk'.blocks) \in Nat
    BY <1>2, Finite
  <2>2. Pushing' = Pushing /\ Cardinality(Pushing) \in Nat
    BY <1>1, PushingFinite DEF Pushing
  <2>3. Cardinality(DOMAIN tk'.blocks) + Len(queue') + Cardinality(Pushing') =< ops'
    BY DEF OneBlockEach
  <2> QED BY <1>1, <1>2, <1>3, <2>1, <2>2, <2>3
<1> QED BY <1>2, <1>3, <1>4, <1>5, HandleExact

\* There are no more blocks than operations.
LEMMA BlocksRoom ==
  ASSUME TypesOK, OneBlockEach
  PROVE  Cardinality(DOMAIN tk.blocks) =< MaxOps
<1>1. ops =< MaxOps /\ MaxOps \in Nat
  BY BoundAssumption DEF TypesOK
<1> QED BY <1>1, PushingFinite DEF OneBlockEach

\* A sample keeps the ranking exact.
LEMMA ExactSample ==
  ASSUME TypesOK, Covers(tk), Exact(tk), OneBlockEach, Sample
  PROVE  Exact(tk')
<1>1. PICK a \in Addrs, f \in Hotness : tk' = Touch(tk, a, f)
  BY DEF Sample
<1>2. TrackerOK(tk) /\ Cardinality(DOMAIN tk.blocks) =< MaxOps /\ a \in Keys
  BY BlocksRoom, Constants DEF TypesOK
<1>3. /\ Touched(tk, tk')
      /\ tk' = tk \/ \E h \in DOMAIN tk.types : Fails(tk, tk', h) \/ TouchesType(tk, tk', h, f)
  BY <1>1, <1>2, TouchEffect
<1>4. CASE tk' = tk
  BY <1>4
<1>5. CASE \E h \in DOMAIN tk.types : Fails(tk, tk', h) \/ TouchesType(tk, tk', h, f)
  BY <1>2, <1>3, <1>5, TouchExact
<1> QED BY <1>3, <1>4, <1>5

\* A step that loses, misreports and overtakes nothing keeps order and exactness.
LEMMA CleanStep ==
  ASSUME Inv, [Next]_vars, TypesOK', OneBlockEach', clean'
  PROVE  Ordered' /\ Exact(tk)'
<1>0. TypesOK /\ Covers(tk) /\ CallsOwn /\ OneBlockEach /\ (clean => Ordered /\ Exact(tk))
      /\ clean \in BOOLEAN
  BY DEF Inv, TypesOK
<1>1. ASSUME NEW t \in Threads, AllocateStep(t) PROVE Ordered' /\ Exact(tk)'
  <2>1. PICK a, x, e : Allocates(t, a, x, e)
    BY <1>1 DEF AllocateStep
  <2>2. clean /\ tk' = tk
    BY <2>1 DEF Allocates
  <2> QED BY <1>0, <2>1, <2>2, OrderedAllocates
<1>2. ASSUME NEW t \in Threads, ReallocateStep(t) PROVE Ordered' /\ Exact(tk)'
  <2>1. PICK a, b, x, e : Reallocates(t, a, b, x, e)
    BY <1>2 DEF ReallocateStep
  <2>2. clean /\ tk' = tk
    BY <2>1 DEF Reallocates
  <2> QED BY <1>0, <2>1, <2>2, OrderedReallocates
<1>3. ASSUME NEW t \in Threads, MisreportStep(t) PROVE FALSE
  BY <1>3 DEF MisreportStep, Misreports
<1>4. ASSUME NEW t \in Threads, KindReallocNull(t) PROVE FALSE
  <2>1. PICK size \in Sizes, hot \in Tiers : Push(Create(UnknownHash, NULL, size, hot), FALSE)
    BY <1>4 DEF KindReallocNull
  <2>2. Create(UnknownHash, NULL, size, hot) \in Event
    BY Constants, EventTypes DEF Event
  <2> QED BY <1>0, <2>1, <2>2, PushEffect
<1>5. ASSUME NEW t \in Threads, KindReallocMalloc(t) PROVE FALSE
  <2>1. clean /\ call[t].op = "malloc"
    BY <1>5 DEF KindReallocMalloc
  <2> QED BY <1>0, <2>1 DEF Ordered
<1>6. ASSUME NEW t \in Threads, PostAlloc(t) PROVE Ordered' /\ Exact(tk)'
  <2>1. call[t].op = "push" /\ Push(call[t].event, TRUE) /\ tk' = tk
    BY <1>6 DEF PostAlloc
  <2>2. call[t].event \in Event
    BY <1>0, <2>1, CallForms DEF Event
  <2>3. clean
    BY <1>0, <2>1, <2>2, PushEffect
  <2> QED BY <1>0, <1>6, <2>1, <2>3, OrderedPostAlloc
<1>7. ASSUME NEW t \in Threads, FreePush(t) PROVE Ordered' /\ Exact(tk)'
  <2>1. PICK a \in Owned : Push(Destroy(a), TRUE)
    BY <1>7 DEF FreePush
  <2>2. Destroy(a) \in Event /\ tk' = tk
    BY <1>0, <1>7, OwnedLive, DestroyType DEF Event, FreePush
  <2>3. clean
    BY <1>0, <2>1, <2>2, PushEffect
  <2> QED BY <1>0, <1>7, <2>2, <2>3, OrderedFreePush
<1>8. ASSUME NEW t \in Threads, FreeBlock(t) PROVE Ordered' /\ Exact(tk)'
  <2>1. clean /\ tk' = tk
    BY <1>8 DEF FreeBlock
  <2> QED BY <1>0, <1>8, <2>1, OrderedFreeBlock
<1>9. ASSUME PopEvent PROVE Ordered' /\ Exact(tk)'
  <2>1. clean
    BY <1>9 DEF PopEvent
  <2> QED BY <1>0, <1>9, <2>1, OrderedPop, ExactPop
<1>10. ASSUME Sample PROVE Ordered' /\ Exact(tk)'
  <2>1. clean /\ heap' = heap /\ call' = call /\ queue' = queue
    BY <1>10 DEF Sample
  <2>2. PICK a \in Addrs, f \in Hotness : tk' = Touch(tk, a, f)
    BY <1>10 DEF Sample
  <2>3. TrackerOK(tk) /\ a \in Keys
    BY <1>0, Constants DEF TypesOK
  <2>4. tk'.blocks = tk.blocks
    BY <1>0, <2>2, <2>3, TouchEffect DEF Touched
  <2>5. Alternate(queue', tk'.blocks)
    BY <1>0, <2>1, <2>4 DEF Ordered
  <2>6. Ordered'
    BY <1>0, <2>1, <2>4, <2>5, OrderedTracker
  <2> QED BY <1>0, <1>10, <2>1, <2>6, ExactSample
<1>11. ASSUME Stutter PROVE Ordered' /\ Exact(tk)'
  <2>1. clean /\ heap' = heap /\ call' = call /\ queue' = queue /\ tk' = tk
    BY <1>11 DEF Stutter
  <2>2. Alternate(queue', tk'.blocks)
    BY <1>0, <2>1 DEF Ordered
  <2> QED BY <1>0, <2>1, <2>2, OrderedTracker
<1> QED BY <1>0, <1>1, <1>2, <1>3, <1>4, <1>5, <1>6, <1>7, <1>8, <1>9, <1>10, <1>11, Shapes

\* The invariant is inductive ...
LEMMA InvStep ==
  ASSUME Inv, [Next]_vars
  PROVE  Inv'
<1>1. TypesOK /\ Covers(tk) /\ CallsOwn /\ OneBlockEach
  BY DEF Inv
<1>2. TypesOK' /\ Covers(tk)' /\ CallsOwn' /\ OneBlockEach'
  BY <1>1, TypesStep, CallsOwnStep, OneBlockStep
<1>3. clean' => Ordered' /\ Exact(tk)'
  BY <1>2, CleanStep
<1> QED BY <1>2, <1>3 DEF Inv

\* ... and holds at the start.
LEMMA InvInit == Init => Inv
<1> SUFFICES ASSUME Init PROVE Inv
  OBVIOUS
<1>1. /\ heap = NoFunction /\ call = [t \in Threads |-> Idle] /\ queue = <<>>
      /\ tk = EmptyTracker /\ ops = 0 /\ clean = TRUE
  BY DEF Init
<1>2. \A t \in Threads : call[t] = Idle /\ call[t].op = "none"
  BY <1>1 DEF Idle
<1>3. /\ tk = [types |-> tk.types, blocks |-> tk.blocks, agg |-> tk.agg, fault |-> tk.fault]
      /\ tk.types = NoFunction /\ tk.blocks = NoFunction /\ tk.fault = "none"
      /\ tk.agg = [f \in Hotness |-> 0]
  BY <1>1 DEF EmptyTracker
<1>4. DOMAIN NoFunction = {} /\ \A S : NoFunction \in [DOMAIN NoFunction -> S]
  BY DEF NoFunction
<1>5. TrackerOK(tk)
  <2>1. tk.agg \in [Hotness -> 0..SizeModulus - 1]
    BY <1>3, Constants
  <2> QED BY <1>3, <1>4, <2>1 DEF TrackerOK
<1>6. TypesOK
  <2>1. queue \in Seq(Event) /\ Idle \in Calls /\ MaxOps \in Nat
    BY <1>1, OtherCallTypes, BoundAssumption
  <2>2. call \in [Threads -> Calls]
    BY <1>1, <2>1
  <2> QED BY <1>1, <1>4, <1>5, <2>1, <2>2 DEF TypesOK
<1>7. Covers(tk)
  BY <1>3, <1>4 DEF Covers
<1>8. CallsOwn
  BY <1>2 DEF CallsOwn, Busy
<1>9. OneBlockEach
  <2>1. Pushing = {} /\ DOMAIN tk.blocks = {}
    BY <1>2, <1>3, <1>4 DEF Pushing
  <2> QED BY <1>1, <2>1, FS_EmptySet DEF OneBlockEach
<1>10. Len(queue) = 0 /\ DOMAIN heap = {} /\ DOMAIN tk.blocks = {}
  BY <1>1, <1>3, <1>4
<1>11. Ordered
  <2>1. Alternate(queue, tk.blocks)
    BY <1>10 DEF Alternate
  <2>2. \A a \in Keys : Gone(queue, tk.blocks, a)
    BY <1>10 DEF Gone
  <2> QED BY <1>2, <1>10, <2>1, <2>2 DEF Ordered, Departs
<1>12. Exact(tk)
  <2>1. \A f \in Hotness : BlocksAt(tk, f) = {}
    BY <1>10 DEF BlocksAt
  <2>2. SizeOf(tk, {}) = 0
    BY SumEmpty DEF SizeOf
  <2> QED BY <1>3, <1>4, <2>1, <2>2 DEF Exact
<1> QED BY <1>6, <1>7, <1>8, <1>9, <1>11, <1>12 DEF Inv

-----------------------------------------------------------------------------
LEMMA Invariant == Spec => []Inv
<1>1. Inv /\ [Next]_vars => Inv'
  BY InvStep
<1> QED BY <1>1, InvInit, PTL DEF Spec

\* register_block and unregister_block, whatever events are lost, name NULL
\* or come late: the counters of every type cover the blocks registered
\* under it, so that no SUB of unregister_block wraps.
THEOREM CountersCover == Spec => []CountersCoverBlocks
<1>1. Inv => CountersCoverBlocks
  BY DEF Inv, Covers, CountersCoverBlocks
<1> QED BY <1>1, Invariant, PTL

\* ranking_add, ranking_remove and ranking_touch, after any interleaving of
\* the threads' calls with the batches and the samples of the PEBS thread:
\* while every event arrived in order, each hotness has in the ranking what
\* its registered blocks weigh.
THEOREM RankingIsExact == Spec => []RankingExact
<1>1. Inv => RankingExact
  BY DEF Inv, Exact, BlocksAt, HotnessOf, RankingExact
<1> QED BY <1>1, Invariant, PTL

\* The events of pebs_monitor's queue: once all of them are applied, and all
\* calls have returned, tachanka knows exactly the live blocks.
THEOREM QuiescentIsExact == Spec => []QuiescentExact
<1>1. Inv => QuiescentExact
  <2> SUFFICES ASSUME Inv, clean, queue = <<>>, \A t \in Threads : call[t] = Idle
               PROVE  /\ DOMAIN tk.blocks = DOMAIN heap
                      /\ \A a \in DOMAIN heap : /\ tk.blocks[a].type = heap[a].hash
                                                /\ tk.blocks[a].isHot = heap[a].hot
    BY DEF QuiescentExact
  <2>1. TypesOK /\ Ordered /\ Len(queue) = 0
    BY DEF Inv
  <2>2. ASSUME NEW a \in DOMAIN heap
        PROVE  /\ a \in DOMAIN tk.blocks /\ tk.blocks[a].type = heap[a].hash
               /\ tk.blocks[a].isHot = heap[a].hot
    <3>1. Here(queue, tk.blocks, a, heap[a])
      BY <2>1, <2>2 DEF Ordered, Arrives, Busy
    <3> QED BY <2>1, <3>1 DEF Here
  <2>3. ASSUME NEW a \in DOMAIN tk.blocks PROVE a \in DOMAIN heap
    <3> SUFFICES ASSUME a \notin DOMAIN heap PROVE FALSE
      OBVIOUS
    <3>1. a \in Keys /\ Pushing = {}
      BY <2>1 DEF TypesOK, TrackerOK, Pushing, Idle
    <3>2. Gone(queue, tk.blocks, a)
      BY <2>1, <3>1 DEF Ordered, Departs
    <3> QED BY <2>1, <2>3, <3>2 DEF Gone
  <2> QED BY <2>2, <2>3
<1> QED BY <1>1, Invariant, PTL

\* The assertion of ranking_remove_internal_relaxed holds as long as no event
\* was lost, named NULL or came out of order.
THEOREM RelaxedRemoveIsSafe == Spec => [](clean => RelaxedRemoveAssertion)
<1>1. Inv => (clean => RelaxedRemoveAssertion)
  BY DEF Inv, Exact, RelaxedRemoveAssertion
<1> QED BY <1>1, Invariant, PTL

\* ranking_touch puts back as much as it removed: a sample never changes the
\* size in the ranking, even when the counters of the type are wrong.
THEOREM TouchesConserve == Spec => TouchConservesSize
<1>1. ASSUME Inv, Sample
      PROVE  RankedSize(tk') % SizeModulus = RankedSize(tk) % SizeModulus
  <2>1. PICK a \in Addrs, f \in Hotness : tk' = Touch(tk, a, f)
    BY <1>1 DEF Sample
  <2>2. TrackerOK(tk) /\ Covers(tk) /\ a \in Keys
    BY <1>1, Constants DEF Inv, TypesOK
  <2>3. Touched(tk, tk')
    BY <2>1, <2>2, TouchEffect
  <2> QED BY <2>3 DEF Touched
<1>2. Inv => [Sample => RankedSize(tk') % SizeModulus = RankedSize(tk) % SizeModulus]_vars
  BY <1>1
<1> QED BY <1>2, Invariant, PTL DEF TouchConservesSize

-----------------------------------------------------------------------------
\* Type correctness: besides Inv, the heap's blocks are disjoint and the
\* counters within their bounds.

HeapOK == \A a \in DOMAIN heap : Fits(a, heap[a].len, DOMAIN heap \ {a})

Bounded ==
  /\ Len(queue) =< QueueSize /\ batch \in 0..BatchLimit /\ touches \in 0..MaxTouches
  /\ pebs \in {"events", "samples"}

\* The heap after a step: blocks D stay, and a block of extent x may arrive
\* at b where it fits between them.
Keeps(D) == D \subseteq DOMAIN heap /\ \A d \in D : heap'[d] = heap[d]
ShrinksTo(D) == Keeps(D) /\ DOMAIN heap' = D
GrowsBy(D, b, x) == /\ Keeps(D) /\ DOMAIN heap' = D \cup {b} /\ heap'[b] = x
                    /\ b \in Addrs /\ b \notin D /\ x \in Extents /\ Fits(b, x.len, D)
HeapStep == \E D : ShrinksTo(D) \/ \E b, x : GrowsBy(D, b, x)

\* Allocations and their extents.
LEMMA HeapArrives ==
  ASSUME TypesOK, NEW b \in Addrs, NEW x \in Extents, Fits(b, x.len, DOMAIN heap),
         heap' = Put(heap, b, x)
  PROVE  HeapStep
<1>1. b \notin DOMAIN heap
  <2>1. x.len \in Nat \ {0}
    BY DEF Extents
  <2> QED BY <2>1, FitsFree
<1>2. DOMAIN heap' = DOMAIN heap \cup {b} /\ heap'[b] = x
      /\ \A d \in DOMAIN heap : heap'[d] = heap[d]
  BY <1>1 DEF Put
<1>3. GrowsBy(DOMAIN heap, b, x)
  BY <1>1, <1>2 DEF GrowsBy, Keeps
<1> QED BY <1>3 DEF HeapStep

\* Every step changes the heap in one of these ways.
LEMMA HeapSteps ==
  ASSUME TypesOK, [Next]_vars
  PROVE  HeapStep
<1>0. UnknownHash \in AllHashes /\ Hashes \subseteq AllHashes
  BY Constants
<1>1. ASSUME heap' = heap PROVE HeapStep
  <2>1. ShrinksTo(DOMAIN heap)
    BY <1>1 DEF ShrinksTo, Keeps
  <2> QED BY <2>1 DEF HeapStep
<1>2. ASSUME NEW t \in Threads, Malloc(t) PROVE HeapStep
  <2>1. PICK hash \in Hashes, size \in Sizes, hot \in Tiers, a \in Addrs :
          Fits(a, size, DOMAIN heap) /\ heap' = Put(heap, a, Extent(size, hash, hot))
    BY <1>2 DEF Malloc
  <2>2. PICK x : x = Extent(size, hash, hot)
    OBVIOUS
  <2>3. x \in Extents /\ x.len = size
    <3>1. size \in Nat \ {0} /\ hash \in AllHashes
      BY <1>0, SizesPositive
    <3>2. x \in Extents
      BY <2>2, <3>1, ExtentTypes
    <3> QED BY <2>2, <3>2 DEF Extent
  <2>4. heap' = Put(heap, a, x) /\ Fits(a, x.len, DOMAIN heap)
    BY <2>1, <2>2, <2>3
  <2> QED BY <2>3, <2>4, HeapArrives
<1>3. ASSUME NEW t \in Threads, Calloc(t) PROVE HeapStep
  <2>1. PICK hash \in Hashes, size \in Sizes, hot \in Tiers, a \in Addrs :
          Fits(a, 2 * size, DOMAIN heap) /\ heap' = Put(heap, a, Extent(2 * size, hash, hot))
    BY <1>3 DEF Calloc
  <2>2. PICK n, x : n = 2 * size /\ x = Extent(n, hash, hot)
    OBVIOUS
  <2>3. x \in Extents /\ x.len = n
    <3>1. size \in Nat /\ size > 0 /\ hash \in AllHashes
      BY <1>0, SizesPositive
    <3>2. n \in Nat \ {0}
      BY <2>2, <3>1
    <3>3. x \in Extents
      BY <2>2, <3>1, <3>2, ExtentTypes
    <3> QED BY <2>2, <3>3 DEF Extent
  <2>4. heap' = Put(heap, a, x) /\ Fits(a, x.len, DOMAIN heap)
    BY <2>1, <2>2, <2>3
  <2> QED BY <2>3, <2>4, HeapArrives
<1>4. ASSUME NEW t \in Threads, KindReallocMalloc(t) PROVE HeapStep
  <2>1. CASE heap' = heap
    BY <1>1, <2>1
  <2>2. CASE heap' # heap
    <3>1. PICK a \in Addrs : /\ Fits(a, call[t].len, DOMAIN heap)
                             /\ heap' = Put(heap, a, Extent(call[t].len, UnknownHash, call[t].hot))
      BY <1>4, <2>2 DEF KindReallocMalloc
    <3>2. PICK n, hot, x : n = call[t].len /\ hot = call[t].hot /\ x = Extent(n, UnknownHash, hot)
      OBVIOUS
    <3>3. x \in Extents /\ x.len = n
      <4>1. n \in Nat \ {0} /\ hot \in Tiers
        BY <1>4, <3>2, CallForms, SizesPositive DEF KindReallocMalloc
      <4>2. x \in Extents
        BY <1>0, <3>2, <4>1, ExtentTypes
      <4> QED BY <3>2, <4>2 DEF Extent
    <3>4. heap' = Put(heap, a, x) /\ Fits(a, x.len, DOMAIN heap)
      BY <3>1, <3>2, <3>3
    <3> QED BY <3>3, <3>4, HeapArrives
  <2> QED BY <2>1, <2>2
<1>5. ASSUME NEW t \in Threads, ReallocBlock(t) PROVE HeapStep
  <2>1. PICK a \in Owned, size \in Sizes, b \in Addrs :
          /\ Fits(b, size, IF b = a THEN DOMAIN heap \ {a} ELSE DOMAIN heap)
          /\ heap' = Put(Drop(a), b, Extent(size, UnknownHash, heap[a].hot))
    BY <1>5 DEF ReallocBlock
  <2>2. PICK x, D : x = Extent(size, UnknownHash, heap[a].hot) /\ D = DOMAIN heap \ {a}
    OBVIOUS
  <2>3. x \in Extents /\ x.len = size /\ size \in Nat \ {0}
    <3>1. size \in Nat \ {0} /\ heap[a].hot \in Tiers
      BY OwnedLive, SizesPositive DEF TypesOK, Extents
    <3>2. x \in Extents
      BY <1>0, <2>2, <3>1, ExtentTypes
    <3> QED BY <2>2, <3>1, <3>2 DEF Extent
  <2>4. Fits(b, x.len, D)
    <3>1. Fits(b, size, D)
      BY <2>1, <2>2 DEF Fits
    <3> QED BY <2>3, <3>1
  <2>5. b \notin D
    BY <2>2, <2>3, <2>4, FitsFree
  <2>6. DOMAIN heap' = D \cup {b} /\ heap'[b] = x /\ \A d \in D : heap'[d] = heap[d]
    <3>1. DOMAIN Drop(a) = D /\ \A d \in D : Drop(a)[d] = heap[d]
      BY <2>2, HeapDrop
    <3>2. heap' = Put(Drop(a), b, x)
      BY <2>1, <2>2
    <3> QED BY <2>5, <3>1, <3>2 DEF Put
  <2>7. GrowsBy(D, b, x)
    BY <2>2, <2>3, <2>4, <2>5, <2>6 DEF GrowsBy, Keeps
  <2> QED BY <2>7 DEF HeapStep
<1>6. ASSUME NEW t \in Threads, FreeBlock(t) PROVE HeapStep
  <2>1. heap' = Drop(call[t].addr)
    BY <1>6 DEF FreeBlock
  <2>2. ShrinksTo(DOMAIN heap')
    BY <2>1, HeapDrop DEF ShrinksTo, Keeps
  <2> QED BY <2>2 DEF HeapStep
<1>7. ASSUME NEW t \in Threads, MallocFails(t) \/ KindReallocNull(t) \/ ReallocFails(t)
                                \/ FreePush(t) \/ PostAlloc(t)
      PROVE  HeapStep
  <2>1. heap' = heap
    BY <1>7 DEF MallocFails, KindReallocNull, ReallocFails, FreePush, PostAlloc
  <2> QED BY <1>1, <2>1
<1>8. ASSUME PebsStep \/ UNCHANGED vars PROVE HeapStep
  <2>1. heap' = heap
    BY <1>8 DEF PebsStep, PopEvent, EndBatch, Sample, EndCycle, vars
  <2> QED BY <1>1, <2>1
<1> QED BY <1>2, <1>3, <1>4, <1>5, <1>6, <1>7, <1>8 DEF Next, Finish

\* Which keep its blocks disjoint.
LEMMA HeapOKStep ==
  ASSUME TypesOK, HeapOK, HeapStep
  PROVE  HeapOK'
<1>0. heap \in [DOMAIN heap -> Extents] /\ DOMAIN heap \subseteq Addrs
      /\ MaxAddr \in Nat /\ \A a \in Addrs : a \in Int
  BY Constants DEF TypesOK, Addrs
<1>1. PICK D : ShrinksTo(D) \/ \E b, x : GrowsBy(D, b, x)
  BY DEF HeapStep
<1>2. Keeps(D)
  BY <1>1 DEF ShrinksTo, GrowsBy
<1>3. ASSUME NEW a \in D, NEW d \in D, a # d
      PROVE  ~Overlap(a, heap'[a].len, d, heap'[d].len)
  BY <1>2, <1>3 DEF Keeps, HeapOK, Fits
<1>4. ASSUME NEW a \in D PROVE a + heap'[a].len - 1 =< MaxAddr
  BY <1>2, <1>4 DEF Keeps, HeapOK, Fits
<1>5. CASE ShrinksTo(D)
  <2>1. DOMAIN heap' = D
    BY <1>5 DEF ShrinksTo
  <2> QED BY <1>3, <1>4, <2>1 DEF HeapOK, Fits
<1>6. CASE \E b, x : GrowsBy(D, b, x)
  <2>1. PICK b, x : GrowsBy(D, b, x)
    BY <1>6
  <2>2. /\ DOMAIN heap' = D \cup {b} /\ heap'[b] = x /\ b \in Addrs /\ b \notin D
        /\ x.len \in Nat /\ b + x.len - 1 =< MaxAddr
        /\ \A d \in D : ~Overlap(b, x.len, d, heap[d].len)
    BY <2>1 DEF GrowsBy, Fits, Extents
  <2>3. ASSUME NEW d \in D
        PROVE  /\ ~Overlap(b, heap'[b].len, d, heap'[d].len)
               /\ ~Overlap(d, heap'[d].len, b, heap'[b].len)
    <3>1. d \in Int /\ b \in Int /\ heap[d].len \in Int /\ heap'[d] = heap[d]
      BY <1>0, <1>2, <2>2 DEF Keeps, Extents
    <3>2. ~Overlap(b, x.len, d, heap[d].len)
      BY <2>2
    <3>3. ~Overlap(d, heap[d].len, b, x.len)
      BY <3>1, <3>2 DEF Overlap
    <3> QED BY <2>2, <3>1, <3>2, <3>3
  <2> QED BY <1>3, <1>4, <2>2, <2>3 DEF HeapOK, Fits
<1> QED BY <1>1, <1>5, <1>6

\* The queue, the batches and the samples keep their bounds.
LEMMA BoundedStep ==
  ASSUME TypesOK, Bounded, [Next]_vars
  PROVE  Bounded'
<1>0. /\ Len(queue) =< QueueSize /\ batch \in 0..BatchLimit /\ touches \in 0..MaxTouches
      /\ pebs \in {"events", "samples"} /\ queue \in Seq(Event)
      /\ QueueSize \in Nat /\ BatchLimit \in Nat /\ MaxTouches \in Nat
  BY QueueAssumption, BoundAssumption DEF Bounded, TypesOK
<1>1. ASSUME NEW e, NEW sound, Push(e, sound) PROVE Len(queue') =< QueueSize
  <2>1. CASE queue' = queue
    BY <1>0, <2>1
  <2>2. CASE queue' # queue
    <3>1. Len(queue) < QueueSize /\ queue' = Append(queue, e)
      BY <1>1, <2>2 DEF Push
    <3>2. Len(queue') = Len(queue) + 1 /\ Len(queue) \in Nat
      BY <1>0, <3>1
    <3> QED BY <1>0, <3>1, <3>2
  <2> QED BY <2>1, <2>2
<1>2. ASSUME Len(queue') =< QueueSize, UNCHANGED <<batch, touches, pebs>> PROVE Bounded'
  BY <1>0, <1>2 DEF Bounded
<1>3. ASSUME NEW t \in Threads, PostAlloc(t) \/ FreePush(t) \/ KindReallocNull(t)
      PROVE  Bounded'
  <2>1. \E e, sound : Push(e, sound)
    BY <1>3 DEF PostAlloc, FreePush, KindReallocNull
  <2>2. UNCHANGED <<batch, touches, pebs>>
    BY <1>3 DEF PostAlloc, FreePush, KindReallocNull
  <2> QED BY <1>1, <1>2, <2>1, <2>2
<1>4. ASSUME NEW t \in Threads, Malloc(t) \/ Calloc(t) \/ MallocFails(t) \/ ReallocBlock(t)
                                \/ ReallocFails(t) \/ FreeBlock(t) \/ KindReallocMalloc(t)
      PROVE  Bounded'
  <2>1. UNCHANGED <<queue, batch, touches, pebs>>
    BY <1>4 DEF Malloc, Calloc, MallocFails, ReallocBlock, ReallocFails, FreeBlock,
                KindReallocMalloc
  <2> QED BY <1>0, <1>2, <2>1
<1>5. ASSUME PopEvent PROVE Bounded'
  <2>1. /\ queue # <<>> /\ queue' = Tail(queue) /\ batch < BatchLimit /\ batch' = batch + 1
        /\ touches' = touches /\ pebs' = pebs
    BY <1>5 DEF PopEvent
  <2>2. Len(queue') = Len(queue) - 1 /\ Len(queue) \in Nat
    BY <1>0, <2>1, TailPopped
  <2> QED BY <1>0, <2>1, <2>2 DEF Bounded
<1>6. ASSUME EndBatch \/ EndCycle PROVE Bounded'
  <2>1. /\ queue' = queue /\ touches' = touches /\ pebs' \in {"events", "samples"}
        /\ batch' = batch \/ batch' = 0
    BY <1>6 DEF EndBatch, EndCycle
  <2> QED BY <1>0, <2>1 DEF Bounded
<1>7. ASSUME Sample PROVE Bounded'
  <2>1. /\ queue' = queue /\ touches < MaxTouches /\ touches' = touches + 1
        /\ pebs' = pebs /\ batch' = batch
    BY <1>7 DEF Sample
  <2> QED BY <1>0, <2>1 DEF Bounded
<1>8. ASSUME UNCHANGED vars PROVE Bounded'
  BY <1>8, <1>0, <1>2 DEF vars
<1> QED BY <1>3, <1>4, <1>5, <1>6, <1>7, <1>8 DEF Next, Finish, PebsStep

\* The heap's blocks are disjoint, no type pointer of a block dangles, the
\* queue and the batches keep their bounds, and an event is one of
\* EVENT_TYPE's three.
THEOREM PipelineTypes == Spec => []TypeOK
<1>1. Init => HeapOK /\ Bounded
  <2> SUFFICES ASSUME Init PROVE HeapOK /\ Bounded
    OBVIOUS
  <2>1. DOMAIN heap = {} /\ Len(queue) = 0 /\ batch = 0 /\ touches = 0 /\ pebs = "events"
    BY DEF Init, NoFunction
  <2> QED BY <2>1, QueueAssumption, BoundAssumption DEF HeapOK, Bounded
<1>2. Inv /\ HeapOK /\ Bounded /\ [Next]_vars => (HeapOK /\ Bounded)'
  BY HeapSteps, HeapOKStep, BoundedStep DEF Inv
<1>3. Inv /\ HeapOK /\ Bounded => TypeOK
  <2> SUFFICES ASSUME Inv, HeapOK, Bounded PROVE TypeOK
    OBVIOUS
  <2>1. TypesOK
    BY DEF Inv
  <2>2. /\ DOMAIN tk.types \subseteq AllHashes /\ DOMAIN tk.blocks \subseteq Keys
        /\ \A h \in DOMAIN tk.types : tk.types[h].f \in Hotness
        /\ \A a \in DOMAIN tk.blocks : tk.blocks[a].type \in DOMAIN tk.types
        /\ tk.agg \in [Hotness -> 0..SizeModulus - 1]
        /\ tk.fault \in {"none", "underflow", "assert"}
    BY <2>1 DEF TypesOK, TrackerOK, TypeRecords, BlockRecords
  <2>3. ops \in 0..MaxOps
    BY <2>1, BoundAssumption DEF TypesOK
  <2>4. ASSUME NEW e \in Events PROVE e.type \in {"CREATE_ADD", "DESTROY_REMOVE", "REALLOC"}
    <3>1. e \in Event
      <4>1. CASE \E t \in Threads : call[t].op = "push" /\ e = call[t].event
        BY <2>1, <4>1, CallForms DEF Event
      <4>2. CASE \E i \in 1..Len(queue) : e = queue[i]
        BY <2>1, <4>2 DEF TypesOK
      <4> QED BY <2>4, <4>1, <4>2 DEF Events
    <3> QED BY <3>1 DEF Event, Creates, Destroys, Moves
  <2> QED BY <2>1, <2>2, <2>3, <2>4 DEF TypeOK, TypesOK, HeapOK, Bounded
<1> QED BY <1>1, <1>2, <1>3, Invariant, PTL DEF Spec

=============================================================================
