------------------------- MODULE SlabAllocatorProofs -------------------------
(***************************************************************************)
(* TLAPS proofs about SlabAllocator, for any number of threads, any        *)
(* element, page and pool size.  The usage contract SafeUse is an explicit *)
(* hypothesis of every theorem.                                            *)
(***************************************************************************)
EXTENDS SlabAllocator, FiniteSetTheorems, TLAPS

(***************************************************************************)
(* Arithmetic of pages and elements                                        *)
(***************************************************************************)

\* Integer division, as the alignment in bigary_alloc uses it.
LEMMA DivBounds ==
    ASSUME NEW a \in Nat, NEW p \in Nat, p > 0
    PROVE  /\ a \div p \in Nat
           /\ (a \div p) * p <= a
           /\ a < (a \div p) * p + p
  <1>1. a \div p \in Nat OBVIOUS
  <1>2. a % p \in 0..p - 1 OBVIOUS
  <1>3. a = p * (a \div p) + (a % p) OBVIOUS
  <1>4. QED BY <1>1, <1>2, <1>3

\* Multiplication is monotone, in the two forms the page arithmetic needs.
LEMMA Monotone ==
    ASSUME NEW a \in Nat, NEW b \in Nat, NEW p \in Nat
    PROVE  /\ a * p \in Nat
           /\ a <= b => a * p <= b * p
           /\ p > 0 /\ a * p < b * p + p => a <= b
  OBVIOUS

\* Aligning up never loses bytes, and a non-empty request takes at least a page.
LEMMA AlignUpBounds ==
    ASSUME NEW x \in Nat
    PROVE  /\ AlignUp(x) \in Nat /\ x <= AlignUp(x)
           /\ x > 0 => PageSize <= AlignUp(x)
  <1> DEFINE a == x + PageSize - 1
             q == a \div PageSize
  <1>1. a \in Nat /\ PageSize \in Nat /\ PageSize > 0 BY SlabAssumption
  <1> HIDE DEF a
  <1>2. q \in Nat /\ q * PageSize <= a /\ a < q * PageSize + PageSize
    BY <1>1, DivBounds
  <1> HIDE DEF q
  <1>3. q * PageSize \in Nat BY <1>1, <1>2, Monotone
  <1>4. x <= q * PageSize BY <1>1, <1>2, <1>3 DEF a
  <1>5. x > 0 => 1 <= q
    <2>1. SUFFICES ASSUME x > 0, q = 0 PROVE FALSE BY <1>2
    <2>2. q * PageSize = 0 BY <2>1, <1>1
    <2>3. QED BY <2>1, <2>2, <1>1, <1>2 DEF a
  <1>6. 1 <= q => PageSize <= q * PageSize
    <2>1. 1 <= q => 1 * PageSize <= q * PageSize BY <1>1, <1>2, Monotone
    <2>2. QED BY <2>1, <1>1
  <1>7. AlignUp(x) = q * PageSize BY DEF AlignUp, q, a
  <1>8. QED BY <1>3, <1>4, <1>5, <1>6, <1>7

\* Aligning up is monotone: the rounding of the maximum in bigary_init and the
\* alignment of a request in bigary_alloc agree.
LEMMA AlignUpMonotone ==
    ASSUME NEW x \in Nat, NEW y \in Nat, x <= y
    PROVE  AlignUp(x) <= AlignUp(y)
  <1> DEFINE a == x + PageSize - 1
             b == y + PageSize - 1
             q == a \div PageSize
             r == b \div PageSize
  <1>1. a \in Nat /\ b \in Nat /\ a <= b /\ PageSize \in Nat /\ PageSize > 0
    BY SlabAssumption
  <1> HIDE DEF a, b
  <1>2. q \in Nat /\ q * PageSize <= a BY <1>1, DivBounds
  <1>3. r \in Nat /\ b < r * PageSize + PageSize BY <1>1, DivBounds
  <1> HIDE DEF q, r
  <1>4. q * PageSize \in Nat /\ r * PageSize \in Nat BY <1>1, <1>2, <1>3, Monotone
  <1>5. q * PageSize < r * PageSize + PageSize BY <1>1, <1>2, <1>3, <1>4
  <1>6. q <= r BY <1>1, <1>2, <1>3, <1>5, Monotone
  <1>7. q * PageSize <= r * PageSize BY <1>1, <1>2, <1>3, <1>6, Monotone
  <1>8. AlignUp(x) = q * PageSize /\ AlignUp(y) = r * PageSize
    BY DEF AlignUp, q, r, a, b
  <1>9. QED BY <1>7, <1>8

\* The range bigary_init declares holds a page, and every element whose bytes
\* fit it is one of Elements.
LEMMA RangeFacts ==
    /\ declared \in Nat /\ PageSize \in Nat /\ PageSize <= declared
    /\ \A n \in Nat : Need(n) \in Nat /\ n < Need(n)
    /\ \A n \in Nat : AlignUp(Need(n)) \in Nat /\ Need(n) <= AlignUp(Need(n))
    /\ \A n \in Nat : Need(n) <= declared => n \in Elements
    /\ \A n \in Elements : n \in Nat /\ Need(n) <= declared
    /\ NULL \notin Nat /\ NULL \notin Threads /\ NULL \notin Elements
  <1>1. declared \in Nat /\ PageSize \in Nat /\ PageSize <= declared
    <2> DEFINE m == MaxElements * ElementSize
               x == IF m = 0 THEN DefaultMax ELSE m
    <2>1. m \in Nat BY SlabAssumption, Monotone
    <2>2. x \in Nat /\ x > 0 BY <2>1, SlabAssumption
    <2> HIDE DEF x
    <2>3. AlignUp(x) \in Nat /\ PageSize <= AlignUp(x) BY <2>2, AlignUpBounds
    <2>4. declared = AlignUp(x) BY DEF declared, Declare, x
    <2>5. QED BY <2>3, <2>4, SlabAssumption
  <1>2. \A n \in Nat : Need(n) \in Nat /\ n < Need(n)
    <2>1. TAKE n \in Nat
    <2>2. ElementSize \in Nat /\ ElementSize >= 1 BY SlabAssumption
    <2>3. (n + 1) * ElementSize \in Nat BY <2>2, Monotone
    <2>4. n + 1 <= (n + 1) * ElementSize BY <2>2
    <2>5. QED BY <2>3, <2>4 DEF Need
  <1>3. \A n \in Nat : AlignUp(Need(n)) \in Nat /\ Need(n) <= AlignUp(Need(n))
    BY <1>2, AlignUpBounds
  <1>4. \A n \in Nat : Need(n) <= declared => n \in Elements
    <2>1. TAKE n \in Nat
    <2>2. HAVE Need(n) <= declared
    <2>3. n \in 0..declared BY <1>1, <1>2, <2>2
    <2>4. QED BY <2>2, <2>3 DEF Elements
  <1>5. \A n \in Elements : n \in Nat /\ Need(n) <= declared BY <1>1 DEF Elements
  <1>6. NULL \notin Nat /\ NULL \notin Threads /\ NULL \notin Elements
    BY <1>5, SlabAssumption DEF Threads
  <1>7. QED BY <1>1, <1>2, <1>3, <1>4, <1>5, <1>6

\* What an action leaves alone: the locals of every thread but t.
Others(t) == \A u \in Threads : u # t =>
    pc'[u] = pc[u] /\ meta'[u] = meta[u] /\ nxt'[u] = nxt[u]

(***************************************************************************)
(* Types                                                                   *)
(***************************************************************************)

\* PopLoad keeps every variable in its type and touches only the locals of t.
LEMMA PopLoadType ==
    ASSUME TypeOK, NEW t \in Threads, PopLoad(t)
    PROVE  TypeOK' /\ Others(t)
  <1> USE DEF PopLoad, Goto, Running, listVars, bigaryVars
  <1>1. Others(t) BY DEF Others, TypeOK
  <1>2. TypeOK' BY RangeFacts DEF TypeOK, MallocSteps, CreateSteps
  <1>3. QED BY <1>1, <1>2

\* PopReadNext keeps every variable in its type and touches only the locals of t.
LEMMA PopReadNextType ==
    ASSUME TypeOK, PopInv, NEW t \in Threads, PopReadNext(t)
    PROVE  TypeOK' /\ Others(t)
  <1> USE DEF PopReadNext, Goto, Running, listVars, bigaryVars
  <1>1. Others(t) BY DEF Others, TypeOK
  <1>2. TypeOK' BY RangeFacts DEF TypeOK, MallocSteps, CreateSteps, PopInv
  <1>3. QED BY <1>1, <1>2

\* PopCas keeps every variable in its type and touches only the locals of t.
LEMMA PopCasType ==
    ASSUME TypeOK, PopInv, NEW t \in Threads, PopCas(t)
    PROVE  TypeOK' /\ Others(t)
  <1> USE DEF PopCas, Goto, Return, PopChain, Running, listVars, bigaryVars
  <1>1. Others(t) BY DEF Others, TypeOK
  <1>2. meta[t] \in Elements BY DEF PopInv
  <1>3. chain' \in Seq(Elements) BY DEF TypeOK
  <1>4. held' \in [Elements -> Nat] BY <1>2 DEF TypeOK
  <1>5. pc'[t] = "idle" /\ meta' \in [Threads -> Nat \cup {NULL}]
        /\ nxt' \in [Threads -> Elements \cup {NULL}]
    BY DEF TypeOK
  <1>6. pc' \in [Threads -> MallocSteps \cup {"idle", "push", "push_cas"}] BY DEF TypeOK
  <1>7. freelist' \in Elements \cup {NULL} BY DEF TypeOK
  <1>8. \A u \in Threads : pc'[u] = "init_meta" => meta'[u] \in Elements
    BY <1>1, <1>5 DEF TypeOK, Others
  <1>9. QED BY <1>1, <1>3, <1>4, <1>5, <1>6, <1>7, <1>8 DEF TypeOK

\* PopCasFail keeps every variable in its type and touches only the locals of t.
LEMMA PopCasFailType ==
    ASSUME TypeOK, NEW t \in Threads, PopCasFail(t)
    PROVE  TypeOK' /\ Others(t)
  <1> USE DEF PopCasFail, Goto, Running, listVars, bigaryVars
  <1>1. Others(t) BY DEF Others, TypeOK
  <1>2. TypeOK' BY RangeFacts DEF TypeOK, MallocSteps, CreateSteps
  <1>3. QED BY <1>1, <1>2

\* FetchIncrementUsed keeps every variable in its type and touches only the locals of t.
LEMMA FetchIncrementUsedType ==
    ASSUME TypeOK, NEW t \in Threads, FetchIncrementUsed(t)
    PROVE  TypeOK' /\ Others(t)
  <1> USE DEF FetchIncrementUsed, Goto, Running, listVars, bigaryVars
  <1>1. Others(t) BY DEF Others, TypeOK
  <1>2. meta' \in [Threads -> Nat \cup {NULL}] BY DEF TypeOK
  <1>3. pc' \in [Threads -> MallocSteps \cup {"idle", "push", "push_cas"}] /\ pc'[t] = "grow"
    BY DEF TypeOK, MallocSteps, CreateSteps
  <1>4. \A u \in Threads : pc'[u] = "init_meta" => meta'[u] \in Elements
    BY <1>1, <1>3 DEF TypeOK, Others
  <1>5. used' \in Nat BY DEF TypeOK
  <1>6. QED BY <1>1, <1>2, <1>3, <1>4, <1>5 DEF TypeOK

\* CheckTop keeps every variable in its type and touches only the locals of t.
LEMMA CheckTopType ==
    ASSUME TypeOK, PlaceInv, GrowInv, NEW t \in Threads, CheckTop(t)
    PROVE  TypeOK' /\ Others(t)
  <1> USE DEF CheckTop, Goto, Running, listVars, bigaryVars
  <1>1. Others(t) BY DEF Others, TypeOK
  <1>2. meta[t] \in Nat BY DEF PlaceInv, Busy, Creating, CreateSteps
  <1>3. top >= Need(meta[t]) => meta[t] \in Elements
    <2>1. top \in Nat /\ top <= declared BY DEF TypeOK, GrowInv
    <2>2. Need(meta[t]) \in Nat /\ declared \in Nat BY <1>2, RangeFacts
    <2>3. QED BY <1>2, <2>1, <2>2, RangeFacts
  <1>4. pc' \in [Threads -> MallocSteps \cup {"idle", "push", "push_cas"}]
    BY DEF TypeOK, MallocSteps, CreateSteps
  <1>5. pc'[t] = "init_meta" => meta'[t] \in Elements BY <1>3 DEF TypeOK
  <1>6. \A u \in Threads : pc'[u] = "init_meta" => meta'[u] \in Elements
    BY <1>1, <1>5 DEF TypeOK, Others
  <1>7. QED BY <1>1, <1>4, <1>6 DEF TypeOK

\* LockEnlargement keeps every variable in its type and touches only the locals of t.
LEMMA LockEnlargementType ==
    ASSUME TypeOK, NEW t \in Threads, LockEnlargement(t)
    PROVE  TypeOK' /\ Others(t)
  <1> USE DEF LockEnlargement, Goto, Running, listVars, bigaryVars
  <1>1. Others(t) BY DEF Others, TypeOK
  <1>2. TypeOK' BY RangeFacts DEF TypeOK, MallocSteps, CreateSteps
  <1>3. QED BY <1>1, <1>2

\* Recheck keeps every variable in its type and touches only the locals of t.
LEMMA RecheckType ==
    ASSUME TypeOK, NEW t \in Threads, Recheck(t)
    PROVE  TypeOK' /\ Others(t)
  <1> USE DEF Recheck, Goto, Running, listVars, bigaryVars
  <1>1. Others(t) BY DEF Others, TypeOK
  <1>2. TypeOK' BY RangeFacts DEF TypeOK, MallocSteps, CreateSteps
  <1>3. QED BY <1>1, <1>2

\* MapMore keeps every variable in its type and touches only the locals of t.
LEMMA MapMoreType ==
    ASSUME TypeOK, PlaceInv, NEW t \in Threads, MapMore(t)
    PROVE  TypeOK' /\ Others(t)
  <1> USE DEF MapMore, Goto, Running, listVars, bigaryVars
  <1>1. Others(t) BY DEF Others, TypeOK
  <1>2. TypeOK' BY RangeFacts DEF TypeOK, MallocSteps, CreateSteps, PlaceInv, Busy, Creating
  <1>3. QED BY <1>1, <1>2

\* MapFails keeps every variable in its type and touches only the locals of t.
LEMMA MapFailsType ==
    ASSUME TypeOK, NEW t \in Threads, MapFails(t)
    PROVE  TypeOK' /\ Others(t)
  <1> USE DEF MapFails, Goto, Running, listVars, bigaryVars
  <1>1. Others(t) BY DEF Others, TypeOK
  <1>2. TypeOK' BY RangeFacts DEF TypeOK, MallocSteps, CreateSteps
  <1>3. QED BY <1>1, <1>2

\* SetTop keeps every variable in its type and touches only the locals of t.
LEMMA SetTopType ==
    ASSUME TypeOK, PlaceInv, NEW t \in Threads, SetTop(t)
    PROVE  TypeOK' /\ Others(t)
  <1> USE DEF SetTop, Goto, Running, listVars, bigaryVars
  <1>1. Others(t) BY DEF Others, TypeOK
  <1>2. TypeOK' BY RangeFacts DEF TypeOK, MallocSteps, CreateSteps, PlaceInv, Busy, Creating
  <1>3. QED BY <1>1, <1>2

\* UnlockEnlargement keeps every variable in its type and touches only the locals of t.
LEMMA UnlockEnlargementType ==
    ASSUME TypeOK, PlaceInv, GrowInv, NEW t \in Threads, UnlockEnlargement(t)
    PROVE  TypeOK' /\ Others(t)
  <1> USE DEF UnlockEnlargement, Goto, Running, listVars, bigaryVars
  <1>1. Others(t) BY DEF Others, TypeOK
  <1>2. meta[t] \in Nat BY DEF PlaceInv, Busy, Creating, CreateSteps
  <1>3. meta[t] \in Elements BY <1>2, RangeFacts DEF TypeOK, GrowInv
  <1>4. pc' \in [Threads -> MallocSteps \cup {"idle", "push", "push_cas"}]
    BY DEF TypeOK, MallocSteps, CreateSteps
  <1>5. \A u \in Threads : pc'[u] = "init_meta" => meta'[u] \in Elements
    BY <1>1, <1>3 DEF TypeOK, Others
  <1>6. QED BY <1>1, <1>4, <1>5 DEF TypeOK

\* InitMeta keeps every variable in its type and touches only the locals of t.
LEMMA InitMetaType ==
    ASSUME TypeOK, NEW t \in Threads, InitMeta(t)
    PROVE  TypeOK' /\ Others(t)
  <1> USE DEF InitMeta, Goto, Return, Running, listVars, bigaryVars
  <1>1. Others(t) BY DEF Others, TypeOK
  <1>2. meta[t] \in Elements BY DEF TypeOK
  <1>3. next' \in [Elements -> Elements \cup {NULL}] BY DEF TypeOK
  <1>4. held' \in [Elements -> Nat] BY <1>2 DEF TypeOK
  <1>5. pc'[t] = "idle" /\ meta' \in [Threads -> Nat \cup {NULL}]
        /\ nxt' \in [Threads -> Elements \cup {NULL}]
    BY DEF TypeOK
  <1>6. pc' \in [Threads -> MallocSteps \cup {"idle", "push", "push_cas"}] BY DEF TypeOK
  <1>7. \A u \in Threads : pc'[u] = "init_meta" => meta'[u] \in Elements
    BY <1>1, <1>5 DEF TypeOK, Others
  <1>8. QED BY <1>1, <1>3, <1>4, <1>5, <1>6, <1>7 DEF TypeOK

\* PushLoad keeps every variable in its type and touches only the locals of t.
LEMMA PushLoadType ==
    ASSUME TypeOK, GrowInv, NEW t \in Threads, PushLoad(t)
    PROVE  TypeOK' /\ Others(t)
  <1> USE DEF PushLoad, Goto, Running, listVars, bigaryVars
  <1>1. Others(t) BY DEF Others, TypeOK
  <1>2. TypeOK' BY RangeFacts DEF TypeOK, MallocSteps, CreateSteps, GrowInv, Pushing
  <1>3. QED BY <1>1, <1>2

\* PushCas keeps every variable in its type and touches only the locals of t.
LEMMA PushCasType ==
    ASSUME TypeOK, GrowInv, NEW t \in Threads, PushCas(t)
    PROVE  TypeOK' /\ Others(t)
  <1> USE DEF PushCas, Goto, Return, Running, listVars, bigaryVars
  <1>1. Others(t) BY DEF Others, TypeOK
  <1>2. TypeOK' BY RangeFacts DEF TypeOK, MallocSteps, CreateSteps, GrowInv, Pushing
  <1>3. QED BY <1>1, <1>2

\* PushCasFail keeps every variable in its type and touches only the locals of t.
LEMMA PushCasFailType ==
    ASSUME TypeOK, GrowInv, NEW t \in Threads, PushCasFail(t)
    PROVE  TypeOK' /\ Others(t)
  <1> USE DEF PushCasFail, Goto, Running, listVars, bigaryVars
  <1>1. Others(t) BY DEF Others, TypeOK
  <1>2. TypeOK' BY RangeFacts DEF TypeOK, MallocSteps, CreateSteps, GrowInv, Pushing
  <1>3. QED BY <1>1, <1>2

\* Free keeps every variable in its type and touches only the locals of t.
LEMMA FreeType ==
    ASSUME TypeOK, NEW t \in Threads, NEW n \in Elements, Free(t, n)
    PROVE  TypeOK' /\ Others(t)
  <1> USE DEF Free, Goto, Running, listVars, bigaryVars
  <1>1. Others(t) BY DEF Others, TypeOK
  <1>2. held' \in [Elements -> Nat] BY DEF TypeOK
  <1>3. meta' \in [Threads -> Nat \cup {NULL}] BY RangeFacts DEF TypeOK
  <1>4. pc' \in [Threads -> MallocSteps \cup {"idle", "push", "push_cas"}] /\ pc'[t] = "push"
    BY DEF TypeOK
  <1>5. \A u \in Threads : pc'[u] = "init_meta" => meta'[u] \in Elements
    BY <1>1, <1>4 DEF TypeOK, Others
  <1>6. QED BY <1>1, <1>2, <1>3, <1>4, <1>5 DEF TypeOK


(***************************************************************************)
(* Frames: what survives a step that touches only the locals of t          *)
(***************************************************************************)

\* The classes of the other threads do not change.
LEMMA OtherThreads ==
    ASSUME NEW t \in Threads, Others(t)
    PROVE  \A u \in Threads : u # t =>
             /\ Busy(u)' = Busy(u) /\ Pushing(u)' = Pushing(u)
             /\ InMalloc(u)' = InMalloc(u) /\ meta'[u] = meta[u] /\ pc'[u] = pc[u]
             /\ nxt'[u] = nxt[u]
  BY DEF Others, Busy, Pushing, Creating, InMalloc

\* Where every element is does not change.
LEMMA PlaceFrame ==
    ASSUME PlaceInv, NoLeak, NEW t \in Threads, Others(t),
           Busy(t)' = Busy(t), Busy(t) => meta'[t] = meta[t],
           UNCHANGED <<held, chain, used>>
    PROVE  PlaceInv' /\ NoLeak'
  <1>1. \A u \in Threads : Busy(u)' = Busy(u) /\ (Busy(u) => meta'[u] = meta[u])
    BY OtherThreads
  <1>2. \A n : Listed(n)' = Listed(n) BY DEF Listed
  <1>3. PlaceInv' BY <1>1, <1>2 DEF PlaceInv
  <1>4. NoLeak' BY <1>1, <1>2 DEF NoLeak
  <1>5. QED BY <1>3, <1>4

\* The list does not change while the links of its elements do not.
LEMMA ListFrame ==
    ASSUME TypeOK, ListIntact, live, live', UNCHANGED <<freelist, chain>>,
           \A n \in Elements : Listed(n) => next'[n] = next[n]
    PROVE  ListIntact'
  <1>1. \A i \in 1..Len(chain) : chain[i] \in Elements BY DEF TypeOK
  <1>2. \A i \in 1..Len(chain) : next'[chain[i]] = next[chain[i]] BY <1>1 DEF Listed
  <1>3. QED BY <1>2 DEF ListIntact

\* The popper's knowledge survives a step that keeps the list.
LEMMA PopFrame ==
    ASSUME PopInv, NEW t \in Threads, Others(t), UNCHANGED chain,
           \A n \in Elements : Listed(n) => next'[n] = next[n],
           pc'[t] \in {"read_next", "pop_cas"} => meta'[t] \in Elements /\ Listed(meta'[t]),
           pc'[t] = "pop_cas" => nxt'[t] = next[meta'[t]]
    PROVE  PopInv'
  <1>1. \A n : Listed(n)' = Listed(n) BY DEF Listed
  <1>2. \A u \in Threads : u # t => pc'[u] = pc[u] /\ meta'[u] = meta[u] /\ nxt'[u] = nxt[u]
    BY DEF Others
  <1>3. SUFFICES ASSUME NEW u \in Threads
                 PROVE  /\ pc'[u] \in {"read_next", "pop_cas"} =>
                             meta'[u] \in Elements /\ Listed(meta'[u])
                        /\ pc'[u] = "pop_cas" => nxt'[u] = next'[meta'[u]]
    BY <1>1 DEF PopInv, Listed
  <1>4. CASE u = t BY <1>4
  <1>5. CASE u # t BY <1>2, <1>5 DEF PopInv
  <1>6. QED BY <1>4, <1>5

\* bigary's state survives a step of a thread that is not inside the mutex
\* before or after, or that only moves within it.
LEMMA GrowFrame ==
    ASSUME GrowInv, NEW t \in Threads, Others(t), UNCHANGED <<top, mapped, lock, held, chain>>,
           pc'[t] \in {"recheck", "map", "set_top", "unlock"} => lock = t,
           pc[t] # "set_top", pc'[t] # "set_top",
           pc'[t] = "map" => top < Need(meta'[t]) /\ AlignUp(Need(meta'[t])) <= declared,
           Pushing(t)' => meta'[t] \in Elements,
           pc'[t] \in {"unlock", "init_meta"} \/ Pushing(t)' => Need(meta'[t]) <= top
    PROVE  GrowInv'
  <1>1. \A u \in Threads : u # t => Pushing(u)' = Pushing(u) /\ pc'[u] = pc[u] /\ meta'[u] = meta[u]
    BY OtherThreads
  <1>2. \A n : Listed(n)' = Listed(n) BY DEF Listed
  <1>3. mapped = top \/ \E u \in Threads : u # t /\ pc'[u] = "set_top" BY <1>1 DEF GrowInv
  <1>4. \A u \in Threads : pc'[u] \in {"recheck", "map", "set_top", "unlock"} => lock = u
    BY <1>1 DEF GrowInv
  <1>5. \A u \in Threads : pc'[u] \in {"map", "set_top"} =>
          top < Need(meta'[u]) /\ AlignUp(Need(meta'[u])) <= declared
    BY <1>1 DEF GrowInv
  <1>6. \A u \in Threads : pc'[u] = "set_top" => mapped = AlignUp(Need(meta'[u]))
    BY <1>1 DEF GrowInv
  <1>7. \A u \in Threads : Pushing(u)' => meta'[u] \in Elements BY <1>1 DEF GrowInv
  <1>8. \A u \in Threads : pc'[u] \in {"unlock", "init_meta"} \/ Pushing(u)' => Need(meta'[u]) <= top
    BY <1>1 DEF GrowInv
  <1>9. top <= declared /\ \A n \in Elements : held[n] = 1 \/ Listed(n) => Need(n) <= top
    BY DEF GrowInv
  <1>10. QED BY <1>2, <1>3, <1>4, <1>5, <1>6, <1>7, <1>8, <1>9 DEF GrowInv, Need, AlignUp, declared, Declare

\* The callers' discipline survives: t was inside slab_alloc_malloc already, or
\* is allowed in.
LEMMA CallerFrame ==
    ASSUME CallerInv, NEW t \in Threads, Others(t), live, live',
           InMalloc(t)' => \/ InMalloc(t)
                           \/ SerialMalloc => \A u \in Threads : ~InMalloc(u),
           Freers = {} => ~Pushing(t)' /\ pc'[t] # "pop",
           Freers = {} => chain' = <<>>
    PROVE  CallerInv'
  <1>1. \A u \in Threads : u # t => /\ Pushing(u)' = Pushing(u) /\ pc'[u] = pc[u]
                                    /\ InMalloc(u)' = InMalloc(u)
    BY OtherThreads
  <1>2. SerialMalloc => \A u, v \in Threads : InMalloc(u)' /\ InMalloc(v)' => u = v
    BY <1>1 DEF CallerInv
  <1>3. Freers = {} => \A u \in Threads : ~Pushing(u)' /\ pc'[u] # "pop"
    BY <1>1 DEF CallerInv
  <1>4. QED BY <1>2, <1>3 DEF CallerInv


(***************************************************************************)
(* Steps that move no element                                              *)
(***************************************************************************)

\* PopLoad keeps the invariant: the popper takes the head of the list, an element that is listed.
LEMMA PopLoadStep ==
    ASSUME SafeUse, SlabInv, NEW t \in Threads, PopLoad(t)
    PROVE  SlabInv'
  <1>1. live /\ live' /\ TypeOK /\ CallerInv /\ ListIntact /\ PlaceInv /\ NoLeak /\ PopInv /\ GrowInv
    BY DEF SlabInv, PopLoad, Goto, Running, listVars, bigaryVars
  <1>2. TypeOK' /\ Others(t) BY <1>1, PopLoadType
  <1>3. /\ pc[t] \in {"idle", "pop"} /\ pc'[t] \in {"fetch", "read_next"} /\ meta'[t] = freelist
        /\ freelist = NULL => pc'[t] = "fetch"
    BY <1>1 DEF PopLoad, Goto, TypeOK
  <1>4. Busy(t)' = Busy(t) /\ (Busy(t) => meta'[t] = meta[t])
    BY <1>1, <1>3 DEF TypeOK, PopLoad, Goto, Busy, Creating, CreateSteps, Pushing
  <1>5. PlaceInv' /\ NoLeak'
    BY <1>1, <1>2, <1>4, PlaceFrame DEF PopLoad, Goto, Running, listVars, bigaryVars
  <1>6. \A n \in Elements : Listed(n) => next'[n] = next[n] BY DEF PopLoad, Goto, Running, listVars, bigaryVars
  <1>7. ListIntact' BY <1>1, <1>6, ListFrame DEF PopLoad, Goto, Running, listVars, bigaryVars
  <1>8. PopInv'
    <2>1. freelist # NULL => freelist \in Elements /\ Listed(freelist)
      BY <1>1 DEF TypeOK, ListIntact, Listed
    <2>2. QED BY <1>1, <1>2, <1>3, <1>6, <2>1, PopFrame DEF PopLoad, listVars
  <1>9. GrowInv' BY <1>1, <1>2, <1>3, GrowFrame DEF Pushing, PopLoad, Goto, Running, listVars, bigaryVars
  <1>10. CallerInv'
    <2>1. InMalloc(t) \/ (SerialMalloc => \A u \in Threads : ~InMalloc(u))
      BY <1>3 DEF PopLoad, InMalloc, MallocSteps
    <2>2. Freers = {} => chain' = <<>> BY <1>1 DEF PopLoad, listVars, CallerInv
    <2>3. ~Pushing(t)' /\ pc'[t] # "pop" BY <1>3 DEF Pushing
    <2>4. QED BY <1>1, <1>2, <2>1, <2>2, <2>3, CallerFrame
  <1>11. QED BY <1>1, <1>2, <1>5, <1>7, <1>8, <1>9, <1>10 DEF SlabInv

\* PopReadNext keeps the invariant: the link read is the link of a listed element.
LEMMA PopReadNextStep ==
    ASSUME SafeUse, SlabInv, NEW t \in Threads, PopReadNext(t)
    PROVE  SlabInv'
  <1>1. live /\ live' /\ TypeOK /\ CallerInv /\ ListIntact /\ PlaceInv /\ NoLeak /\ PopInv /\ GrowInv
    BY DEF SlabInv, PopReadNext, Goto, Running, listVars, bigaryVars
  <1>2. TypeOK' /\ Others(t) BY <1>1, PopReadNextType
  <1>3. /\ pc[t] = "read_next" /\ pc'[t] = "pop_cas" /\ meta'[t] = meta[t]
        /\ nxt'[t] = next[meta[t]]
    BY <1>1 DEF PopReadNext, Goto, TypeOK
  <1>4. Busy(t)' = Busy(t) /\ (Busy(t) => meta'[t] = meta[t])
    BY <1>1, <1>3 DEF TypeOK, PopReadNext, Goto, Busy, Creating, CreateSteps, Pushing
  <1>5. PlaceInv' /\ NoLeak'
    BY <1>1, <1>2, <1>4, PlaceFrame DEF PopReadNext, Goto, Running, listVars, bigaryVars
  <1>6. \A n \in Elements : Listed(n) => next'[n] = next[n] BY DEF PopReadNext, Goto, Running, listVars, bigaryVars
  <1>7. ListIntact' BY <1>1, <1>6, ListFrame DEF PopReadNext, Goto, Running, listVars, bigaryVars
  <1>8. PopInv'
    <2>1. meta[t] \in Elements /\ Listed(meta[t]) BY <1>1, <1>3 DEF PopInv
    <2>2. QED BY <1>1, <1>2, <1>3, <1>6, <2>1, PopFrame DEF PopReadNext, listVars
  <1>9. GrowInv' BY <1>1, <1>2, <1>3, GrowFrame DEF Pushing, PopReadNext, Goto, Running, listVars, bigaryVars
  <1>10. CallerInv' BY <1>1, <1>2, <1>3, CallerFrame DEF CallerInv, InMalloc, MallocSteps, CreateSteps, Pushing, PopReadNext, Goto, Running, listVars, bigaryVars
  <1>11. QED BY <1>1, <1>2, <1>5, <1>7, <1>8, <1>9, <1>10 DEF SlabInv

\* PopCasFail keeps the invariant: only the popper's locals change.
LEMMA PopCasFailStep ==
    ASSUME SafeUse, SlabInv, NEW t \in Threads, PopCasFail(t)
    PROVE  SlabInv'
  <1>1. live /\ live' /\ TypeOK /\ CallerInv /\ ListIntact /\ PlaceInv /\ NoLeak /\ PopInv /\ GrowInv
    BY DEF SlabInv, PopCasFail, Goto, Running, listVars, bigaryVars
  <1>2. TypeOK' /\ Others(t) BY <1>1, PopCasFailType
  <1>3. pc[t] = "pop_cas" /\ pc'[t] = "pop"
    BY <1>1 DEF PopCasFail, Goto, TypeOK
  <1>4. Busy(t)' = Busy(t) /\ (Busy(t) => meta'[t] = meta[t])
    BY <1>1, <1>3 DEF TypeOK, PopCasFail, Goto, Busy, Creating, CreateSteps, Pushing
  <1>5. PlaceInv' /\ NoLeak'
    BY <1>1, <1>2, <1>4, PlaceFrame DEF PopCasFail, Goto, Running, listVars, bigaryVars
  <1>6. \A n \in Elements : Listed(n) => next'[n] = next[n] BY DEF PopCasFail, Goto, Running, listVars, bigaryVars
  <1>7. ListIntact' BY <1>1, <1>6, ListFrame DEF PopCasFail, Goto, Running, listVars, bigaryVars
  <1>8. PopInv' BY <1>1, <1>2, <1>3, <1>6, PopFrame DEF PopCasFail, Goto, Running, listVars, bigaryVars
  <1>9. GrowInv' BY <1>1, <1>2, <1>3, GrowFrame DEF Pushing, PopCasFail, Goto, Running, listVars, bigaryVars
  <1>10. CallerInv'
    <2>1. Freers # {} BY <1>1, <1>3 DEF CallerInv, PopInv, Listed, TypeOK
    <2>2. InMalloc(t)' => InMalloc(t) BY <1>3 DEF InMalloc, MallocSteps, CreateSteps
    <2>3. QED BY <1>1, <1>2, <2>1, <2>2, CallerFrame
  <1>11. QED BY <1>1, <1>2, <1>5, <1>7, <1>8, <1>9, <1>10 DEF SlabInv

\* CheckTop keeps the invariant: the element is inside the mapped range or the thread goes for the mutex.
LEMMA CheckTopStep ==
    ASSUME SafeUse, SlabInv, NEW t \in Threads, CheckTop(t)
    PROVE  SlabInv'
  <1>1. live /\ live' /\ TypeOK /\ CallerInv /\ ListIntact /\ PlaceInv /\ NoLeak /\ PopInv /\ GrowInv
    BY DEF SlabInv, CheckTop, Goto, Running, listVars, bigaryVars
  <1>2. TypeOK' /\ Others(t) BY <1>1, CheckTopType
  <1>3. /\ pc[t] = "grow" /\ pc'[t] \in {"init_meta", "lock"} /\ meta'[t] = meta[t]
        /\ pc'[t] = "init_meta" => top >= Need(meta[t])
    BY <1>1 DEF CheckTop, Goto, TypeOK
  <1>4. Busy(t)' = Busy(t) /\ (Busy(t) => meta'[t] = meta[t])
    BY <1>1, <1>3 DEF TypeOK, CheckTop, Goto, Busy, Creating, CreateSteps, Pushing
  <1>5. PlaceInv' /\ NoLeak'
    BY <1>1, <1>2, <1>4, PlaceFrame DEF CheckTop, Goto, Running, listVars, bigaryVars
  <1>6. \A n \in Elements : Listed(n) => next'[n] = next[n] BY DEF CheckTop, Goto, Running, listVars, bigaryVars
  <1>7. ListIntact' BY <1>1, <1>6, ListFrame DEF CheckTop, Goto, Running, listVars, bigaryVars
  <1>8. PopInv' BY <1>1, <1>2, <1>3, <1>6, PopFrame DEF CheckTop, Goto, Running, listVars, bigaryVars
  <1>9. GrowInv'
    <2>1. meta[t] \in Nat BY <1>1, <1>3 DEF PlaceInv, Busy, Creating, CreateSteps
    <2>2. top \in Nat /\ Need(meta[t]) \in Nat BY <1>1, <2>1, RangeFacts DEF TypeOK
    <2>3. pc'[t] = "init_meta" => Need(meta'[t]) <= top BY <1>3, <2>2
    <2>4. ~Pushing(t)' BY <1>3 DEF Pushing
    <2>5. QED BY <1>1, <1>2, <1>3, <2>3, <2>4, GrowFrame DEF CheckTop, bigaryVars, listVars
  <1>10. CallerInv' BY <1>1, <1>2, <1>3, CallerFrame DEF CallerInv, InMalloc, MallocSteps, CreateSteps, Pushing, CheckTop, Goto, Running, listVars, bigaryVars
  <1>11. QED BY <1>1, <1>2, <1>5, <1>7, <1>8, <1>9, <1>10 DEF SlabInv

\* Recheck keeps the invariant: the holder of the mutex sees a top nobody else can change.
LEMMA RecheckStep ==
    ASSUME SafeUse, SlabInv, NEW t \in Threads, Recheck(t)
    PROVE  SlabInv'
  <1>1. live /\ live' /\ TypeOK /\ CallerInv /\ ListIntact /\ PlaceInv /\ NoLeak /\ PopInv /\ GrowInv
    BY DEF SlabInv, Recheck, Goto, Running, listVars, bigaryVars
  <1>2. TypeOK' /\ Others(t) BY <1>1, RecheckType
  <1>3. /\ pc[t] = "recheck" /\ pc'[t] \in {"recheck", "unlock", "map"} /\ meta'[t] = meta[t]
        /\ pc'[t] = "unlock" => top >= Need(meta[t])
        /\ pc'[t] = "map" => ~(top >= Need(meta[t])) /\ AlignUp(Need(meta[t])) <= declared
    BY <1>1 DEF Recheck, Goto, TypeOK
  <1>4. Busy(t)' = Busy(t) /\ (Busy(t) => meta'[t] = meta[t])
    BY <1>1, <1>3 DEF TypeOK, Recheck, Goto, Busy, Creating, CreateSteps, Pushing
  <1>5. PlaceInv' /\ NoLeak'
    BY <1>1, <1>2, <1>4, PlaceFrame DEF Recheck, Goto, Running, listVars, bigaryVars
  <1>6. \A n \in Elements : Listed(n) => next'[n] = next[n] BY DEF Recheck, Goto, Running, listVars, bigaryVars
  <1>7. ListIntact' BY <1>1, <1>6, ListFrame DEF Recheck, Goto, Running, listVars, bigaryVars
  <1>8. PopInv' BY <1>1, <1>2, <1>3, <1>6, PopFrame DEF Recheck, Goto, Running, listVars, bigaryVars
  <1>9. GrowInv'
    <2>1. meta[t] \in Nat BY <1>1, <1>3 DEF PlaceInv, Busy, Creating, CreateSteps
    <2>2. top \in Nat /\ Need(meta[t]) \in Nat BY <1>1, <2>1, RangeFacts DEF TypeOK
    <2>3. /\ pc'[t] = "unlock" => Need(meta'[t]) <= top
          /\ pc'[t] = "map" => top < Need(meta'[t]) /\ AlignUp(Need(meta'[t])) <= declared
      BY <1>3, <2>2
    <2>4. ~Pushing(t)' BY <1>3 DEF Pushing
    <2>5. lock = t BY <1>1, <1>3 DEF GrowInv
    <2>6. QED BY <1>1, <1>2, <1>3, <2>3, <2>4, <2>5, GrowFrame DEF Recheck, bigaryVars, listVars
  <1>10. CallerInv' BY <1>1, <1>2, <1>3, CallerFrame DEF CallerInv, InMalloc, MallocSteps, CreateSteps, Pushing, Recheck, Goto, Running, listVars, bigaryVars
  <1>11. QED BY <1>1, <1>2, <1>5, <1>7, <1>8, <1>9, <1>10 DEF SlabInv

\* MapFails keeps the invariant: the process exits with the state as it was.
LEMMA MapFailsStep ==
    ASSUME SafeUse, SlabInv, NEW t \in Threads, MapFails(t)
    PROVE  SlabInv'
  <1>1. live /\ live' /\ TypeOK /\ CallerInv /\ ListIntact /\ PlaceInv /\ NoLeak /\ PopInv /\ GrowInv
    BY DEF SlabInv, MapFails, Goto, Running, listVars, bigaryVars
  <1>2. TypeOK' /\ Others(t) BY <1>1, MapFailsType
  <1>3. pc[t] = "map" /\ pc'[t] = "map" /\ meta'[t] = meta[t]
    BY <1>1 DEF MapFails, Goto, TypeOK
  <1>4. Busy(t)' = Busy(t) /\ (Busy(t) => meta'[t] = meta[t])
    BY <1>1, <1>3 DEF TypeOK, MapFails, Goto, Busy, Creating, CreateSteps, Pushing
  <1>5. PlaceInv' /\ NoLeak'
    BY <1>1, <1>2, <1>4, PlaceFrame DEF MapFails, Goto, Running, listVars, bigaryVars
  <1>6. \A n \in Elements : Listed(n) => next'[n] = next[n] BY DEF MapFails, Goto, Running, listVars, bigaryVars
  <1>7. ListIntact' BY <1>1, <1>6, ListFrame DEF MapFails, Goto, Running, listVars, bigaryVars
  <1>8. PopInv' BY <1>1, <1>2, <1>3, <1>6, PopFrame DEF MapFails, Goto, Running, listVars, bigaryVars
  <1>9. GrowInv'
    <2>1. lock = t /\ top < Need(meta[t]) /\ AlignUp(Need(meta[t])) <= declared
      BY <1>1, <1>3 DEF GrowInv
    <2>2. ~Pushing(t)' BY <1>3 DEF Pushing
    <2>3. QED BY <1>1, <1>2, <1>3, <2>1, <2>2, GrowFrame DEF MapFails, bigaryVars, listVars
  <1>10. CallerInv' BY <1>1, <1>2, <1>3, CallerFrame DEF CallerInv, InMalloc, MallocSteps, CreateSteps, Pushing, MapFails, Goto, Running, listVars, bigaryVars
  <1>11. QED BY <1>1, <1>2, <1>5, <1>7, <1>8, <1>9, <1>10 DEF SlabInv

\* LockEnlargement keeps the invariant: at most one thread enlarges.
LEMMA LockEnlargementStep ==
    ASSUME SafeUse, SlabInv, NEW t \in Threads, LockEnlargement(t)
    PROVE  SlabInv'
  <1>1. live /\ live' /\ TypeOK /\ CallerInv /\ ListIntact /\ PlaceInv /\ NoLeak /\ PopInv /\ GrowInv
    BY DEF SlabInv, LockEnlargement, Goto, Running, listVars, bigaryVars
  <1>2. TypeOK' /\ Others(t) BY <1>1, LockEnlargementType
  <1>3. pc[t] = "lock" /\ pc'[t] = "recheck" /\ meta'[t] = meta[t] /\ lock = NULL /\ lock' = t
    BY <1>1 DEF LockEnlargement, Goto, TypeOK
  <1>4. Busy(t)' = Busy(t) /\ (Busy(t) => meta'[t] = meta[t])
    BY <1>1, <1>3 DEF TypeOK, LockEnlargement, Goto, Busy, Creating, CreateSteps, Pushing
  <1>5. PlaceInv' /\ NoLeak'
    BY <1>1, <1>2, <1>4, PlaceFrame DEF LockEnlargement, Goto, Running, listVars, bigaryVars
  <1>6. \A n \in Elements : Listed(n) => next'[n] = next[n] BY DEF LockEnlargement, Goto, Running, listVars, bigaryVars
  <1>7. ListIntact' BY <1>1, <1>6, ListFrame DEF LockEnlargement, Goto, Running, listVars, bigaryVars
  <1>8. PopInv' BY <1>1, <1>2, <1>3, <1>6, PopFrame DEF LockEnlargement, Goto, Running, listVars, bigaryVars
  <1>9. GrowInv'
    <2>1. \A u \in Threads : u # t => /\ pc'[u] = pc[u] /\ meta'[u] = meta[u]
                                      /\ Pushing(u)' = Pushing(u)
      BY <1>2, OtherThreads
    <2>2. NULL \notin Threads BY RangeFacts
    <2>3. \A u \in Threads : pc[u] \notin {"recheck", "map", "set_top", "unlock"}
      BY <1>1, <1>3, <2>2 DEF GrowInv
    <2>4. UNCHANGED <<top, mapped, held, chain>> /\ ~Pushing(t)' /\ \A n : Listed(n)' = Listed(n)
      BY <1>3 DEF LockEnlargement, listVars, Pushing, Listed
    <2>5. \A u \in Threads : pc'[u] \in {"recheck", "map", "set_top", "unlock"} => u = t
      BY <2>1, <2>3
    <2>6. mapped = top BY <1>1, <2>3 DEF GrowInv
    <2>7. \A u \in Threads : pc'[u] \notin {"map", "set_top", "unlock"}
      BY <1>3, <2>5
    <2>8. \A u \in Threads : Pushing(u)' => meta'[u] \in Elements
      BY <1>1, <2>1, <2>4 DEF GrowInv
    <2>9. \A u \in Threads : pc'[u] = "init_meta" \/ Pushing(u)' => Need(meta'[u]) <= top
      BY <1>1, <1>3, <2>1, <2>4 DEF GrowInv
    <2>10. top <= declared /\ \A n \in Elements : held[n] = 1 \/ Listed(n) => Need(n) <= top
      BY <1>1 DEF GrowInv
    <2>11. QED BY <1>3, <2>4, <2>5, <2>6, <2>7, <2>8, <2>9, <2>10
               DEF GrowInv, Need, AlignUp, declared, Declare
  <1>10. CallerInv' BY <1>1, <1>2, <1>3, CallerFrame DEF CallerInv, InMalloc, MallocSteps, CreateSteps, Pushing, LockEnlargement, Goto, Running, listVars, bigaryVars
  <1>11. QED BY <1>1, <1>2, <1>5, <1>7, <1>8, <1>9, <1>10 DEF SlabInv

\* UnlockEnlargement keeps the invariant: the element is inside the mapped range.
LEMMA UnlockEnlargementStep ==
    ASSUME SafeUse, SlabInv, NEW t \in Threads, UnlockEnlargement(t)
    PROVE  SlabInv'
  <1>1. live /\ live' /\ TypeOK /\ CallerInv /\ ListIntact /\ PlaceInv /\ NoLeak /\ PopInv /\ GrowInv
    BY DEF SlabInv, UnlockEnlargement, Goto, Running, listVars, bigaryVars
  <1>2. TypeOK' /\ Others(t) BY <1>1, UnlockEnlargementType
  <1>3. pc[t] = "unlock" /\ pc'[t] = "init_meta" /\ meta'[t] = meta[t] /\ lock' = NULL
    BY <1>1 DEF UnlockEnlargement, Goto, TypeOK
  <1>4. Busy(t)' = Busy(t) /\ (Busy(t) => meta'[t] = meta[t])
    BY <1>1, <1>3 DEF TypeOK, UnlockEnlargement, Goto, Busy, Creating, CreateSteps, Pushing
  <1>5. PlaceInv' /\ NoLeak'
    BY <1>1, <1>2, <1>4, PlaceFrame DEF UnlockEnlargement, Goto, Running, listVars, bigaryVars
  <1>6. \A n \in Elements : Listed(n) => next'[n] = next[n] BY DEF UnlockEnlargement, Goto, Running, listVars, bigaryVars
  <1>7. ListIntact' BY <1>1, <1>6, ListFrame DEF UnlockEnlargement, Goto, Running, listVars, bigaryVars
  <1>8. PopInv' BY <1>1, <1>2, <1>3, <1>6, PopFrame DEF UnlockEnlargement, Goto, Running, listVars, bigaryVars
  <1>9. GrowInv'
    <2>1. \A u \in Threads : u # t => /\ pc'[u] = pc[u] /\ meta'[u] = meta[u]
                                      /\ Pushing(u)' = Pushing(u)
      BY <1>2, OtherThreads
    <2>2. lock = t /\ Need(meta[t]) <= top BY <1>1, <1>3 DEF GrowInv
    <2>3. \A u \in Threads : u # t => pc[u] \notin {"recheck", "map", "set_top", "unlock"}
      BY <1>1, <2>2 DEF GrowInv
    <2>4. UNCHANGED <<top, mapped, held, chain>> /\ ~Pushing(t)' /\ \A n : Listed(n)' = Listed(n)
      BY <1>3 DEF UnlockEnlargement, listVars, Pushing, Listed
    <2>5. \A u \in Threads : pc'[u] \notin {"recheck", "map", "set_top", "unlock"}
      BY <1>3, <2>1, <2>3
    <2>6. mapped = top BY <1>1, <1>3, <2>3 DEF GrowInv
    <2>7. \A u \in Threads : Pushing(u)' => meta'[u] \in Elements
      BY <1>1, <2>1, <2>4 DEF GrowInv
    <2>8. \A u \in Threads : pc'[u] = "init_meta" \/ Pushing(u)' => Need(meta'[u]) <= top
      BY <1>1, <1>3, <2>1, <2>2 DEF GrowInv
    <2>9. top <= declared /\ \A n \in Elements : held[n] = 1 \/ Listed(n) => Need(n) <= top
      BY <1>1 DEF GrowInv
    <2>10. QED BY <2>4, <2>5, <2>6, <2>7, <2>8, <2>9
               DEF GrowInv, Need, AlignUp, declared, Declare
  <1>10. CallerInv' BY <1>1, <1>2, <1>3, CallerFrame DEF CallerInv, InMalloc, MallocSteps, CreateSteps, Pushing, UnlockEnlargement, Goto, Running, listVars, bigaryVars
  <1>11. QED BY <1>1, <1>2, <1>5, <1>7, <1>8, <1>9, <1>10 DEF SlabInv

\* SetTop keeps the invariant: the new top covers the element and is mapped already.
LEMMA SetTopStep ==
    ASSUME SafeUse, SlabInv, NEW t \in Threads, SetTop(t)
    PROVE  SlabInv'
  <1>1. live /\ live' /\ TypeOK /\ CallerInv /\ ListIntact /\ PlaceInv /\ NoLeak /\ PopInv /\ GrowInv
    BY DEF SlabInv, SetTop, Goto, Running, listVars, bigaryVars
  <1>2. TypeOK' /\ Others(t) BY <1>1, SetTopType
  <1>3. pc[t] = "set_top" /\ pc'[t] = "unlock" /\ meta'[t] = meta[t] /\ top' = AlignUp(Need(meta[t]))
    BY <1>1 DEF SetTop, Goto, TypeOK
  <1>4. Busy(t)' = Busy(t) /\ (Busy(t) => meta'[t] = meta[t])
    BY <1>1, <1>3 DEF TypeOK, SetTop, Goto, Busy, Creating, CreateSteps, Pushing
  <1>5. PlaceInv' /\ NoLeak'
    BY <1>1, <1>2, <1>4, PlaceFrame DEF SetTop, Goto, Running, listVars, bigaryVars
  <1>6. \A n \in Elements : Listed(n) => next'[n] = next[n] BY DEF SetTop, Goto, Running, listVars, bigaryVars
  <1>7. ListIntact' BY <1>1, <1>6, ListFrame DEF SetTop, Goto, Running, listVars, bigaryVars
  <1>8. PopInv' BY <1>1, <1>2, <1>3, <1>6, PopFrame DEF SetTop, Goto, Running, listVars, bigaryVars
  <1>9. GrowInv'
    <2>1. \A u \in Threads : u # t => /\ pc'[u] = pc[u] /\ meta'[u] = meta[u]
                                      /\ Pushing(u)' = Pushing(u)
      BY <1>2, OtherThreads
    <2>2. /\ lock = t /\ top < Need(meta[t]) /\ AlignUp(Need(meta[t])) <= declared
          /\ mapped = AlignUp(Need(meta[t]))
      BY <1>1, <1>3 DEF GrowInv
    <2>3. \A u \in Threads : u # t => pc[u] \notin {"recheck", "map", "set_top", "unlock"}
      BY <1>1, <2>2 DEF GrowInv
    <2>4. UNCHANGED <<lock, mapped, held, chain>> /\ ~Pushing(t)' /\ \A n : Listed(n)' = Listed(n)
      BY <1>3 DEF SetTop, listVars, Pushing, Listed
    <2>5. \A u \in Threads : pc'[u] \notin {"recheck", "map", "set_top"} /\ (pc'[u] = "unlock" => u = t)
      BY <1>3, <2>1, <2>3
    <2>6. /\ meta[t] \in Nat /\ top \in Nat /\ Need(meta[t]) \in Nat
          /\ top' \in Nat /\ Need(meta[t]) <= top'
      <3>1. meta[t] \in Nat BY <1>1, <1>3 DEF PlaceInv, Busy, Creating, CreateSteps
      <3>2. QED BY <1>1, <1>3, <3>1, RangeFacts DEF TypeOK
    <2>7. top < top' BY <2>2, <2>6
    <2>8. \A u \in Threads : Pushing(u)' => meta'[u] \in Elements
      BY <1>1, <2>1, <2>4 DEF GrowInv
    <2>9. \A u \in Threads : pc'[u] \in {"unlock", "init_meta"} \/ Pushing(u)' => Need(meta'[u]) <= top'
      <3>1. SUFFICES ASSUME NEW u \in Threads, pc'[u] \in {"unlock", "init_meta"} \/ Pushing(u)'
                     PROVE  Need(meta'[u]) <= top'
        OBVIOUS
      <3>2. CASE u = t BY <3>2, <1>3, <2>6
      <3>3. CASE u # t
        <4>1. Need(meta[u]) <= top /\ meta[u] \in Elements
          BY <1>1, <3>1, <3>3, <2>1, <2>5 DEF GrowInv, TypeOK
        <4>2. Need(meta[u]) \in Nat BY <4>1, RangeFacts
        <4>3. QED BY <4>1, <4>2, <2>1, <2>6, <2>7, <3>3
      <3>4. QED BY <3>2, <3>3
    <2>10. \A n \in Elements : held[n] = 1 \/ Listed(n) => Need(n) <= top'
      <3>1. \A n \in Elements : Need(n) \in Nat BY RangeFacts
      <3>2. \A n \in Elements : held[n] = 1 \/ Listed(n) => Need(n) <= top BY <1>1 DEF GrowInv
      <3>3. QED BY <3>1, <3>2, <2>6, <2>7
    <2>11. top' <= declared /\ mapped' = top' BY <1>3, <2>2, <2>4
    <2>12. lock' = t BY <2>2, <2>4
    <2>13. QED BY <2>4, <2>5, <2>8, <2>9, <2>10, <2>11, <2>12
               DEF GrowInv, Need, AlignUp, declared, Declare
  <1>10. CallerInv' BY <1>1, <1>2, <1>3, CallerFrame DEF CallerInv, InMalloc, MallocSteps, CreateSteps, Pushing, SetTop, Goto, Running, listVars, bigaryVars
  <1>11. QED BY <1>1, <1>2, <1>5, <1>7, <1>8, <1>9, <1>10 DEF SlabInv

\* MapMore keeps the invariant: only bytes above every element in use are remapped.
LEMMA MapMoreStep ==
    ASSUME SafeUse, SlabInv, NEW t \in Threads, MapMore(t)
    PROVE  SlabInv'
  <1>1. live /\ live' /\ TypeOK /\ CallerInv /\ ListIntact /\ PlaceInv /\ NoLeak /\ PopInv /\ GrowInv
    BY DEF SlabInv, MapMore, Goto, Running, listVars, bigaryVars
  <1>2. TypeOK' /\ Others(t) BY <1>1, MapMoreType
  <1>3. pc[t] = "map" /\ pc'[t] = "set_top" /\ meta'[t] = meta[t] /\ mapped' = AlignUp(Need(meta[t]))
    BY <1>1 DEF MapMore, Goto, TypeOK
  <1>4. Busy(t)' = Busy(t) /\ (Busy(t) => meta'[t] = meta[t])
    BY <1>1, <1>3 DEF TypeOK, MapMore, Goto, Busy, Creating, CreateSteps, Pushing
  <1>5. PlaceInv' /\ NoLeak'
    BY <1>1, <1>2, <1>4, PlaceFrame DEF MapMore, Goto, Running, listVars, bigaryVars
  <1>6. \A n \in Elements : Listed(n) => next'[n] = next[n]
    <2>1. SUFFICES ASSUME NEW n \in Elements, Listed(n) PROVE next'[n] = next[n] OBVIOUS
    <2>2. Need(n) <= top BY <1>1, <2>1 DEF GrowInv
    <2>3. Need(n) \in Nat /\ top \in Nat BY <1>1, RangeFacts DEF TypeOK
    <2>4. ~(Need(n) > top) BY <2>2, <2>3
    <2>5. QED BY <2>4 DEF MapMore
  <1>7. ListIntact' BY <1>1, <1>6, ListFrame DEF MapMore, Goto, Running, listVars, bigaryVars
  <1>8. PopInv' BY <1>1, <1>2, <1>3, <1>6, PopFrame DEF MapMore, Goto, Running, listVars, bigaryVars
  <1>9. GrowInv'
    <2>1. \A u \in Threads : u # t => /\ pc'[u] = pc[u] /\ meta'[u] = meta[u]
                                      /\ Pushing(u)' = Pushing(u)
      BY <1>2, OtherThreads
    <2>2. lock = t /\ top < Need(meta[t]) /\ AlignUp(Need(meta[t])) <= declared
      BY <1>1, <1>3 DEF GrowInv
    <2>3. \A u \in Threads : u # t => pc[u] \notin {"recheck", "map", "set_top", "unlock"}
      BY <1>1, <2>2 DEF GrowInv
    <2>4. UNCHANGED <<lock, top, held, chain>> /\ ~Pushing(t)' /\ \A n : Listed(n)' = Listed(n)
      BY <1>3 DEF MapMore, Pushing, Listed
    <2>5. \A u \in Threads : pc'[u] \notin {"recheck", "map", "unlock"} /\ (pc'[u] = "set_top" => u = t)
      BY <1>3, <2>1, <2>3
    <2>6. \A u \in Threads : Pushing(u)' => meta'[u] \in Elements
      BY <1>1, <2>1, <2>4 DEF GrowInv
    <2>7. \A u \in Threads : pc'[u] = "init_meta" \/ Pushing(u)' => Need(meta'[u]) <= top
      BY <1>1, <1>3, <2>1, <2>4 DEF GrowInv
    <2>8. top <= declared /\ \A n \in Elements : held[n] = 1 \/ Listed(n) => Need(n) <= top
      BY <1>1 DEF GrowInv
    <2>9. lock' = t /\ pc'[t] = "set_top" /\ mapped' = AlignUp(Need(meta'[t]))
          /\ top' < Need(meta'[t]) /\ AlignUp(Need(meta'[t])) <= declared
      BY <1>3, <2>2, <2>4
    <2>10. QED BY <2>4, <2>5, <2>6, <2>7, <2>8, <2>9
               DEF GrowInv, Need, AlignUp, declared, Declare
  <1>10. CallerInv' BY <1>1, <1>2, <1>3, CallerFrame DEF CallerInv, InMalloc, MallocSteps, CreateSteps, Pushing, MapMore, Goto, Running, listVars, bigaryVars
  <1>11. QED BY <1>1, <1>2, <1>5, <1>7, <1>8, <1>9, <1>10 DEF SlabInv

\* PushLoad keeps the invariant: only the link of the element being freed changes.
LEMMA PushLoadStep ==
    ASSUME SafeUse, SlabInv, NEW t \in Threads, PushLoad(t)
    PROVE  SlabInv'
  <1>1. live /\ live' /\ TypeOK /\ CallerInv /\ ListIntact /\ PlaceInv /\ NoLeak /\ PopInv /\ GrowInv
    BY DEF SlabInv, PushLoad, Goto, Running, listVars, bigaryVars
  <1>2. TypeOK' /\ Others(t) BY <1>1, PushLoadType
  <1>3. pc[t] = "push" /\ pc'[t] = "push_cas" /\ meta'[t] = meta[t]
    BY <1>1 DEF PushLoad, Goto, TypeOK
  <1>4. Busy(t)' = Busy(t) /\ (Busy(t) => meta'[t] = meta[t])
    BY <1>1, <1>3 DEF TypeOK, PushLoad, Goto, Busy, Creating, CreateSteps, Pushing
  <1>5. PlaceInv' /\ NoLeak'
    BY <1>1, <1>2, <1>4, PlaceFrame DEF PushLoad, Goto, Running, listVars, bigaryVars
  <1>6. \A n \in Elements : Listed(n) => next'[n] = next[n]
    <2>1. ~Listed(meta[t]) BY <1>1, <1>3 DEF PlaceInv, Busy, Pushing
    <2>2. QED BY <1>1, <2>1 DEF PushLoad, TypeOK
  <1>7. ListIntact' BY <1>1, <1>6, ListFrame DEF PushLoad, Goto, Running, listVars, bigaryVars
  <1>8. PopInv' BY <1>1, <1>2, <1>3, <1>6, PopFrame DEF PushLoad, Goto, Running, listVars, bigaryVars
  <1>9. GrowInv'
    <2>1. meta[t] \in Elements /\ Need(meta[t]) <= top BY <1>1, <1>3 DEF GrowInv, Pushing
    <2>2. QED BY <1>1, <1>2, <1>3, <2>1, GrowFrame DEF PushLoad, bigaryVars
  <1>10. CallerInv'
    <2>1. Freers # {} BY <1>1, <1>3 DEF CallerInv, Pushing
    <2>2. InMalloc(t)' => InMalloc(t) BY <1>3 DEF InMalloc, MallocSteps, CreateSteps
    <2>3. QED BY <1>1, <1>2, <2>1, <2>2, CallerFrame
  <1>11. QED BY <1>1, <1>2, <1>5, <1>7, <1>8, <1>9, <1>10 DEF SlabInv

\* PushCasFail keeps the invariant: only the link of the element being freed changes.
LEMMA PushCasFailStep ==
    ASSUME SafeUse, SlabInv, NEW t \in Threads, PushCasFail(t)
    PROVE  SlabInv'
  <1>1. live /\ live' /\ TypeOK /\ CallerInv /\ ListIntact /\ PlaceInv /\ NoLeak /\ PopInv /\ GrowInv
    BY DEF SlabInv, PushCasFail, Goto, Running, listVars, bigaryVars
  <1>2. TypeOK' /\ Others(t) BY <1>1, PushCasFailType
  <1>3. pc[t] = "push_cas" /\ pc'[t] = "push" /\ meta'[t] = meta[t]
    BY <1>1 DEF PushCasFail, Goto, TypeOK
  <1>4. Busy(t)' = Busy(t) /\ (Busy(t) => meta'[t] = meta[t])
    BY <1>1, <1>3 DEF TypeOK, PushCasFail, Goto, Busy, Creating, CreateSteps, Pushing
  <1>5. PlaceInv' /\ NoLeak'
    BY <1>1, <1>2, <1>4, PlaceFrame DEF PushCasFail, Goto, Running, listVars, bigaryVars
  <1>6. \A n \in Elements : Listed(n) => next'[n] = next[n]
    <2>1. ~Listed(meta[t]) BY <1>1, <1>3 DEF PlaceInv, Busy, Pushing
    <2>2. QED BY <1>1, <2>1 DEF PushCasFail, TypeOK
  <1>7. ListIntact' BY <1>1, <1>6, ListFrame DEF PushCasFail, Goto, Running, listVars, bigaryVars
  <1>8. PopInv' BY <1>1, <1>2, <1>3, <1>6, PopFrame DEF PushCasFail, Goto, Running, listVars, bigaryVars
  <1>9. GrowInv'
    <2>1. meta[t] \in Elements /\ Need(meta[t]) <= top BY <1>1, <1>3 DEF GrowInv, Pushing
    <2>2. QED BY <1>1, <1>2, <1>3, <2>1, GrowFrame DEF PushCasFail, bigaryVars
  <1>10. CallerInv'
    <2>1. Freers # {} BY <1>1, <1>3 DEF CallerInv, Pushing
    <2>2. InMalloc(t)' => InMalloc(t) BY <1>3 DEF InMalloc, MallocSteps, CreateSteps
    <2>3. QED BY <1>1, <1>2, <2>1, <2>2, CallerFrame
  <1>11. QED BY <1>1, <1>2, <1>5, <1>7, <1>8, <1>9, <1>10 DEF SlabInv

(***************************************************************************)
(* Steps that move an element                                              *)
(***************************************************************************)

\* FetchIncrementUsed keeps the invariant: the new index is nobody else's.
LEMMA FetchIncrementUsedStep ==
    ASSUME SafeUse, SlabInv, NEW t \in Threads, FetchIncrementUsed(t)
    PROVE  SlabInv'
  <1>1. live /\ live' /\ TypeOK /\ CallerInv /\ ListIntact /\ PlaceInv /\ NoLeak /\ PopInv /\ GrowInv
    BY DEF SlabInv, FetchIncrementUsed, Running
  <1>2. TypeOK' /\ Others(t) BY <1>1, FetchIncrementUsedType
  <1>3. /\ pc[t] = "fetch" /\ pc'[t] = "grow" /\ meta'[t] = used /\ used' = used + 1
        /\ UNCHANGED <<freelist, next, chain, held, top, lock, mapped>>
    BY <1>1 DEF FetchIncrementUsed, Goto, TypeOK, listVars, bigaryVars
  <1>4. used \in Nat /\ held \in [Elements -> Nat] /\ \A n \in Elements : n \in Nat
    BY <1>1, RangeFacts DEF TypeOK
  <1>5. \A u \in Threads : u # t => Busy(u)' = Busy(u) /\ meta'[u] = meta[u]
    BY <1>2, OtherThreads
  <1>6. ~Busy(t) /\ Busy(t)' BY <1>3 DEF Busy, Creating, CreateSteps, Pushing
  <1>7. \A n : Listed(n)' = Listed(n) BY <1>3 DEF Listed
  <1>8. ~Listed(used)
    <2>1. \A i \in 1..Len(chain) : chain[i] < used /\ chain[i] \in Nat
      BY <1>1, <1>4 DEF PlaceInv, TypeOK
    <2>2. QED BY <2>1, <1>4 DEF Listed
  <1>9. used \in Elements => held[used] = 0 BY <1>1, <1>4 DEF PlaceInv
  <1>10. \A u \in Threads : Busy(u) => meta[u] \in Nat /\ meta[u] < used /\ meta[u] # used
    BY <1>1, <1>4 DEF PlaceInv
  <1>11. PlaceInv'
    <2>1. \A n \in Elements : held[n] \in {0, 1} BY <1>1 DEF PlaceInv
    <2>2. \A n \in Elements : held[n] = 1 => n < used + 1 /\ ~Listed(n)
      BY <1>1, <1>4 DEF PlaceInv
    <2>3. \A u \in Threads : Busy(u)' =>
            /\ meta'[u] \in Nat /\ meta'[u] < used + 1
            /\ meta'[u] \in Elements => held[meta'[u]] = 0
            /\ ~Listed(meta'[u])
      <3>1. SUFFICES ASSUME NEW u \in Threads, Busy(u)'
                     PROVE  /\ meta'[u] \in Nat /\ meta'[u] < used + 1
                            /\ meta'[u] \in Elements => held[meta'[u]] = 0
                            /\ ~Listed(meta'[u])
        OBVIOUS
      <3>2. CASE u = t BY <3>2, <1>3, <1>4, <1>8, <1>9
      <3>3. CASE u # t
        <4>1. Busy(u) /\ meta'[u] = meta[u] BY <3>1, <3>3, <1>5
        <4>2. meta[u] \in Nat /\ meta[u] < used + 1 BY <4>1, <1>10, <1>4
        <4>3. QED BY <1>1, <4>1, <4>2 DEF PlaceInv
      <3>4. QED BY <3>2, <3>3
    <2>4. \A u, v \in Threads : Busy(u)' /\ Busy(v)' /\ meta'[u] = meta'[v] => u = v
      BY <1>1, <1>3, <1>5, <1>10 DEF PlaceInv
    <2>5. \A i, j \in 1..Len(chain) : chain[i] = chain[j] => i = j BY <1>1 DEF PlaceInv
    <2>6. \A i \in 1..Len(chain) : chain[i] < used + 1
      <3>1. \A i \in 1..Len(chain) : chain[i] \in Nat /\ chain[i] < used
        BY <1>1, <1>4 DEF PlaceInv, TypeOK
      <3>2. QED BY <3>1, <1>4
    <2>7. QED BY <1>3, <1>7, <2>1, <2>2, <2>3, <2>4, <2>5, <2>6 DEF PlaceInv
  <1>12. NoLeak'
    <2>1. SUFFICES ASSUME NEW n \in Elements, n < used + 1
                   PROVE  held[n] = 1 \/ Listed(n) \/ \E u \in Threads : Busy(u)' /\ meta'[u] = n
      BY <1>3, <1>7 DEF NoLeak
    <2>2. CASE n = used BY <2>2, <1>3, <1>6
    <2>3. CASE n # used
      <3>1. n < used BY <2>1, <2>3, <1>4
      <3>2. held[n] = 1 \/ Listed(n) \/ \E u \in Threads : Busy(u) /\ meta[u] = n
        BY <3>1, <1>1 DEF NoLeak
      <3>3. QED BY <3>2, <1>5, <1>6
    <2>4. QED BY <2>2, <2>3
  <1>13. ListIntact' BY <1>1, <1>3, ListFrame
  <1>14. PopInv' BY <1>1, <1>2, <1>3, PopFrame
  <1>15. GrowInv' BY <1>1, <1>2, <1>3, GrowFrame DEF Pushing
  <1>16. CallerInv'
    <2>1. InMalloc(t) BY <1>3 DEF InMalloc, MallocSteps
    <2>2. ~Pushing(t)' /\ pc'[t] # "pop" BY <1>3 DEF Pushing
    <2>3. Freers = {} => chain' = <<>> BY <1>1, <1>3 DEF CallerInv
    <2>4. QED BY <1>1, <1>2, <2>1, <2>2, <2>3, CallerFrame
  <1>17. QED BY <1>1, <1>2, <1>11, <1>12, <1>13, <1>14, <1>15, <1>16 DEF SlabInv

\* InitMeta keeps the invariant: the new element goes from its creator to a caller.
LEMMA InitMetaStep ==
    ASSUME SafeUse, SlabInv, NEW t \in Threads, InitMeta(t)
    PROVE  SlabInv'
  <1>1. live /\ live' /\ TypeOK /\ CallerInv /\ ListIntact /\ PlaceInv /\ NoLeak /\ PopInv /\ GrowInv
    BY DEF SlabInv, InitMeta, Running
  <1>2. TypeOK' /\ Others(t) BY <1>1, InitMetaType
  <1> DEFINE m == meta[t]
  <1>3. /\ pc[t] = "init_meta" /\ pc'[t] = "idle" /\ m \in Elements
        /\ next' = [next EXCEPT ![m] = NULL] /\ held' = [held EXCEPT ![m] = @ + 1]
        /\ UNCHANGED <<freelist, chain, used, top, lock, mapped>>
    BY <1>1 DEF InitMeta, Goto, Return, TypeOK, bigaryVars
  <1>4. Busy(t) /\ ~Busy(t)' BY <1>3 DEF Busy, Creating, CreateSteps, Pushing
  <1>5. held[m] = 0 /\ ~Listed(m) /\ m < used BY <1>1, <1>3, <1>4 DEF PlaceInv
  <1>6. held'[m] = 1 /\ \A n \in Elements : n # m => held'[n] = held[n]
    BY <1>1, <1>3, <1>5 DEF TypeOK
  <1>7. \A u \in Threads : u # t => Busy(u)' = Busy(u) /\ meta'[u] = meta[u]
    BY <1>2, OtherThreads
  <1>8. \A n : Listed(n)' = Listed(n) BY <1>3 DEF Listed
  <1>9. \A u \in Threads : Busy(u)' => u # t /\ Busy(u) /\ meta'[u] = meta[u] /\ meta[u] # m
    BY <1>1, <1>4, <1>7 DEF PlaceInv
  <1> HIDE DEF m
  <1>10. PlaceInv'
    <2>1. \A n \in Elements : held'[n] \in {0, 1} BY <1>1, <1>6 DEF PlaceInv
    <2>2. \A n \in Elements : held'[n] = 1 => n < used /\ ~Listed(n)
      BY <1>1, <1>5, <1>6 DEF PlaceInv
    <2>3. \A u \in Threads : Busy(u)' =>
            /\ meta'[u] \in Nat /\ meta'[u] < used
            /\ meta'[u] \in Elements => held'[meta'[u]] = 0
            /\ ~Listed(meta'[u])
      BY <1>1, <1>6, <1>9 DEF PlaceInv
    <2>4. \A u, v \in Threads : Busy(u)' /\ Busy(v)' /\ meta'[u] = meta'[v] => u = v
      BY <1>1, <1>9 DEF PlaceInv
    <2>5. QED BY <1>1, <1>3, <1>8, <2>1, <2>2, <2>3, <2>4 DEF PlaceInv
  <1>11. NoLeak'
    <2>1. SUFFICES ASSUME NEW n \in Elements, n < used
                   PROVE  held'[n] = 1 \/ Listed(n) \/ \E u \in Threads : Busy(u)' /\ meta'[u] = n
      BY <1>3, <1>8 DEF NoLeak
    <2>2. CASE n = m BY <2>2, <1>6
    <2>3. CASE n # m
      <3>1. held[n] = 1 \/ Listed(n) \/ \E u \in Threads : Busy(u) /\ meta[u] = n
        BY <2>1, <1>1 DEF NoLeak
      <3>2. QED BY <3>1, <2>3, <1>6, <1>7 DEF m
    <2>4. QED BY <2>2, <2>3
  <1>12. \A n \in Elements : Listed(n) => next'[n] = next[n] BY <1>1, <1>3, <1>5 DEF TypeOK
  <1>13. ListIntact' BY <1>1, <1>3, <1>12, ListFrame
  <1>14. PopInv' BY <1>1, <1>2, <1>3, <1>12, PopFrame
  <1>15. Need(m) <= top BY <1>1, <1>3 DEF GrowInv, m
  <1>16. GrowInv'
    <2>1. \A u \in Threads : u # t => Pushing(u)' = Pushing(u) /\ pc'[u] = pc[u] /\ meta'[u] = meta[u]
      BY <1>2, OtherThreads
    <2>2. ~Pushing(t)' BY <1>3 DEF Pushing
    <2>3. \A u \in Threads : pc'[u] \in {"recheck", "map", "set_top", "unlock"} => lock = u
      BY <1>1, <1>3, <2>1 DEF GrowInv
    <2>4. \A u \in Threads : pc'[u] \in {"map", "set_top"} =>
            top < Need(meta'[u]) /\ AlignUp(Need(meta'[u])) <= declared
      BY <1>1, <1>3, <2>1 DEF GrowInv
    <2>5. \A u \in Threads : pc'[u] = "set_top" => mapped = AlignUp(Need(meta'[u]))
      BY <1>1, <1>3, <2>1 DEF GrowInv
    <2>6. mapped = top \/ \E u \in Threads : pc'[u] = "set_top" BY <1>1, <1>3, <2>1 DEF GrowInv
    <2>7. \A u \in Threads : Pushing(u)' => meta'[u] \in Elements BY <1>1, <2>1, <2>2 DEF GrowInv
    <2>8. \A u \in Threads : pc'[u] \in {"unlock", "init_meta"} \/ Pushing(u)' => Need(meta'[u]) <= top
      BY <1>1, <1>3, <2>1, <2>2 DEF GrowInv
    <2>9. top <= declared /\ \A n \in Elements : held'[n] = 1 \/ Listed(n) => Need(n) <= top
      BY <1>1, <1>6, <1>15 DEF GrowInv
    <2>10. QED BY <1>3, <1>8, <2>3, <2>4, <2>5, <2>6, <2>7, <2>8, <2>9
               DEF GrowInv, Need, AlignUp, declared, Declare
  <1>17. CallerInv'
    <2>1. ~InMalloc(t)' /\ ~Pushing(t)' /\ pc'[t] # "pop"
      BY <1>3 DEF InMalloc, MallocSteps, CreateSteps, Pushing
    <2>2. Freers = {} => chain' = <<>> BY <1>1, <1>3 DEF CallerInv
    <2>3. QED BY <1>1, <1>2, <2>1, <2>2, CallerFrame
  <1>18. QED BY <1>1, <1>2, <1>10, <1>11, <1>13, <1>14, <1>16, <1>17 DEF SlabInv

\* Free keeps the invariant: the element goes from its caller to the freeing thread.
LEMMA FreeStep ==
    ASSUME SafeUse, SlabInv, NEW t \in Threads, NEW m \in Elements, Free(t, m)
    PROVE  SlabInv'
  <1>1. live /\ live' /\ TypeOK /\ CallerInv /\ ListIntact /\ PlaceInv /\ NoLeak /\ PopInv /\ GrowInv
    BY DEF SlabInv, Free, Running
  <1>2. TypeOK' /\ Others(t) BY <1>1, FreeType
  <1>3. /\ pc[t] = "idle" /\ pc'[t] = "push" /\ meta'[t] = m /\ held[m] > 0 /\ t \in Freers
        /\ held' = [held EXCEPT ![m] = @ - 1]
        /\ UNCHANGED <<freelist, next, chain, used, top, lock, mapped>>
    BY <1>1 DEF Free, Goto, TypeOK, listVars, bigaryVars
  <1>4. ~Busy(t) /\ Busy(t)' BY <1>3 DEF Busy, Creating, CreateSteps, Pushing
  <1>5. held[m] = 1 BY <1>1, <1>3 DEF PlaceInv
  <1>6. held'[m] = 0 /\ \A n \in Elements : n # m => held'[n] = held[n]
    BY <1>1, <1>3, <1>5 DEF TypeOK
  <1>7. \A u \in Threads : u # t => Busy(u)' = Busy(u) /\ meta'[u] = meta[u]
    BY <1>2, OtherThreads
  <1>8. \A n : Listed(n)' = Listed(n) BY <1>3 DEF Listed
  <1>9. ~Listed(m) /\ m \in Nat /\ m < used BY <1>1, <1>5, RangeFacts DEF PlaceInv
  <1>10. \A u \in Threads : Busy(u) => meta[u] # m BY <1>1, <1>5 DEF PlaceInv
  <1>11. PlaceInv'
    <2>1. \A n \in Elements : held'[n] \in {0, 1} BY <1>1, <1>6 DEF PlaceInv
    <2>2. \A n \in Elements : held'[n] = 1 => n < used /\ ~Listed(n)
      BY <1>1, <1>6 DEF PlaceInv
    <2>3. \A u \in Threads : Busy(u)' =>
            /\ meta'[u] \in Nat /\ meta'[u] < used
            /\ meta'[u] \in Elements => held'[meta'[u]] = 0
            /\ ~Listed(meta'[u])
      <3>1. SUFFICES ASSUME NEW u \in Threads, Busy(u)'
                     PROVE  /\ meta'[u] \in Nat /\ meta'[u] < used
                            /\ meta'[u] \in Elements => held'[meta'[u]] = 0
                            /\ ~Listed(meta'[u])
        OBVIOUS
      <3>2. CASE u = t BY <3>2, <1>3, <1>6, <1>9
      <3>3. CASE u # t
        <4>1. Busy(u) /\ meta'[u] = meta[u] /\ meta[u] # m BY <3>1, <3>3, <1>7, <1>10
        <4>2. QED BY <1>1, <4>1, <1>6 DEF PlaceInv
      <3>4. QED BY <3>2, <3>3
    <2>4. \A u, v \in Threads : Busy(u)' /\ Busy(v)' /\ meta'[u] = meta'[v] => u = v
      BY <1>1, <1>3, <1>7, <1>10 DEF PlaceInv
    <2>5. QED BY <1>1, <1>3, <1>8, <2>1, <2>2, <2>3, <2>4 DEF PlaceInv
  <1>12. NoLeak'
    <2>1. SUFFICES ASSUME NEW n \in Elements, n < used
                   PROVE  held'[n] = 1 \/ Listed(n) \/ \E u \in Threads : Busy(u)' /\ meta'[u] = n
      BY <1>3, <1>8 DEF NoLeak
    <2>2. CASE n = m BY <2>2, <1>3, <1>4
    <2>3. CASE n # m
      <3>1. held[n] = 1 \/ Listed(n) \/ \E u \in Threads : Busy(u) /\ meta[u] = n
        BY <2>1, <1>1 DEF NoLeak
      <3>2. QED BY <3>1, <2>3, <1>4, <1>6, <1>7
    <2>4. QED BY <2>2, <2>3
  <1>13. ListIntact' BY <1>1, <1>3, ListFrame
  <1>14. PopInv' BY <1>1, <1>2, <1>3, PopFrame
  <1>15. Need(m) <= top BY <1>1, <1>5 DEF GrowInv
  <1>16. GrowInv'
    <2>1. \A u \in Threads : u # t => Pushing(u)' = Pushing(u) /\ pc'[u] = pc[u] /\ meta'[u] = meta[u]
      BY <1>2, OtherThreads
    <2>3. \A u \in Threads : pc'[u] \in {"recheck", "map", "set_top", "unlock"} => lock = u
      BY <1>1, <1>3, <2>1 DEF GrowInv
    <2>4. \A u \in Threads : pc'[u] \in {"map", "set_top"} =>
            top < Need(meta'[u]) /\ AlignUp(Need(meta'[u])) <= declared
      BY <1>1, <1>3, <2>1 DEF GrowInv
    <2>5. \A u \in Threads : pc'[u] = "set_top" => mapped = AlignUp(Need(meta'[u]))
      BY <1>1, <1>3, <2>1 DEF GrowInv
    <2>6. mapped = top \/ \E u \in Threads : pc'[u] = "set_top" BY <1>1, <1>3, <2>1 DEF GrowInv
    <2>7. \A u \in Threads : Pushing(u)' => meta'[u] \in Elements BY <1>1, <1>3, <2>1 DEF GrowInv
    <2>8. \A u \in Threads : pc'[u] \in {"unlock", "init_meta"} \/ Pushing(u)' => Need(meta'[u]) <= top
      BY <1>1, <1>3, <1>15, <2>1 DEF GrowInv
    <2>9. top <= declared /\ \A n \in Elements : held'[n] = 1 \/ Listed(n) => Need(n) <= top
      BY <1>1, <1>6 DEF GrowInv
    <2>10. QED BY <1>3, <1>8, <2>3, <2>4, <2>5, <2>6, <2>7, <2>8, <2>9
               DEF GrowInv, Need, AlignUp, declared, Declare
  <1>17. CallerInv'
    <2>1. ~InMalloc(t)' BY <1>3 DEF InMalloc, MallocSteps, CreateSteps
    <2>2. Freers # {} BY <1>3
    <2>3. QED BY <1>1, <1>2, <2>1, <2>2, CallerFrame
  <1>18. QED BY <1>1, <1>2, <1>11, <1>12, <1>13, <1>14, <1>16, <1>17 DEF SlabInv

\* PushCas keeps the invariant: the element goes from the freeing thread to the head of the list.
LEMMA PushCasStep ==
    ASSUME SafeUse, SlabInv, NEW t \in Threads, PushCas(t)
    PROVE  SlabInv'
  <1>1. live /\ live' /\ TypeOK /\ CallerInv /\ ListIntact /\ PlaceInv /\ NoLeak /\ PopInv /\ GrowInv
    BY DEF SlabInv, PushCas, Running
  <1>2. TypeOK' /\ Others(t) BY <1>1, PushCasType
  <1> DEFINE m == meta[t]
  <1>3. /\ pc[t] = "push_cas" /\ pc'[t] = "idle" /\ freelist = next[m] /\ freelist' = m
        /\ chain' = <<m>> \o chain
        /\ UNCHANGED <<next, held, used, top, lock, mapped>>
    BY <1>1 DEF PushCas, Goto, Return, TypeOK, bigaryVars
  <1>4. Busy(t) /\ ~Busy(t)' /\ Pushing(t) BY <1>3 DEF Busy, Creating, CreateSteps, Pushing
  <1>5. m \in Elements /\ held[m] = 0 /\ ~Listed(m) /\ m < used /\ Need(m) <= top
    BY <1>1, <1>4 DEF PlaceInv, GrowInv
  <1>6. \A u \in Threads : u # t => Busy(u)' = Busy(u) /\ meta'[u] = meta[u]
    BY <1>2, OtherThreads
  <1>7. \A u \in Threads : Busy(u)' => u # t /\ Busy(u) /\ meta'[u] = meta[u] /\ meta[u] # m
    BY <1>1, <1>4, <1>6 DEF PlaceInv
  <1> HIDE DEF m
  <1>8. /\ Len(chain) \in Nat /\ Len(chain') = Len(chain) + 1 /\ chain'[1] = m
        /\ \A i \in 1..Len(chain) : chain'[i + 1] = chain[i]
        /\ \A i \in 2..Len(chain') : i - 1 \in 1..Len(chain) /\ chain'[i] = chain[i - 1]
    <2>1. chain \in Seq(Elements) /\ m \in Elements BY <1>1, <1>5 DEF TypeOK
    <2>2. Len(chain) \in Nat /\ Len(chain') = Len(chain) + 1 /\ chain'[1] = m BY <1>3, <2>1
    <2>3. \A i \in 1..Len(chain) : chain'[i + 1] = chain[i] BY <1>3, <2>1
    <2>4. \A i \in 2..Len(chain') : i - 1 \in 1..Len(chain) /\ chain'[i] = chain[i - 1]
      <3>1. TAKE i \in 2..Len(chain')
      <3>2. i - 1 \in 1..Len(chain) /\ (i - 1) + 1 = i BY <2>2
      <3>3. QED BY <2>3, <3>2
    <2>5. QED BY <2>2, <2>3, <2>4
  <1>9. \A n : Listed(n)' <=> Listed(n) \/ n = m
    <2>1. TAKE n
    <2>2. Listed(n) => Listed(n)' BY <1>8 DEF Listed
    <2>3. n = m => Listed(n)' BY <1>8 DEF Listed
    <2>4. Listed(n)' => Listed(n) \/ n = m BY <1>8 DEF Listed
    <2>5. QED BY <2>2, <2>3, <2>4
  <1>10. ListIntact'
    <2>1. freelist' = IF chain' = <<>> THEN NULL ELSE chain'[1] BY <1>3, <1>8
    <2>2. SUFFICES ASSUME NEW i \in 1..Len(chain')
                   PROVE  next[chain'[i]] = IF i = Len(chain') THEN NULL ELSE chain'[i + 1]
      BY <1>3, <2>1 DEF ListIntact
    <2>3. CASE i = 1
      <3>1. next[m] = IF chain = <<>> THEN NULL ELSE chain[1] BY <1>1, <1>3 DEF ListIntact
      <3>2. CASE chain = <<>> BY <3>1, <3>2, <2>3, <1>8
      <3>3. CASE chain # <<>>
        <4>1. Len(chain) >= 1 BY <3>3, <1>1, <1>8 DEF TypeOK
        <4>2. chain'[2] = chain[1] BY <4>1, <1>8
        <4>3. QED BY <3>1, <3>3, <4>1, <4>2, <2>3, <1>8
      <3>4. QED BY <3>2, <3>3
    <2>4. CASE i # 1
      <3>1. i - 1 \in 1..Len(chain) /\ chain'[i] = chain[i - 1] BY <2>2, <2>4, <1>8
      <3>2. next[chain[i - 1]] = IF i - 1 = Len(chain) THEN NULL ELSE chain[i - 1 + 1]
        BY <3>1, <1>1 DEF ListIntact
      <3>3. CASE i = Len(chain') BY <3>1, <3>2, <3>3, <1>8
      <3>4. CASE i # Len(chain')
        <4>1. i \in 1..Len(chain) /\ i - 1 # Len(chain) /\ i - 1 + 1 = i BY <3>4, <2>2, <1>8
        <4>2. chain'[i + 1] = chain[i] BY <4>1, <1>8
        <4>3. QED BY <3>1, <3>2, <3>4, <4>1, <4>2
      <3>5. QED BY <3>3, <3>4
    <2>5. QED BY <2>3, <2>4
  <1>11. PlaceInv'
    <2>1. \A n \in Elements : held[n] \in {0, 1} BY <1>1 DEF PlaceInv
    <2>2. \A n \in Elements : held[n] = 1 => n < used /\ ~Listed(n)'
      BY <1>1, <1>5, <1>9 DEF PlaceInv
    <2>3. \A u \in Threads : Busy(u)' =>
            /\ meta'[u] \in Nat /\ meta'[u] < used
            /\ meta'[u] \in Elements => held[meta'[u]] = 0
            /\ ~Listed(meta[u])'
      <3>1. SUFFICES ASSUME NEW u \in Threads, Busy(u)'
                     PROVE  /\ meta'[u] \in Nat /\ meta'[u] < used
                            /\ meta'[u] \in Elements => held[meta'[u]] = 0
                            /\ ~Listed(meta[u])'
        OBVIOUS
      <3>2. Busy(u) /\ meta'[u] = meta[u] /\ meta[u] # m BY <3>1, <1>7
      <3>3. QED BY <3>2, <1>1, <1>9 DEF PlaceInv
    <2>4. \A u, v \in Threads : Busy(u)' /\ Busy(v)' /\ meta'[u] = meta'[v] => u = v
      BY <1>1, <1>7 DEF PlaceInv
    <2>5. \A i, j \in 1..Len(chain') : chain'[i] = chain'[j] => i = j
      <3>1. \A i \in 2..Len(chain') : chain'[i] # m BY <1>5, <1>8 DEF Listed
      <3>2. \A i, j \in 2..Len(chain') : chain'[i] = chain'[j] => i = j
        <4>1. TAKE i, j \in 2..Len(chain')
        <4>2. HAVE chain'[i] = chain'[j]
        <4>3. /\ i - 1 \in 1..Len(chain) /\ chain'[i] = chain[i - 1]
              /\ j - 1 \in 1..Len(chain) /\ chain'[j] = chain[j - 1]
          BY <1>8
        <4>4. i - 1 = j - 1 BY <4>2, <4>3, <1>1 DEF PlaceInv
        <4>5. QED BY <4>4, <1>8
      <3>3. \A i \in 1..Len(chain') : i = 1 \/ i \in 2..Len(chain') BY <1>8
      <3>4. QED BY <3>1, <3>2, <3>3, <1>8
    <2>6. \A i \in 1..Len(chain') : chain'[i] < used
      <3>1. TAKE i \in 1..Len(chain')
      <3>2. CASE i = 1 BY <3>2, <1>5, <1>8
      <3>3. CASE i # 1
        <4>1. i - 1 \in 1..Len(chain) /\ chain'[i] = chain[i - 1] BY <3>3, <1>8
        <4>2. QED BY <4>1, <1>1 DEF PlaceInv
      <3>4. QED BY <3>2, <3>3
    <2>7. QED BY <1>3, <2>1, <2>2, <2>3, <2>4, <2>5, <2>6 DEF PlaceInv
  <1>12. NoLeak'
    <2>1. SUFFICES ASSUME NEW n \in Elements, n < used
                   PROVE  held[n] = 1 \/ Listed(n)' \/ \E u \in Threads : Busy(u)' /\ meta'[u] = n
      BY <1>3 DEF NoLeak
    <2>2. held[n] = 1 \/ Listed(n) \/ \E u \in Threads : Busy(u) /\ meta[u] = n
      BY <2>1, <1>1 DEF NoLeak
    <2>3. QED BY <2>2, <1>6, <1>9 DEF m
  <1>13. PopInv'
    <2>1. \A u \in Threads : u # t => pc'[u] = pc[u] /\ meta'[u] = meta[u] /\ nxt'[u] = nxt[u]
      BY <1>2 DEF Others
    <2>2. \A u \in Threads : pc'[u] \in {"read_next", "pop_cas"} =>
            /\ u # t /\ meta'[u] \in Elements /\ Listed(meta[u])' /\ meta'[u] = meta[u]
      BY <1>1, <1>3, <1>9, <2>1 DEF PopInv
    <2>3. \A u \in Threads : pc'[u] = "pop_cas" => nxt'[u] = next[meta'[u]]
      BY <1>1, <1>3, <2>1 DEF PopInv
    <2>4. QED BY <1>3, <2>2, <2>3 DEF PopInv
  <1>14. GrowInv'
    <2>1. \A u \in Threads : u # t => Pushing(u)' = Pushing(u) /\ pc'[u] = pc[u] /\ meta'[u] = meta[u]
      BY <1>2, OtherThreads
    <2>2. ~Pushing(t)' BY <1>3 DEF Pushing
    <2>3. \A u \in Threads : pc'[u] \in {"recheck", "map", "set_top", "unlock"} => lock = u
      BY <1>1, <1>3, <2>1 DEF GrowInv
    <2>4. \A u \in Threads : pc'[u] \in {"map", "set_top"} =>
            top < Need(meta'[u]) /\ AlignUp(Need(meta'[u])) <= declared
      BY <1>1, <1>3, <2>1 DEF GrowInv
    <2>5. \A u \in Threads : pc'[u] = "set_top" => mapped = AlignUp(Need(meta'[u]))
      BY <1>1, <1>3, <2>1 DEF GrowInv
    <2>6. mapped = top \/ \E u \in Threads : pc'[u] = "set_top" BY <1>1, <1>3, <2>1 DEF GrowInv
    <2>7. \A u \in Threads : Pushing(u)' => meta'[u] \in Elements BY <1>1, <2>1, <2>2 DEF GrowInv
    <2>8. \A u \in Threads : pc'[u] \in {"unlock", "init_meta"} \/ Pushing(u)' => Need(meta'[u]) <= top
      BY <1>1, <1>3, <2>1, <2>2 DEF GrowInv
    <2>9. top <= declared /\ \A n \in Elements : held[n] = 1 \/ Listed(n)' => Need(n) <= top
      BY <1>1, <1>5, <1>9 DEF GrowInv
    <2>10. QED BY <1>3, <2>3, <2>4, <2>5, <2>6, <2>7, <2>8, <2>9
               DEF GrowInv, Need, AlignUp, declared, Declare
  <1>15. CallerInv'
    <2>1. ~InMalloc(t)' BY <1>3 DEF InMalloc, MallocSteps, CreateSteps
    <2>2. Freers # {} BY <1>1, <1>4 DEF CallerInv
    <2>3. QED BY <1>1, <1>2, <2>1, <2>2, CallerFrame
  <1>16. QED BY <1>1, <1>2, <1>10, <1>11, <1>12, <1>13, <1>14, <1>15 DEF SlabInv

\* The heart of the list: since nobody else pops, the head that the popper
\* finds unchanged still has the successor it read.
LEMMA PopCasStep ==
    ASSUME SafeUse, SlabInv, NEW t \in Threads, PopCas(t)
    PROVE  SlabInv' /\ held[meta[t]] = 0 /\ meta[t] \in Elements
  <1>1. live /\ live' /\ TypeOK /\ CallerInv /\ ListIntact /\ PlaceInv /\ NoLeak /\ PopInv /\ GrowInv
    BY DEF SlabInv, PopCas, Running
  <1>2. TypeOK' /\ Others(t) BY <1>1, PopCasType
  <1> DEFINE m == meta[t]
  <1>3. /\ pc[t] = "pop_cas" /\ pc'[t] = "idle" /\ freelist = m /\ freelist' = nxt[t]
        /\ chain' = PopChain /\ held' = [held EXCEPT ![m] = @ + 1]
        /\ UNCHANGED <<next, used, top, lock, mapped>>
    BY <1>1 DEF PopCas, Goto, Return, TypeOK, bigaryVars
  <1>4. m \in Elements /\ Listed(m) /\ nxt[t] = next[m] BY <1>1, <1>3 DEF PopInv
  <1>5. ~Busy(t) /\ ~Busy(t)' BY <1>3 DEF Busy, Creating, CreateSteps, Pushing
  <1>6. held[m] = 0 BY <1>1, <1>4 DEF PlaceInv
  <1>7. held'[m] = 1 /\ \A n \in Elements : n # m => held'[n] = held[n]
    BY <1>1, <1>3, <1>4, <1>6 DEF TypeOK
  <1>8. \A u \in Threads : u # t => Busy(u)' = Busy(u) /\ meta'[u] = meta[u]
    BY <1>2, OtherThreads
  <1>9. chain # <<>> /\ Len(chain) \in Nat /\ Len(chain) >= 1 /\ chain[1] = m
    <2>1. chain # <<>> /\ Len(chain) \in Nat /\ Len(chain) >= 1 BY <1>1, <1>4 DEF Listed, TypeOK
    <2>2. QED BY <1>1, <1>3, <2>1 DEF ListIntact
  <1>10. SerialMalloc /\ \A u \in Threads : u # t => ~InMalloc(u)
    <2>1. Freers # {} BY <1>1, <1>9 DEF CallerInv
    <2>2. SerialMalloc BY <2>1 DEF SafeUse
    <2>3. InMalloc(t) BY <1>3 DEF InMalloc, MallocSteps
    <2>4. QED BY <1>1, <2>2, <2>3 DEF CallerInv
  <1> HIDE DEF m
  <1>11. /\ Len(chain') = Len(chain) - 1
         /\ \A i \in 1..Len(chain') : i + 1 \in 1..Len(chain) /\ chain'[i] = chain[i + 1]
         /\ \A i \in 2..Len(chain) : i - 1 \in 1..Len(chain') /\ chain'[i - 1] = chain[i]
    <2>1. chain' = Tail(chain) BY <1>3, <1>9 DEF PopChain
    <2>2. QED BY <2>1, <1>1, <1>9 DEF TypeOK
  <1>12. \A n : Listed(n)' <=> Listed(n) /\ n # m
    <2>1. TAKE n
    <2>2. Listed(n)' => Listed(n) /\ n # m
      <3>1. SUFFICES ASSUME NEW i \in 1..Len(chain'), chain'[i] = n PROVE Listed(n) /\ n # m
        BY DEF Listed
      <3>2. i + 1 \in 1..Len(chain) /\ chain[i + 1] = n /\ i + 1 # 1 BY <3>1, <1>9, <1>11
      <3>3. chain[i + 1] # chain[1] BY <3>2, <1>1, <1>9 DEF PlaceInv
      <3>4. QED BY <3>2, <3>3, <1>9 DEF Listed
    <2>3. Listed(n) /\ n # m => Listed(n)'
      <3>1. SUFFICES ASSUME NEW i \in 1..Len(chain), chain[i] = n, n # m PROVE Listed(n)'
        BY DEF Listed
      <3>2. i \in 2..Len(chain) BY <3>1, <1>9
      <3>3. QED BY <3>1, <3>2, <1>11 DEF Listed
    <2>4. QED BY <2>2, <2>3
  <1>13. ListIntact'
    <2>1. next[chain[1]] = IF 1 = Len(chain) THEN NULL ELSE chain[2]
      BY <1>1, <1>9 DEF ListIntact
    <2>2. freelist' = IF chain' = <<>> THEN NULL ELSE chain'[1]
      <3>1. CASE Len(chain) = 1
        <4>1. Len(chain') = 0 BY <3>1, <1>11
        <4>2. chain' = <<>> BY <4>1, <1>2 DEF TypeOK
        <4>3. QED BY <4>2, <2>1, <3>1, <1>3, <1>4, <1>9
      <3>2. CASE Len(chain) # 1
        <4>1. Len(chain') >= 1 /\ chain'[1] = chain[2] BY <3>2, <1>9, <1>11
        <4>2. chain' # <<>> BY <4>1
        <4>3. QED BY <4>1, <4>2, <2>1, <3>2, <1>3, <1>4, <1>9
      <3>3. QED BY <3>1, <3>2
    <2>3. SUFFICES ASSUME NEW i \in 1..Len(chain')
                   PROVE  next[chain'[i]] = IF i = Len(chain') THEN NULL ELSE chain'[i + 1]
      BY <1>3, <2>2 DEF ListIntact
    <2>4. i + 1 \in 1..Len(chain) /\ chain'[i] = chain[i + 1] BY <1>11
    <2>5. next[chain[i + 1]] = IF i + 1 = Len(chain) THEN NULL ELSE chain[i + 1 + 1]
      BY <2>4, <1>1 DEF ListIntact
    <2>6. CASE i = Len(chain') BY <2>4, <2>5, <2>6, <1>9, <1>11
    <2>7. CASE i # Len(chain')
      <3>1. i + 1 \in 1..Len(chain') /\ i + 1 # Len(chain) BY <2>7, <1>9, <1>11
      <3>2. chain'[i + 1] = chain[i + 1 + 1] BY <3>1, <1>11
      <3>3. QED BY <2>4, <2>5, <2>7, <3>1, <3>2
    <2>8. QED BY <2>6, <2>7
  <1>14. PlaceInv'
    <2>1. \A n \in Elements : held'[n] \in {0, 1} BY <1>1, <1>7 DEF PlaceInv
    <2>2. \A n \in Elements : held'[n] = 1 => n < used /\ ~Listed(n)'
      <3>1. m < used BY <1>1, <1>4 DEF PlaceInv, Listed
      <3>2. QED BY <1>1, <1>7, <1>12, <3>1 DEF PlaceInv
    <2>3. \A u \in Threads : Busy(u)' =>
            /\ meta'[u] = meta[u] /\ meta'[u] \in Nat /\ meta'[u] < used
            /\ meta'[u] \in Elements => held'[meta'[u]] = 0
            /\ ~Listed(meta[u])'
      <3>1. SUFFICES ASSUME NEW u \in Threads, Busy(u)'
                     PROVE  /\ meta'[u] = meta[u] /\ meta'[u] \in Nat /\ meta'[u] < used
                            /\ meta'[u] \in Elements => held'[meta'[u]] = 0
                            /\ ~Listed(meta[u])'
        OBVIOUS
      <3>2. Busy(u) /\ meta'[u] = meta[u] BY <3>1, <1>5, <1>8
      <3>3. meta[u] # m BY <3>2, <1>1, <1>4 DEF PlaceInv
      <3>4. QED BY <3>2, <3>3, <1>1, <1>7, <1>12 DEF PlaceInv
    <2>4. \A u, v \in Threads : Busy(u)' /\ Busy(v)' /\ meta'[u] = meta'[v] => u = v
      BY <1>1, <1>5, <1>8 DEF PlaceInv
    <2>5. \A i, j \in 1..Len(chain') : chain'[i] = chain'[j] => i = j
      <3>1. TAKE i, j \in 1..Len(chain')
      <3>2. HAVE chain'[i] = chain'[j]
      <3>3. /\ i + 1 \in 1..Len(chain) /\ chain'[i] = chain[i + 1]
            /\ j + 1 \in 1..Len(chain) /\ chain'[j] = chain[j + 1]
        BY <1>11
      <3>4. i + 1 = j + 1 BY <3>2, <3>3, <1>1 DEF PlaceInv
      <3>5. QED BY <3>4, <1>11
    <2>6. \A i \in 1..Len(chain') : chain'[i] < used BY <1>1, <1>11 DEF PlaceInv
    <2>7. QED BY <1>3, <2>1, <2>2, <2>3, <2>4, <2>5, <2>6 DEF PlaceInv
  <1>15. NoLeak'
    <2>1. SUFFICES ASSUME NEW n \in Elements, n < used
                   PROVE  held'[n] = 1 \/ Listed(n)' \/ \E u \in Threads : Busy(u)' /\ meta'[u] = n
      BY <1>3 DEF NoLeak
    <2>2. held[n] = 1 \/ Listed(n) \/ \E u \in Threads : Busy(u) /\ meta[u] = n
      BY <2>1, <1>1 DEF NoLeak
    <2>3. QED BY <2>2, <1>5, <1>7, <1>8, <1>12
  <1>16. PopInv'
    <2>1. \A u \in Threads : pc'[u] \notin {"read_next", "pop_cas"}
      BY <1>2, <1>3, <1>10 DEF Others, InMalloc, MallocSteps
    <2>2. QED BY <2>1 DEF PopInv
  <1>17. GrowInv'
    <2>1. \A u \in Threads : u # t => Pushing(u)' = Pushing(u) /\ pc'[u] = pc[u] /\ meta'[u] = meta[u]
      BY <1>2, OtherThreads
    <2>2. ~Pushing(t)' BY <1>3 DEF Pushing
    <2>3. \A u \in Threads : pc'[u] \in {"recheck", "map", "set_top", "unlock"} => lock = u
      BY <1>1, <1>3, <2>1 DEF GrowInv
    <2>4. \A u \in Threads : pc'[u] \in {"map", "set_top"} =>
            top < Need(meta'[u]) /\ AlignUp(Need(meta'[u])) <= declared
      BY <1>1, <1>3, <2>1 DEF GrowInv
    <2>5. \A u \in Threads : pc'[u] = "set_top" => mapped = AlignUp(Need(meta'[u]))
      BY <1>1, <1>3, <2>1 DEF GrowInv
    <2>6. mapped = top \/ \E u \in Threads : pc'[u] = "set_top" BY <1>1, <1>3, <2>1 DEF GrowInv
    <2>7. \A u \in Threads : Pushing(u)' => meta'[u] \in Elements BY <1>1, <2>1, <2>2 DEF GrowInv
    <2>8. \A u \in Threads : pc'[u] \in {"unlock", "init_meta"} \/ Pushing(u)' => Need(meta'[u]) <= top
      BY <1>1, <1>3, <2>1, <2>2 DEF GrowInv
    <2>9. top <= declared /\ \A n \in Elements : held'[n] = 1 \/ Listed(n)' => Need(n) <= top
      BY <1>1, <1>4, <1>7, <1>12 DEF GrowInv
    <2>10. QED BY <1>3, <2>3, <2>4, <2>5, <2>6, <2>7, <2>8, <2>9
               DEF GrowInv, Need, AlignUp, declared, Declare
  <1>18. CallerInv'
    <2>1. ~InMalloc(t)' /\ ~Pushing(t)' BY <1>3 DEF InMalloc, MallocSteps, CreateSteps, Pushing
    <2>2. Freers # {} BY <1>1, <1>9 DEF CallerInv
    <2>3. QED BY <1>1, <1>2, <2>1, <2>2, CallerFrame
  <1>19. SlabInv' BY <1>1, <1>2, <1>13, <1>14, <1>15, <1>16, <1>17, <1>18 DEF SlabInv
  <1>20. QED BY <1>4, <1>6, <1>19 DEF m

(***************************************************************************)
(* The life of the pool, and the theorems                                  *)
(***************************************************************************)

\* SlabInit keeps the invariant: an empty pool over a fresh range.
LEMMA SlabInitStep ==
    ASSUME SafeUse, SlabInv, SlabInit
    PROVE  SlabInv'
  <1>1. TypeOK /\ CallerInv /\ ~live /\ \A n \in Elements : held[n] = 0
    BY DEF SlabInv, SlabInit
  <1>2. \A t \in Threads : pc[t] = "idle" BY <1>1 DEF CallerInv
  <1>3. /\ live' /\ used' = 0 /\ freelist' = NULL /\ chain' = <<>>
        /\ next' = [n \in Elements |-> NULL]
        /\ top' = PageSize /\ mapped' = PageSize /\ lock' = NULL
        /\ UNCHANGED <<died, pc, meta, nxt, held>>
    BY DEF SlabInit
  <1>4. \A t \in Threads : pc'[t] = "idle" BY <1>2, <1>3
  <1>5. \A t \in Threads : ~Busy(t)' /\ ~Pushing(t)' /\ ~InMalloc(t)'
    BY <1>4 DEF Busy, Creating, CreateSteps, Pushing, InMalloc, MallocSteps
  <1>6. \A n : ~Listed(n)' BY <1>3 DEF Listed
  <1>7. TypeOK'
    <2>1. next' \in [Elements -> Elements \cup {NULL}] /\ chain' \in Seq(Elements) BY <1>3
    <2>2. top' \in Nat /\ mapped' \in Nat BY <1>3, RangeFacts
    <2>3. live' \in BOOLEAN BY DEF SlabInit
    <2>4. QED BY <1>1, <1>3, <1>4, <2>1, <2>2, <2>3 DEF TypeOK
  <1>8. CallerInv' BY <1>3, <1>4, <1>5 DEF CallerInv
  <1>9. ListIntact' BY <1>3 DEF ListIntact
  <1>10. PlaceInv' BY <1>1, <1>3, <1>5, <1>6 DEF PlaceInv
  <1>11. NoLeak'
    <2>1. \A n \in Elements : ~(n < 0) BY RangeFacts
    <2>2. QED BY <1>3, <2>1 DEF NoLeak
  <1>12. PopInv' BY <1>4 DEF PopInv
  <1>13. GrowInv'
    <2>1. PageSize <= declared BY RangeFacts
    <2>2. \A n \in Elements : held'[n] # 1 BY <1>1, <1>3
    <2>3. QED BY <1>3, <1>4, <1>5, <1>6, <2>1, <2>2 DEF GrowInv, declared, Declare, AlignUp
  <1>14. QED BY <1>3, <1>7, <1>8, <1>9, <1>10, <1>11, <1>12, <1>13 DEF SlabInv

\* SlabDestroy keeps the invariant: nothing is left.
LEMMA SlabDestroyStep ==
    ASSUME SafeUse, SlabInv, SlabDestroy
    PROVE  SlabInv'
  <1>1. TypeOK /\ CallerInv BY DEF SlabInv
  <1>2. /\ ~live' /\ held' = [n \in Elements |-> 0] /\ mapped' = 0
        /\ UNCHANGED <<died, freelist, next, used, top, lock, pc, meta, nxt, chain>>
        /\ \A t \in Threads : pc[t] = "idle"
    BY DEF SlabDestroy
  <1>3. TypeOK'
    <2>1. held' \in [Elements -> Nat] BY <1>2
    <2>2. live' \in BOOLEAN BY DEF SlabDestroy
    <2>3. QED BY <1>1, <1>2, <2>1, <2>2 DEF TypeOK
  <1>4. CallerInv' BY <1>1, <1>2 DEF CallerInv, Pushing, InMalloc
  <1>5. QED BY <1>2, <1>3, <1>4 DEF SlabInv

\* Stutter keeps the invariant: nothing changes.
LEMMA StutterStep ==
    ASSUME SlabInv, UNCHANGED vars
    PROVE  SlabInv'
  BY DEF SlabInv, vars, TypeOK, CallerInv, ListIntact, PlaceInv, NoLeak, PopInv, GrowInv,
         Listed, Busy, Creating, Pushing, InMalloc

\* The initial state: the slab is not initialised and nobody is inside it.
LEMMA InitEstablishes == Init => SlabInv
  <1>1. SUFFICES ASSUME Init PROVE SlabInv OBVIOUS
  <1>2. TypeOK
    <2>1. next \in [Elements -> Elements \cup {NULL}] /\ held \in [Elements -> Nat]
      BY <1>1 DEF Init
    <2>2. pc \in [Threads -> MallocSteps \cup {"idle", "push", "push_cas"}] BY <1>1 DEF Init
    <2>3. meta \in [Threads -> Nat \cup {NULL}] /\ nxt \in [Threads -> Elements \cup {NULL}]
      BY <1>1 DEF Init
    <2>4. \A t \in Threads : pc[t] # "init_meta" BY <1>1 DEF Init
    <2>5. live \in BOOLEAN BY <1>1, Zenon DEF Init
    <2>6. chain \in Seq(Elements) BY <1>1 DEF Init
    <2>7. QED BY <1>1, <2>1, <2>2, <2>3, <2>4, <2>5, <2>6 DEF Init, TypeOK
  <1>3. CallerInv BY <1>1 DEF Init, CallerInv, Pushing, InMalloc, MallocSteps, CreateSteps
  <1>4. QED BY <1>1, <1>2, <1>3 DEF Init, SlabInv

\* Every step of the slab keeps the invariant, whatever the threads do within
\* the usage contract.
LEMMA NextPreserves ==
    ASSUME SafeUse, SlabInv, [Next]_vars
    PROVE  SlabInv'
  <1>1. CASE SlabInit BY <1>1, SlabInitStep
  <1>2. CASE SlabDestroy BY <1>2, SlabDestroyStep
  <1>3. CASE Exited BY <1>3, StutterStep DEF Exited
  <1>4. CASE UNCHANGED vars BY <1>4, StutterStep
  <1>5. ASSUME NEW t \in Threads, Malloc(t) PROVE SlabInv'
    BY <1>5, PopLoadStep, PopReadNextStep, PopCasStep, PopCasFailStep,
       FetchIncrementUsedStep, CheckTopStep, LockEnlargementStep, RecheckStep,
       MapMoreStep, MapFailsStep, SetTopStep, UnlockEnlargementStep, InitMetaStep
       DEF Malloc
  <1>6. ASSUME NEW t \in Threads, Release(t) PROVE SlabInv'
    BY <1>6, PushLoadStep, PushCasStep, PushCasFailStep, FreeStep DEF Release
  <1>7. QED BY <1>1, <1>2, <1>3, <1>4, <1>5, <1>6 DEF Next

\* Under the usage contract the slab allocator keeps its invariant, for any
\* number of threads and any element, page and pool size.
THEOREM SlabInvariance == SafeUse => (Spec => []SlabInv)
  <1>1. SUFFICES ASSUME SafeUse PROVE Spec => []SlabInv OBVIOUS
  <1>2. SlabInv /\ [Next]_vars => SlabInv' BY <1>1, NextPreserves
  <1>3. QED BY <1>2, InitEstablishes, PTL DEF Spec

\* Type correctness, with the bound on the element a new header is written to.
THEOREM SlabTypes == SafeUse => (Spec => []TypeOK)
  <1>1. SlabInv => TypeOK BY DEF SlabInv
  <1>2. QED BY <1>1, SlabInvariance, PTL

\* The lock-free list is never cut and never closes a cycle.
THEOREM FreeListIntact == SafeUse => (Spec => []ListIntact)
  <1>1. SlabInv => ListIntact BY DEF SlabInv, ListIntact
  <1>2. QED BY <1>1, SlabInvariance, PTL

\* Memory is mapped before an element of it is handed out or recycled.
THEOREM MappedFirst == SafeUse => (Spec => []MappedBeforeUse)
  <1>1. SUFFICES ASSUME SlabInv, live PROVE MappedBeforeUse
    <2>1. ~live => MappedBeforeUse BY DEF MappedBeforeUse
    <2>2. SlabInv => MappedBeforeUse BY <1>1, <2>1
    <2>3. QED BY <2>2, SlabInvariance, PTL
  <1>2. TypeOK /\ PlaceInv /\ GrowInv BY <1>1 DEF SlabInv
  <1>3. top <= mapped
    <2>1. CASE mapped = top BY <2>1, <1>2 DEF TypeOK
    <2>2. ASSUME NEW t \in Threads, pc[t] = "set_top" PROVE top <= mapped
      <3>1. top < Need(meta[t]) /\ mapped = AlignUp(Need(meta[t])) BY <1>2, <2>2 DEF GrowInv
      <3>2. meta[t] \in Nat BY <1>2, <2>2 DEF PlaceInv, Busy, Creating, CreateSteps
      <3>3. Need(meta[t]) \in Nat /\ mapped \in Nat /\ Need(meta[t]) <= mapped /\ top \in Nat
        BY <1>2, <3>1, <3>2, RangeFacts DEF TypeOK
      <3>4. QED BY <3>1, <3>3
    <2>3. QED BY <2>1, <2>2, <1>2 DEF GrowInv
  <1>4. \A n \in Elements : held[n] > 0 \/ n \in ToSet(chain) => Need(n) <= top
    <2>1. \A n \in Elements : held[n] > 0 => held[n] = 1 BY <1>2 DEF PlaceInv, TypeOK
    <2>2. \A n \in Elements : n \in ToSet(chain) => Listed(n) BY <1>2 DEF ToSet, Listed, TypeOK
    <2>3. QED BY <2>1, <2>2, <1>2 DEF GrowInv
  <1>5. \A t \in Threads : pc[t] \in {"init_meta", "push", "push_cas"} => Need(meta[t]) <= top
    BY <1>2 DEF GrowInv, Pushing
  <1>6. QED BY <1>3, <1>4, <1>5 DEF MappedBeforeUse

\* No element is lost, and none is in two places.
THEOREM ElementsAccounted == SafeUse => (Spec => []ElementAccounting)
  <1>1. SUFFICES ASSUME SlabInv, live, NEW n \in (0..used - 1) \cap Elements
                 PROVE  LET busy == {t \in Threads : Busy(t) /\ meta[t] = n}
                            listed == {i \in 1..Len(chain) : chain[i] = n}
                        IN  Cardinality(busy) + Cardinality(listed) + held[n] = 1
    <2>1. SlabInv => ElementAccounting BY <1>1 DEF ElementAccounting
    <2>2. QED BY <2>1, SlabInvariance, PTL
  <1> DEFINE busy == {t \in Threads : Busy(t) /\ meta[t] = n}
             listed == {i \in 1..Len(chain) : chain[i] = n}
  <1>2. TypeOK /\ PlaceInv /\ NoLeak BY <1>1 DEF SlabInv
  <1>3. n \in Elements /\ n < used BY <1>2 DEF TypeOK
  <1>4. held[n] \in {0, 1} BY <1>2, <1>3 DEF PlaceInv
  <1>5. Cardinality({}) = 0 BY FS_EmptySet
  <1>6. held[n] = 1 => Cardinality(busy) = 0 /\ Cardinality(listed) = 0
    <2>0. HAVE held[n] = 1
    <2>1. busy = {} BY <1>2, <1>3, <2>0 DEF PlaceInv
    <2>2. listed = {} BY <1>2, <1>3, <2>0 DEF PlaceInv, Listed
    <2>3. QED BY <2>1, <2>2, <1>5
  <1>7. held[n] = 0 /\ Listed(n) => Cardinality(busy) = 0 /\ Cardinality(listed) = 1
    <2>0. HAVE held[n] = 0 /\ Listed(n)
    <2>1. busy = {} BY <1>2, <2>0 DEF PlaceInv
    <2>2. PICK i \in 1..Len(chain) : chain[i] = n BY <2>0 DEF Listed
    <2>3. listed = {i} BY <1>2, <2>2 DEF PlaceInv
    <2>4. Cardinality(listed) = 1 BY <2>3, FS_Singleton
    <2>5. QED BY <2>1, <2>4, <1>5
  <1>8. held[n] = 0 /\ ~Listed(n) => Cardinality(busy) = 1 /\ Cardinality(listed) = 0
    <2>0. HAVE held[n] = 0 /\ ~Listed(n)
    <2>1. listed = {} BY <2>0 DEF Listed
    <2>2. PICK t \in Threads : Busy(t) /\ meta[t] = n BY <1>2, <1>3, <2>0 DEF NoLeak
    <2>3. busy = {t} BY <1>2, <2>2 DEF PlaceInv
    <2>4. Cardinality(busy) = 1 BY <2>3, FS_Singleton
    <2>5. QED BY <2>1, <2>4, <1>5
  <1> HIDE DEF busy, listed
  <1>9. Cardinality(busy) + Cardinality(listed) + held[n] = 1 BY <1>4, <1>6, <1>7, <1>8
  <1>10. QED BY <1>9 DEF busy, listed

\* bigary never takes space back from a thread that already counts on it.
THEOREM BigaryGrows == SafeUse => (Spec => TopGrows)
  <1>1. SUFFICES ASSUME SafeUse PROVE Spec => TopGrows OBVIOUS
  <1>2. ASSUME SlabInv, [Next]_vars, live, live'
        PROVE  top <= top' /\ mapped <= mapped'
    <2>1. TypeOK /\ GrowInv /\ PlaceInv BY <1>2 DEF SlabInv
    <2>2. top \in Nat /\ mapped \in Nat BY <2>1 DEF TypeOK
    <2>3. CASE UNCHANGED <<top, mapped>> BY <2>2, <2>3
    <2>4. ASSUME NEW t \in Threads, MapMore(t) PROVE top <= top' /\ mapped <= mapped'
      <3>1. pc[t] = "map" /\ top' = top /\ mapped' = AlignUp(Need(meta[t])) BY <2>4 DEF MapMore
      <3>2. lock = t /\ top < Need(meta[t]) BY <2>1, <3>1 DEF GrowInv
      <3>3. mapped = top BY <2>1, <3>1, <3>2 DEF GrowInv
      <3>4. meta[t] \in Nat BY <2>1, <3>1 DEF PlaceInv, Busy, Creating, CreateSteps
      <3>5. Need(meta[t]) \in Nat /\ AlignUp(Need(meta[t])) \in Nat
            /\ Need(meta[t]) <= AlignUp(Need(meta[t]))
        BY <3>4, RangeFacts
      <3>6. QED BY <2>2, <3>1, <3>2, <3>3, <3>5
    <2>5. ASSUME NEW t \in Threads, SetTop(t) PROVE top <= top' /\ mapped <= mapped'
      <3>1. pc[t] = "set_top" /\ mapped' = mapped /\ top' = AlignUp(Need(meta[t])) BY <2>5 DEF SetTop
      <3>2. top < Need(meta[t]) BY <2>1, <3>1 DEF GrowInv
      <3>3. meta[t] \in Nat BY <2>1, <3>1 DEF PlaceInv, Busy, Creating, CreateSteps
      <3>4. Need(meta[t]) \in Nat /\ AlignUp(Need(meta[t])) \in Nat
            /\ Need(meta[t]) <= AlignUp(Need(meta[t]))
        BY <3>3, RangeFacts
      <3>5. QED BY <2>2, <3>1, <3>2, <3>4
    <2>6. CASE SlabInit \/ SlabDestroy BY <1>2, <2>6 DEF SlabInit, SlabDestroy
    <2>7. ASSUME NEW t \in Threads, Malloc(t) \/ Release(t) PROVE top <= top' /\ mapped <= mapped'
      BY <2>7, <2>3, <2>4, <2>5
         DEF Malloc, Release, PopLoad, PopReadNext, PopCas, PopCasFail, FetchIncrementUsed,
             CheckTop, LockEnlargement, Recheck, MapFails, UnlockEnlargement, InitMeta,
             Free, PushLoad, PushCas, PushCasFail, bigaryVars
    <2>8. QED BY <1>2, <2>3, <2>6, <2>7 DEF Next, Exited, vars
  <1>3. SlabInv /\ [Next]_vars => [live /\ live' => top <= top' /\ mapped <= mapped']_vars
    BY <1>2
  <1>4. Spec => []SlabInv BY <1>1, SlabInvariance
  <1>5. QED BY <1>3, <1>4, PTL DEF Spec, TopGrows

\* The slab allocator implements ElementPool: an element has one owner at a time.
THEOREM PoolRefinement == SafeUse => (Spec => PoolSpec)
  <1>1. SUFFICES ASSUME SafeUse PROVE Spec => PoolSpec OBVIOUS
  <1>2. Init => Pool!Init BY DEF Init, Pool!Init
  <1>3. ASSUME SlabInv, [Next]_vars PROVE [Pool!Next]_held
    <2> USE DEF Pool!Next, Pool!Malloc, Pool!Free, Pool!Destroy
    <2>1. CASE UNCHANGED held BY <2>1
    <2>2. CASE SlabDestroy BY <2>2 DEF SlabDestroy
    <2>3. ASSUME NEW t \in Threads, PopCas(t) PROVE [Pool!Next]_held
      <3>1. held[meta[t]] = 0 /\ meta[t] \in Elements BY <1>1, <1>3, <2>3, PopCasStep
      <3>2. held' = [held EXCEPT ![meta[t]] = 1] BY <2>3, <3>1 DEF PopCas
      <3>3. QED BY <3>1, <3>2
    <2>4. ASSUME NEW t \in Threads, InitMeta(t) PROVE [Pool!Next]_held
      <3>1. TypeOK /\ PlaceInv /\ pc[t] = "init_meta" BY <1>3, <2>4 DEF SlabInv, InitMeta, Running
      <3>2. held[meta[t]] = 0 /\ meta[t] \in Elements
        BY <3>1 DEF TypeOK, PlaceInv, Busy, Creating, CreateSteps
      <3>3. held' = [held EXCEPT ![meta[t]] = 1] BY <2>4, <3>2 DEF InitMeta
      <3>4. QED BY <3>2, <3>3
    <2>5. ASSUME NEW t \in Threads, NEW n \in Elements, Free(t, n) PROVE [Pool!Next]_held
      <3>1. held[n] = 1 BY <1>3, <2>5 DEF SlabInv, PlaceInv, Free, Running
      <3>2. held' = [held EXCEPT ![n] = 0] BY <2>5, <3>1 DEF Free
      <3>3. QED BY <3>1, <3>2
    <2>6. ASSUME NEW t \in Threads, Malloc(t) \/ Release(t) PROVE [Pool!Next]_held
      <3>1. PopCas(t) \/ InitMeta(t) \/ (\E n \in Elements : Free(t, n)) \/ UNCHANGED held
        BY <2>6 DEF Malloc, Release, PopLoad, PopReadNext, PopCasFail, FetchIncrementUsed,
             CheckTop, LockEnlargement, Recheck, MapMore, MapFails, SetTop, UnlockEnlargement,
             PushLoad, PushCas, PushCasFail
      <3>2. QED BY <3>1, <2>1, <2>3, <2>4, <2>5
    <2>7. CASE SlabInit \/ Exited \/ UNCHANGED vars BY <2>7, <2>1 DEF SlabInit, Exited, vars
    <2>8. QED BY <1>3, <2>2, <2>6, <2>7 DEF Next
  <1>4. Spec => []SlabInv BY <1>1, SlabInvariance
  <1>5. QED BY <1>2, <1>3, <1>4, PTL DEF Spec, PoolSpec, Pool!Spec

\* The process does not exit for lack of declared space before max_elements
\* elements exist.
THEOREM EnoughElements == SafeUse => (Spec => []DiesOnlyBeyondMax)
  <1> DEFINE DieInv == died = "limit" => live /\ used > MaxElements
  <1>1. SUFFICES ASSUME SafeUse PROVE Spec => []DiesOnlyBeyondMax OBVIOUS
  <1>2. Init => DieInv BY DEF Init
  <1>3. ASSUME SlabInv, DieInv, [Next]_vars PROVE DieInv'
    <2>1. ASSUME NEW t \in Threads, Recheck(t), died' = "limit" PROVE live' /\ used' > MaxElements
      <3>1. TypeOK /\ PlaceInv /\ pc[t] = "recheck" BY <1>3, <2>1 DEF SlabInv, Recheck, Running
      <3>2. meta[t] \in Nat /\ used \in Nat /\ meta[t] < used
        BY <3>1 DEF TypeOK, PlaceInv, Busy, Creating, CreateSteps
      <3>3. ~(AlignUp(Need(meta[t])) <= declared) BY <2>1 DEF Recheck
      <3>4. MaxElements \in Nat /\ ElementSize \in Nat /\ ElementSize > 0 BY SlabAssumption
      <3>5. CASE MaxElements > meta[t]
        <4>1. meta[t] + 1 <= MaxElements BY <3>2, <3>4, <3>5
        <4>2. (meta[t] + 1) * ElementSize <= MaxElements * ElementSize
          BY <3>2, <3>4, <4>1, Monotone
        <4>3. Need(meta[t]) \in Nat /\ Need(meta[t]) > 0 BY <3>2, RangeFacts
        <4>4. MaxElements * ElementSize \in Nat BY <3>4, Monotone
        <4>5. MaxElements * ElementSize # 0 /\ Need(meta[t]) <= MaxElements * ElementSize
          BY <4>2, <4>3, <4>4 DEF Need
        <4>6. declared = AlignUp(MaxElements * ElementSize) BY <4>5 DEF declared, Declare
        <4>7. AlignUp(Need(meta[t])) <= AlignUp(MaxElements * ElementSize)
          BY <4>3, <4>4, <4>5, AlignUpMonotone
        <4>8. QED BY <3>3, <4>6, <4>7
      <3>6. CASE ~(MaxElements > meta[t])
        <4>1. used > MaxElements BY <3>2, <3>4, <3>6
        <4>2. QED BY <2>1, <4>1 DEF Recheck, Running
      <3>7. QED BY <3>5, <3>6
    <2>2. ASSUME NEW t \in Threads, Malloc(t) \/ Release(t) PROVE DieInv'
      <3>1. died = "no" BY <2>2
        DEF Malloc, Release, PopLoad, PopReadNext, PopCas, PopCasFail, FetchIncrementUsed,
            CheckTop, LockEnlargement, Recheck, MapMore, MapFails, SetTop, UnlockEnlargement,
            InitMeta, Free, PushLoad, PushCas, PushCasFail, Running
      <3>2. Recheck(t) \/ died' = died \/ died' = "mmap" BY <2>2
        DEF Malloc, Release, PopLoad, PopReadNext, PopCas, PopCasFail, FetchIncrementUsed,
            CheckTop, LockEnlargement, MapMore, MapFails, SetTop, UnlockEnlargement,
            InitMeta, Free, PushLoad, PushCas, PushCasFail
      <3>3. QED BY <2>1, <3>1, <3>2
    <2>3. CASE SlabInit \/ SlabDestroy BY <1>3, <2>3 DEF SlabInit, SlabDestroy, Running
    <2>4. CASE Exited \/ UNCHANGED vars BY <1>3, <2>4 DEF Exited, vars
    <2>5. QED BY <1>3, <2>2, <2>3, <2>4 DEF Next
  <1>4. Spec => []SlabInv BY <1>1, SlabInvariance
  <1>5. DieInv => DiesOnlyBeyondMax BY DEF DiesOnlyBeyondMax
  <1>6. QED BY <1>2, <1>3, <1>4, <1>5, PTL DEF Spec
=============================================================================
