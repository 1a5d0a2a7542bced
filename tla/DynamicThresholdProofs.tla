----------------------- MODULE DynamicThresholdProofs -----------------------
(***************************************************************************)
(* What holds of the dynamic threshold policy for any number of threads,   *)
(* tiers and calls and for any configuration the builder accepts: its      *)
(* types, that thresholds stay in their ranges, that a size between two    *)
(* ranges finds its tier, and that the tiers are compared as often as the  *)
(* configuration asks.                                                     *)
(*                                                                         *)
(* The first part is about the builder and the shape of the memory, the    *)
(* second about the steps of update_config and get_kind.                   *)
(***************************************************************************)
EXTENDS DynamicThreshold, NaturalsInduction, WellFoundedInduction, TLAPS

\* The types of the builder.
PCs == {"idle", "choose", "count", "countdown", "measure", "scale", "move", "store", "reset"}
Tier == [kind : Kinds, ratio : KindRatios]
Bounds == [min : Nat, val : Nat, max : Nat]
Builder == [cfg : Seq(Tier), thres : Seq(Bounds), check_cnt : Nat,
            trigger : Fraction, degree : Fraction]
BuilderOK == /\ builder \in Builder
             /\ Len(builder.thres) = IF Tiers = 0 THEN 0 ELSE Tiers - 1

\* The default configuration.
LEMMA Defaults == 
  /\ Frac(2, 100) \in Fraction /\ Frac(15, 100) \in Fraction /\ Frac(0, 1) \in Fraction
  /\ \A n \in Nat \ {0} : DefaultThreshold(n) \in Bounds
<1>1. Frac(2, 100) \in Fraction /\ Frac(15, 100) \in Fraction /\ Frac(0, 1) \in Fraction
  BY DEF Frac, Fraction
<1>2. ASSUME NEW n \in Nat \ {0} PROVE DefaultThreshold(n) \in Bounds
  <2> DEFINE h == STEP \div 2
  <2>1. h \in Nat /\ h > 0 /\ STEP \in Nat
    BY SizeAssumption
  <2> HIDE DEF h
  <2>2. h * (2 * n - 1) \in Nat /\ STEP * n \in Nat
    BY <2>1
  <2>3. h * (2 * n + 1) \in Nat /\ h * (2 * n + 1) > 0
    BY <2>1
  <2>4. h * (2 * n + 1) - 1 \in Nat
    BY <2>3
  <2> QED BY <2>2, <2>4 DEF DefaultThreshold, Bounds, h
<1> QED BY <1>1, <1>2

\* Each step of the builder keeps its types.
LEMMA BuilderStep == ASSUME BuilderOK, [Next]_vars PROVE BuilderOK'
<1>0. /\ builder.cfg \in Seq(Tier) /\ builder.thres \in Seq(Bounds)
      /\ Len(builder.cfg) \in Nat /\ Tiers = Len(builder.cfg)
  BY DEF BuilderOK, Builder, Tiers
<1>1. ASSUME NEW k \in Kinds, NEW r \in KindRatios, AddTier(k, r) PROVE BuilderOK'
  <2> DEFINE c == Append(builder.cfg, [kind |-> k, ratio |-> r])
             th == IF Tiers = 0 THEN builder.thres
                   ELSE Append(builder.thres, DefaultThreshold(Tiers))
  <2>1. builder' = [builder EXCEPT !.cfg = c, !.thres = th]
    BY <1>1 DEF AddTier, BuilderOK, Builder
  <2>2. c \in Seq(Tier) /\ Len(c) = Len(builder.cfg) + 1
    BY <1>0 DEF Tier
  <2>3. th \in Seq(Bounds) /\ Len(th) = Len(c) - 1
    <3>1. CASE Tiers = 0
      BY <1>0, <2>2, <3>1 DEF BuilderOK
    <3>2. CASE Tiers # 0
      <4>1. DefaultThreshold(Tiers) \in Bounds
        BY <1>0, <3>2, Defaults
      <4> QED BY <1>0, <2>2, <3>2, <4>1 DEF BuilderOK
    <3> QED BY <3>1, <3>2
  <2> HIDE DEF c, th
  <2>4. builder' \in Builder /\ builder'.cfg = c /\ builder'.thres = th
    BY <2>1, <2>2, <2>3 DEF BuilderOK, Builder
  <2> QED BY <1>0, <2>2, <2>3, <2>4 DEF BuilderOK, Tiers
<1>2. ASSUME NEW i \in 1..MaxTiers, NEW f \in {"min", "val", "max"}, NEW v \in Vals,
             CtlThreshold(i, f, v)
      PROVE  BuilderOK'
  <2>1. i < Tiers /\ builder' = [builder EXCEPT !.thres[i][f] = v] /\ v \in Nat
    BY <1>2, SizeAssumption DEF CtlThreshold
  <2>2. i \in 1..Len(builder.thres) /\ builder.thres[i] \in Bounds
    BY <1>0, <2>1, BoundAssumption DEF BuilderOK
  <2> DEFINE b == [builder.thres[i] EXCEPT ![f] = v]
             th == [builder.thres EXCEPT ![i] = b]
  <2>3. b \in Bounds
    BY <2>1, <2>2 DEF Bounds
  <2>4. builder' = [builder EXCEPT !.thres = th]
    BY <2>1 DEF BuilderOK, Builder
  <2> HIDE DEF b
  <2>5. th \in Seq(Bounds) /\ Len(th) = Len(builder.thres)
    BY <1>0, <2>2, <2>3
  <2> HIDE DEF th
  <2>6. builder' \in Builder /\ builder'.cfg = builder.cfg /\ builder'.thres = th
    BY <2>4, <2>5 DEF BuilderOK, Builder
  <2> QED BY <2>5, <2>6 DEF BuilderOK, Tiers
<1>3. ASSUME NEW c \in Counts, CtlCheckCnt(c) PROVE BuilderOK'
  BY <1>3, CountAssumption DEF CtlCheckCnt, BuilderOK, Builder, Tiers
<1>4. ASSUME NEW f \in Triggers, CtlTrigger(f) PROVE BuilderOK'
  BY <1>4, PolicyAssumption DEF CtlTrigger, BuilderOK, Builder, Tiers
<1>5. ASSUME NEW f \in Degrees, CtlDegree(f) PROVE BuilderOK'
  BY <1>5, PolicyAssumption DEF CtlDegree, BuilderOK, Builder, Tiers
<1>6. CASE UNCHANGED builder
  BY <1>6 DEF BuilderOK, Tiers
<1>7. ASSUME NEW t \in Threads, \/ \E s \in Sizes : Malloc(t, s)
                                \/ Realloc(t) \/ GetKind(t) \/ Update(t)
      PROVE  UNCHANGED builder
  BY <1>7 DEF Malloc, Realloc, GetKind, Update, LoadCount, StoreCount, Measure, Scale, Move,
              Store, Reset
<1>8. Construct => UNCHANGED builder
  BY DEF Construct
<1>9. (UNCHANGED vars) => UNCHANGED builder
  BY DEF vars
<1> QED BY <1>1, <1>2, <1>3, <1>4, <1>5, <1>6, <1>7, <1>8, <1>9 DEF Next, Build
-----------------------------------------------------------------------------
\* The memory, with what builder_dynamic_create_memory checked of it.
ThresholdRecord == [min : Nat, val : Nat, max : Nat, exp : Fraction, diff : Fraction]
Memory == [thres : Seq(ThresholdRecord), check_cnt : Nat, init_check_cnt : Nat,
           trigger : Fraction, degree : Fraction]
MemoryOK == /\ memory \in Memory /\ Len(memory.thres) >= 1 /\ memory.degree.n >= 0
            /\ Len(memory.thres) = Tiers - 1
            /\ \A i \in Thresholds : memory.thres[i].min =< memory.thres[i].max
            /\ \A i \in Thresholds : i > 1 => memory.thres[i - 1].max =< memory.thres[i].min

\* What no step of a memory changes.
SameMemory ==
  /\ memory' \in Memory /\ UNCHANGED <<memory.degree, memory.init_check_cnt, Thresholds>>
  /\ Len(memory'.thres) = Len(memory.thres)
  /\ \A i \in Thresholds : /\ memory'.thres[i].min = memory.thres[i].min
                           /\ memory'.thres[i].max = memory.thres[i].max

\* The types of the fields.
LEMMA MemoryTypes ==
  ASSUME MemoryOK
  PROVE  /\ Thresholds = 1..Len(memory.thres) /\ Len(memory.thres) \in Nat
         /\ \A i \in Thresholds : /\ memory.thres[i] \in ThresholdRecord
                                  /\ memory.thres[i].min \in Nat /\ memory.thres[i].max \in Nat
                                  /\ memory.thres[i].val \in Nat
         /\ memory.check_cnt \in Nat /\ memory.init_check_cnt \in Nat
         /\ memory.degree \in Fraction /\ memory.degree.n \in Nat /\ memory.degree.d \in Nat \ {0}
         /\ ~Building
<1>1. memory.thres \in Seq(ThresholdRecord) /\ Thresholds = 1..Len(memory.thres)
  BY DEF MemoryOK, Memory, Thresholds
<1>2. \A i \in Thresholds : memory.thres[i] \in ThresholdRecord
  BY <1>1
<1>3. ~Building
  <2>1. CASE memory = NoMemory
    <3>1. memory.thres = <<>>
      BY <2>1 DEF NoMemory
    <3> QED BY <3>1 DEF MemoryOK
  <2> QED BY <2>1 DEF Building
<1>4. \A i \in Thresholds : /\ memory.thres[i].min \in Nat /\ memory.thres[i].max \in Nat
                            /\ memory.thres[i].val \in Nat
  BY <1>2 DEF ThresholdRecord
<1>5. /\ memory.check_cnt \in Nat /\ memory.init_check_cnt \in Nat /\ memory.degree \in Fraction
  BY DEF MemoryOK, Memory
<1>6. memory.degree.n \in Nat /\ memory.degree.d \in Nat \ {0}
  BY <1>5 DEF Fraction, MemoryOK
<1> QED BY <1>1, <1>2, <1>3, <1>4, <1>5, <1>6

\* A step that changes check_cnt.
LEMMA CountMemory ==
  ASSUME MemoryOK, NEW c \in Nat, memory' = [memory EXCEPT !.check_cnt = c]
  PROVE  /\ SameMemory /\ memory'.thres = memory.thres /\ memory'.check_cnt = c
<1>1. memory' \in Memory /\ memory'.thres = memory.thres /\ memory'.check_cnt = c
      /\ memory'.degree = memory.degree /\ memory'.init_check_cnt = memory.init_check_cnt
  BY DEF MemoryOK, Memory
<1> QED BY <1>1 DEF SameMemory, Thresholds

\* A step that changes the value or the distance of a threshold.
LEMMA ThresholdMemory ==
  ASSUME MemoryOK, NEW i \in Thresholds, NEW r \in ThresholdRecord,
         r.min = memory.thres[i].min, r.max = memory.thres[i].max,
         memory' = [memory EXCEPT !.thres[i] = r]
  PROVE  /\ SameMemory /\ memory'.thres[i] = r /\ memory'.check_cnt = memory.check_cnt
         /\ \A j \in Thresholds : j # i => memory'.thres[j] = memory.thres[j]
<1>1. memory.thres \in Seq(ThresholdRecord) /\ i \in 1..Len(memory.thres)
  BY DEF MemoryOK, Memory, Thresholds
<1> DEFINE th == [memory.thres EXCEPT ![i] = r]
<1>2. /\ th \in Seq(ThresholdRecord) /\ Len(th) = Len(memory.thres) /\ th[i] = r
      /\ \A j \in Thresholds : j # i => th[j] = memory.thres[j]
  BY <1>1 DEF Thresholds
<1>3. memory' = [memory EXCEPT !.thres = th]
  BY DEF MemoryOK, Memory
<1> HIDE DEF th
<1>4. memory' \in Memory /\ memory'.thres = th /\ memory'.check_cnt = memory.check_cnt
      /\ memory'.degree = memory.degree /\ memory'.init_check_cnt = memory.init_check_cnt
  BY <1>2, <1>3 DEF MemoryOK, Memory
<1>5. \A j \in Thresholds : th[j].min = memory.thres[j].min /\ th[j].max = memory.thres[j].max
  BY <1>2
<1> QED BY <1>2, <1>4, <1>5 DEF SameMemory, Thresholds

\* Store and Measure in that form.
LEMMA SetVal ==
  ASSUME MemoryOK, NEW i \in Thresholds, NEW v \in Nat,
         memory' = [memory EXCEPT !.thres[i].val = v]
  PROVE  /\ SameMemory /\ memory'.thres[i].val = v /\ memory'.check_cnt = memory.check_cnt
         /\ \A j \in Thresholds : j # i => memory'.thres[j] = memory.thres[j]
<1> DEFINE r == [memory.thres[i] EXCEPT !.val = v]
<1>1. memory.thres[i] \in ThresholdRecord
  BY MemoryTypes
<1>2. /\ r \in ThresholdRecord /\ r.min = memory.thres[i].min /\ r.max = memory.thres[i].max
      /\ r.val = v
  BY <1>1 DEF ThresholdRecord
<1>3. memory' = [memory EXCEPT !.thres[i] = r]
  OBVIOUS
<1> HIDE DEF r
<1>4. /\ SameMemory /\ memory'.thres[i] = r /\ memory'.check_cnt = memory.check_cnt
      /\ \A j \in Thresholds : j # i => memory'.thres[j] = memory.thres[j]
  BY <1>2, <1>3, ThresholdMemory
<1> QED BY <1>2, <1>4

LEMMA SetDiff ==
  ASSUME MemoryOK, NEW i \in Thresholds, NEW v \in Fraction,
         memory' = [memory EXCEPT !.thres[i].diff = v]
  PROVE  /\ SameMemory /\ memory'.check_cnt = memory.check_cnt
         /\ \A j \in Thresholds : memory'.thres[j].val = memory.thres[j].val
<1> DEFINE r == [memory.thres[i] EXCEPT !.diff = v]
<1>1. memory.thres[i] \in ThresholdRecord
  BY MemoryTypes
<1>2. /\ r \in ThresholdRecord /\ r.min = memory.thres[i].min /\ r.max = memory.thres[i].max
      /\ r.val = memory.thres[i].val
  BY <1>1 DEF ThresholdRecord
<1>3. memory' = [memory EXCEPT !.thres[i] = r]
  OBVIOUS
<1> HIDE DEF r
<1>4. /\ SameMemory /\ memory'.thres[i] = r /\ memory'.check_cnt = memory.check_cnt
      /\ \A j \in Thresholds : j # i => memory'.thres[j] = memory.thres[j]
  BY <1>2, <1>3, ThresholdMemory
<1> QED BY <1>2, <1>4

\* A memory that only changes that way stays one.
LEMMA MemoryKept == ASSUME MemoryOK, SameMemory, UNCHANGED builder PROVE MemoryOK'
<1>1. Thresholds' = Thresholds /\ Tiers' = Tiers
  BY DEF SameMemory, Tiers
<1>2. \A i \in Thresholds : i > 1 => i - 1 \in Thresholds
  BY MemoryTypes
<1>3. ASSUME NEW i \in Thresholds
      PROVE  /\ memory'.thres[i].min =< memory'.thres[i].max
             /\ i > 1 => memory'.thres[i - 1].max =< memory'.thres[i].min
  BY <1>2 DEF MemoryOK, SameMemory
<1> QED BY <1>1, <1>3 DEF MemoryOK, SameMemory

\* The distance of two ratios is one.
LEMMA Distances ==
  ASSUME NEW a \in Nat, NEW b \in Nat \ {0}, NEW f \in Fraction
  PROVE  Distance(Frac(a, b), f) \in Fraction
<1>1. f.n \in Int /\ f.d \in Nat \ {0}
  BY DEF Fraction
<1>2. b * f.d \in Nat \ {0} /\ a * f.d - f.n * b \in Int
  BY <1>1
<1>3. Abs(a * f.d - f.n * b) \in Int
  BY <1>2 DEF Abs
<1> QED BY <1>2, <1>3 DEF Distance, Frac, Fraction

\* The memory that is constructed.
LEMMA Constructed == ASSUME BuilderOK, Construct PROVE MemoryOK'
<1> DEFINE n == Tiers - 1
           th == [i \in 1..n |-> Threshold(builder, i)]
<1>1. /\ Tiers >= 2 /\ Tiers \in Nat /\ builder.thres \in Seq(Bounds) /\ builder.cfg \in Seq(Tier)
      /\ Len(builder.thres) = n /\ n \in Nat /\ n >= 1 /\ Len(builder.cfg) = Tiers
  BY DEF BuilderOK, Builder, Construct, ValidConfig, Tiers
<1>2. \A i \in 1..n : builder.thres[i] \in Bounds
  BY <1>1
<1>3. ASSUME NEW i \in 1..n PROVE Threshold(builder, i) \in ThresholdRecord
  <2>1. builder.cfg[i] \in Tier /\ builder.cfg[i + 1] \in Tier
    BY <1>1
  <2>2. builder.cfg[i].ratio \in Nat \ {0} /\ builder.cfg[i + 1].ratio \in Nat \ {0}
    BY <2>1, SizeAssumption DEF Tier
  <2>3. Frac(builder.cfg[i + 1].ratio, builder.cfg[i].ratio) \in Fraction
    BY <2>2 DEF Frac, Fraction
  <2>4. builder.thres[i].min \in Nat /\ builder.thres[i].val \in Nat /\ builder.thres[i].max \in Nat
    BY <1>2 DEF Bounds
  <2> QED BY <2>3, <2>4, Defaults DEF Threshold, ThresholdRecord
<1>4. th \in Seq(ThresholdRecord) /\ Len(th) = n /\ DOMAIN th = 1..n
  BY <1>1, <1>3
<1>5. \A i \in 1..n : th[i].min = builder.thres[i].min /\ th[i].max = builder.thres[i].max
  BY DEF Threshold
<1>6. memory' = [thres |-> th, check_cnt |-> builder.check_cnt,
                 init_check_cnt |-> builder.check_cnt,
                 trigger |-> builder.trigger, degree |-> builder.degree]
      /\ builder' = builder
  BY DEF Construct
<1>7. /\ builder.degree.n >= 0
      /\ \A i \in 1..n : builder.thres[i].min =< builder.thres[i].max
      /\ \A i \in 1..n : i > 1 => builder.thres[i - 1].max =< builder.thres[i].min
  <2>1. ValidConfig(builder)
    BY DEF Construct
  <2>2. \A i \in 1..n : builder.thres[i].min =< builder.thres[i].max
    <3> SUFFICES ASSUME NEW i \in 1..n PROVE builder.thres[i].min =< builder.thres[i].max
      OBVIOUS
    <3>1. builder.thres[i].min \in Nat /\ builder.thres[i].val \in Nat /\ builder.thres[i].max \in Nat
      BY <1>2 DEF Bounds
    <3>2. builder.thres[i].min =< builder.thres[i].val /\ builder.thres[i].val =< builder.thres[i].max
      BY <2>1 DEF ValidConfig
    <3> QED BY <3>1, <3>2
  <2>3. ASSUME NEW i \in 1..n, i > 1 PROVE builder.thres[i - 1].max =< builder.thres[i].min
    <3>1. i \in 2..Tiers - 1
      BY <1>1, <2>3
    <3> QED BY <2>1, <3>1 DEF ValidConfig
  <2> QED BY <2>1, <2>2, <2>3 DEF ValidConfig
<1> HIDE DEF th
<1>8. memory' \in Memory /\ memory'.thres = th /\ memory'.degree = builder.degree
  BY <1>4, <1>6 DEF Memory, BuilderOK, Builder
<1>9. Thresholds' = 1..n /\ Tiers' = Tiers
  BY <1>4, <1>6, <1>8 DEF Thresholds, Tiers
<1>10. \A i \in 1..n : i > 1 => i - 1 \in 1..n
  BY <1>1
<1>11. \A i \in 1..n : i > 1 => th[i - 1].max =< th[i].min
  BY <1>5, <1>7, <1>10
<1> QED BY <1>1, <1>4, <1>5, <1>7, <1>8, <1>9, <1>11 DEF MemoryOK
-----------------------------------------------------------------------------
\* The calls: their types, and that one under way has a memory and works on
\* one of its thresholds.
Locals == [size : Nat, i : Nat, cnt : Nat, prev : Fraction, up : BOOLEAN,
           forced : BOOLEAN, threshold : Nat, new : Nat]
AtThreshold == {"measure", "scale", "move", "store"}
ThreadOK(t) == /\ pc[t] # "idle" => ~Building
               /\ pc[t] \in AtThreshold => loc[t].i \in Thresholds
               /\ loc[t].new < Word
ThreadsOK == /\ pc \in [Threads -> PCs] /\ loc \in [Threads -> Locals]
             /\ \A t \in Threads : ThreadOK(t)
Typed == BuilderOK /\ (Building \/ MemoryOK) /\ ThreadsOK

LEMMA FreshLocals == NoLocals \in Locals /\ NoLocals.new = 0 /\ 0 < Word
BY Defaults, CountAssumption DEF NoLocals, Locals

\* Division rounds monotonically.
LEMMA DivBelow ==
  ASSUME NEW x \in Int, NEW d \in Nat \ {0}, NEW w \in Int, x < (w + 1) * d
  PROVE  x \div d =< w
<1> DEFINE q == x \div d
           r == x % d
<1>1. x = d * q + r /\ q \in Int /\ r \in 0..d - 1
  OBVIOUS
<1> HIDE DEF q, r
<1>2. CASE q >= w + 1
  <2>1. d * q >= d * (w + 1)
    BY <1>1, <1>2
  <2> QED BY <1>1, <2>1
<1>3. CASE q < w + 1
  BY <1>1, <1>3 DEF q
<1> QED BY <1>1, <1>2, <1>3

\* A step of a threshold: a natural number, no larger for a smaller value, and
\* with a degree of at most 100% no larger than the value.
LEMMA ScaledTypes ==
  ASSUME NEW v \in Nat, NEW f, f.n \in Nat, f.d \in Nat \ {0}
  PROVE  Scaled(v, f) \in Nat
<1>1. v * f.n \in Nat
  OBVIOUS
<1> DEFINE x == v * f.n + f.d - 1
<1>2. x \in Nat
  BY <1>1
<1> HIDE DEF x
<1>3. x \div f.d \in Nat
  BY <1>2
<1> QED BY <1>3 DEF Scaled, x

LEMMA ScaledMonotone ==
  ASSUME NEW v \in Nat, NEW w \in Nat, v =< w, NEW f, f.n \in Nat, f.d \in Nat \ {0}
  PROVE  Scaled(v, f) =< Scaled(w, f)
<1> DEFINE n == f.n
           d == f.d
           x == v * n + d - 1
           y == w * n + d - 1
           q == y \div d
           r == y % d
<1>0. n \in Nat /\ d \in Nat \ {0} /\ Scaled(v, f) = x \div d /\ Scaled(w, f) = q
  BY DEF Scaled
<1> HIDE DEF n, d
<1>1. v * n \in Nat /\ w * n \in Nat /\ v * n =< w * n
  BY <1>0
<1>2. x \in Int /\ y \in Int /\ x =< y
  BY <1>0, <1>1
<1> HIDE DEF x, y
<1>3. y = d * q + r /\ q \in Int /\ r \in 0..d - 1
  BY <1>0, <1>2
<1> HIDE DEF q, r
<1>4. x < (q + 1) * d
  BY <1>0, <1>2, <1>3
<1>5. x \div d =< q
  BY <1>0, <1>2, <1>3, <1>4, DivBelow
<1> QED BY <1>0, <1>5

LEMMA ScaledSmall ==
  ASSUME NEW v \in Nat, NEW f, f.n \in Nat, f.d \in Nat \ {0}, f.n =< f.d
  PROVE  Scaled(v, f) =< v
<1> DEFINE n == f.n
           d == f.d
           x == v * n + d - 1
<1>0. n \in Nat /\ d \in Nat \ {0} /\ n =< d /\ Scaled(v, f) = x \div d
  BY DEF Scaled
<1> HIDE DEF n, d
<1>1. v * n \in Nat /\ v * n =< v * d /\ v * d \in Nat
  BY <1>0
<1>2. x \in Int /\ x < (v + 1) * d
  <2>1. (v + 1) * d = v * d + d
    BY <1>0
  <2> QED BY <1>0, <1>1, <2>1
<1> HIDE DEF x
<1>3. x \div d =< v
  <2>1. v \in Int
    OBVIOUS
  <2> QED BY <1>0, <1>2, <2>1, DivBelow
<1> QED BY <1>0, <1>3

\* A thread moves while the memory keeps its thresholds.
LEMMA MoveThread ==
  ASSUME ThreadsOK, NEW t \in Threads, NEW p \in PCs, NEW l \in Locals, Goto(t, p, l),
         ~Building', Thresholds' = Thresholds, l.new < Word,
         p \in AtThreshold => l.i \in Thresholds
  PROVE  ThreadsOK'
<1>1. pc' \in [Threads -> PCs] /\ loc' \in [Threads -> Locals]
  BY DEF ThreadsOK, Goto
<1>2. ASSUME NEW u \in Threads PROVE ThreadOK(u)'
  <2>1. CASE u = t
    <3>1. pc'[u] = p /\ loc'[u] = l
      BY <2>1 DEF ThreadsOK, Goto
    <3> QED BY <3>1 DEF ThreadOK
  <2>2. CASE u # t
    <3>1. pc'[u] = pc[u] /\ loc'[u] = loc[u] /\ ThreadOK(u)
      BY <2>2 DEF ThreadsOK, Goto
    <3> QED BY <3>1 DEF ThreadOK
  <2> QED BY <2>1, <2>2
<1> QED BY <1>1, <1>2 DEF ThreadsOK

\* The end of an iteration of the loop over the thresholds.
LEMMA NextThresholdMoves ==
  ASSUME ThreadsOK, MemoryOK, NEW t \in Threads, pc[t] \in AtThreshold, NextThreshold(t)
  PROVE  \E p \in {"measure", "reset"}, l \in Locals :
            /\ Goto(t, p, l) /\ l.new < Word /\ (p \in AtThreshold => l.i \in Thresholds)
<1>1. CASE loc[t].i + 1 \in Thresholds
  <2> DEFINE l == [NoLocals EXCEPT !.i = loc[t].i + 1]
  <2>1. loc[t].i + 1 \in Nat
    BY <1>1, MemoryTypes
  <2>2. l \in Locals /\ l.new < Word /\ l.i = loc[t].i + 1
    BY <2>1, FreshLocals DEF Locals
  <2>3. Goto(t, "measure", l)
    BY <1>1 DEF NextThreshold
  <2> HIDE DEF l
  <2> QED BY <1>1, <2>2, <2>3
<1>2. CASE loc[t].i + 1 \notin Thresholds
  <2>1. Goto(t, "reset", NoLocals) /\ "reset" \notin AtThreshold
    BY <1>2 DEF NextThreshold, AtThreshold
  <2> QED BY <2>1, FreshLocals
<1> QED BY <1>1, <1>2

\* A thread that is in a call has a memory.
LEMMA HasMemory == ASSUME Typed, NEW t \in Threads, pc[t] # "idle" PROVE MemoryOK
BY DEF Typed, ThreadsOK, ThreadOK

\* What each step of a call does to the memory, and where the thread goes.
LEMMA CallStep ==
  ASSUME Typed, NEW t \in Threads,
         (\E s \in Sizes : Malloc(t, s)) \/ Realloc(t) \/ GetKind(t) \/ Update(t)
  PROVE  MemoryOK /\ SameMemory /\ UNCHANGED builder /\ ThreadsOK'
<1>0. ThreadsOK /\ loc[t] \in Locals /\ ThreadOK(t) /\ pc[t] \in PCs
  BY DEF Typed, ThreadsOK
<1>1. MemoryOK
  BY HasMemory DEF Typed, Malloc, Realloc, GetKind, Update, Begin, LoadCount, StoreCount, Measure,
     Scale, Move, Store, Reset
<1>2. UNCHANGED builder
  BY DEF Malloc, Realloc, GetKind, Update, LoadCount, StoreCount, Measure, Scale, Move,
         Store, Reset
<1>3. UNCHANGED memory => SameMemory
  BY <1>1 DEF SameMemory, MemoryOK, Thresholds
<1> DEFINE Going == \E p \in PCs, l \in Locals :
                       /\ Goto(t, p, l) /\ l.new < Word /\ (p \in AtThreshold => l.i \in Thresholds)
<1>4. SameMemory /\ Going => ThreadsOK'
  <2> SUFFICES ASSUME SameMemory, NEW p \in PCs, NEW l \in Locals,
                      Goto(t, p, l), l.new < Word, p \in AtThreshold => l.i \in Thresholds
               PROVE  ThreadsOK'
    OBVIOUS
  <2>1. ~Building'
    <3>1. MemoryOK'
      BY <1>1, <1>2, MemoryKept
    <3>2. Len(memory'.thres) >= 1
      BY <3>1 DEF MemoryOK
    <3>3. CASE memory' = NoMemory
      <4>1. memory'.thres = <<>>
        BY <3>3 DEF NoMemory
      <4> QED BY <3>2, <4>1
    <3> QED BY <3>3 DEF Building
  <2>2. Thresholds' = Thresholds
    BY DEF SameMemory
  <2> QED BY <1>0, <2>1, <2>2, MoveThread
<1>5. ASSUME NEW s \in Sizes, Malloc(t, s) PROVE SameMemory /\ Going
  <2> DEFINE l == [NoLocals EXCEPT !.size = s, !.i = 1]
  <2>1. l \in Locals /\ l.new < Word
    BY FreshLocals, SizeAssumption DEF Locals
  <2>2. Goto(t, "choose", l) /\ UNCHANGED memory
    BY <1>5 DEF Malloc
  <2>3. "choose" \in PCs /\ "choose" \notin AtThreshold
    BY DEF PCs, AtThreshold
  <2> HIDE DEF l
  <2> QED BY <1>3, <2>1, <2>2, <2>3
<1>6. CASE Realloc(t)
  <2>1. Goto(t, "count", NoLocals) /\ UNCHANGED memory
    BY <1>6 DEF Realloc
  <2>2. "count" \in PCs /\ "count" \notin AtThreshold
    BY DEF PCs, AtThreshold
  <2> QED BY <1>3, <1>4, <1>1, <1>2, <2>1, <2>2, FreshLocals
<1>7. CASE GetKind(t)
  <2> DEFINE l == [loc[t] EXCEPT !.i = @ + 1]
  <2>1. l \in Locals /\ l.new = loc[t].new
    BY <1>0 DEF Locals
  <2>2. (Goto(t, "choose", l) \/ Goto(t, "count", loc[t])) /\ UNCHANGED memory
    BY <1>7 DEF GetKind
  <2>3. {"choose", "count"} \subseteq PCs /\ "choose" \notin AtThreshold /\ "count" \notin AtThreshold
    BY DEF PCs, AtThreshold
  <2> HIDE DEF l
  <2>4. Going
    BY <1>0, <2>1, <2>2, <2>3 DEF ThreadOK
  <2> QED BY <1>1, <1>2, <1>3, <1>4, <2>2, <2>4
<1>8. CASE LoadCount(t)
  <2> DEFINE c == (memory.check_cnt - 1) % UintMod
             l == [NoLocals EXCEPT !.cnt = c]
  <2>1. c \in Nat
    BY <1>1, MemoryTypes, CountAssumption
  <2>2. Goto(t, "countdown", l) /\ UNCHANGED memory
    BY <1>8 DEF LoadCount
  <2> HIDE DEF c
  <2>3. l \in Locals /\ l.new < Word
    BY <2>1, FreshLocals DEF Locals
  <2>4. "countdown" \in PCs /\ "countdown" \notin AtThreshold
    BY DEF PCs, AtThreshold
  <2> HIDE DEF l
  <2>5. Going
    BY <2>2, <2>3, <2>4
  <2> QED BY <1>1, <1>2, <1>3, <1>4, <2>2, <2>5
<1>9. CASE StoreCount(t)
  <2> DEFINE l == [NoLocals EXCEPT !.i = 1]
  <2>1. (Goto(t, "idle", NoLocals) \/ Goto(t, "measure", l))
        /\ memory' = [memory EXCEPT !.check_cnt = loc[t].cnt]
    BY <1>9 DEF StoreCount
  <2>2. loc[t].cnt \in Nat
    BY <1>0 DEF Locals
  <2>3. SameMemory
    BY <1>1, <2>1, <2>2, CountMemory
  <2>4. l \in Locals /\ l.new < Word /\ l.i = 1
    BY FreshLocals DEF Locals
  <2>5. 1 \in Thresholds
    BY <1>1, MemoryTypes DEF MemoryOK
  <2>6. {"idle", "measure"} \subseteq PCs /\ "idle" \notin AtThreshold
    BY DEF PCs, AtThreshold
  <2> HIDE DEF l
  <2>7. Going
    BY <2>1, <2>4, <2>5, <2>6, FreshLocals
  <2> QED BY <1>1, <1>2, <1>4, <2>3, <2>7
<1>10. ASSUME NEW prev \in AllocSizes, NEW next \in AllocSizes, Measure(t, prev, next)
       PROVE  SameMemory /\ Going
  <2> DEFINE i == loc[t].i
             th == memory.thres[i]
             ratio == Frac(next, prev)
             l1 == [NoLocals EXCEPT !.i = i, !.up = TRUE, !.forced = TRUE]
             b == Less(th.exp, ratio)
             l2 == [NoLocals EXCEPT !.i = i, !.prev = th.diff, !.up = b]
  <2>1. /\ pc[t] = "measure"
        /\ IF prev = 0 THEN Goto(t, "scale", l1) /\ UNCHANGED memory
           ELSE Goto(t, "scale", l2) /\ memory' = [memory EXCEPT !.thres[i].diff = Distance(ratio, th.exp)]
    BY <1>10 DEF Measure
  <2>2. i \in Thresholds /\ i \in Nat
    BY <1>0, <2>1 DEF ThreadOK, AtThreshold, Locals
  <2>3. th \in ThresholdRecord
    BY <1>1, <2>2, MemoryTypes
  <2>4. th.diff \in Fraction /\ th.exp \in Fraction
    BY <2>3 DEF ThresholdRecord
  <2>5. /\ l1 \in Locals /\ l1.new < Word /\ l1.i = i
        /\ l2 \in Locals /\ l2.new < Word /\ l2.i = i
    <3>1. b \in BOOLEAN
      BY DEF Less
    <3> HIDE DEF b
    <3>2. l1 \in Locals /\ l1.new < Word /\ l1.i = i
      BY <2>2, FreshLocals DEF Locals
    <3>3. l2 \in Locals /\ l2.new < Word /\ l2.i = i
      BY <2>2, <2>4, <3>1, FreshLocals DEF Locals
    <3> QED BY <3>2, <3>3
  <2>6. "scale" \in PCs
    BY DEF PCs
  <2> HIDE DEF l1, l2
  <2>7. Going
    BY <2>1, <2>2, <2>5, <2>6
  <2>8. SameMemory
    <3>1. CASE prev = 0
      BY <1>3, <2>1, <3>1
    <3>2. CASE prev # 0
      <4>1. Distance(ratio, th.exp) \in Fraction
        BY <2>4, <3>2, SizeAssumption, Distances
      <4> DEFINE v == Distance(ratio, th.exp)
      <4>2. v \in Fraction /\ memory' = [memory EXCEPT !.thres[i].diff = v]
        BY <2>1, <3>2, <4>1
      <4> HIDE DEF v, i
      <4> QED BY <1>1, <2>2, <4>2, SetDiff
    <3> QED BY <3>1, <3>2
  <2> QED BY <2>7, <2>8
<1>11. CASE Scale(t)
  <2> DEFINE i == loc[t].i
             s == Scaled(memory.thres[i].val, memory.degree)
             l == [NoLocals EXCEPT !.i = i, !.up = loc[t].up, !.threshold = s]
  <2>1. pc[t] = "scale" /\ (NextThreshold(t) \/ Goto(t, "move", l)) /\ UNCHANGED memory
    BY <1>11 DEF Scale
  <2>2. i \in Thresholds /\ i \in Nat /\ loc[t].up \in BOOLEAN
    BY <1>0, <2>1 DEF ThreadOK, AtThreshold, Locals
  <2>3. s \in Nat
    BY <1>1, <2>2, MemoryTypes, ScaledTypes
  <2> HIDE DEF s
  <2>4. l \in Locals /\ l.new < Word /\ l.i = i
    BY <2>2, <2>3, FreshLocals DEF Locals
  <2>5. "scale" \in AtThreshold /\ {"move", "measure", "reset"} \subseteq PCs
    BY DEF AtThreshold, PCs
  <2> HIDE DEF l
  <2>6. Going
    BY <1>0, <1>1, <2>1, <2>2, <2>4, <2>5, NextThresholdMoves
  <2> QED BY <1>1, <1>2, <1>3, <1>4, <2>1, <2>6
<1>12. CASE Move(t)
  <2> DEFINE i == loc[t].i
             val == memory.thres[i].val
             new == IF loc[t].up THEN val + loc[t].threshold ELSE val - loc[t].threshold
             m == new % Word
             l == [NoLocals EXCEPT !.i = i, !.up = loc[t].up, !.new = m]
  <2>1. pc[t] = "move" /\ Goto(t, "store", l) /\ UNCHANGED memory
    BY <1>12 DEF Move
  <2>2. i \in Thresholds /\ i \in Nat /\ loc[t].up \in BOOLEAN /\ loc[t].threshold \in Nat
    BY <1>0, <2>1 DEF ThreadOK, AtThreshold, Locals
  <2>3. val \in Nat
    BY <1>1, <2>2, MemoryTypes
  <2> HIDE DEF val
  <2>4. m \in Nat /\ m < Word
    BY <2>2, <2>3, CountAssumption
  <2> HIDE DEF m
  <2>5. l \in Locals /\ l.new < Word /\ l.i = i
    BY <2>2, <2>4, FreshLocals DEF Locals
  <2>6. "store" \in PCs
    BY DEF PCs
  <2> HIDE DEF l
  <2>7. Going
    BY <2>1, <2>2, <2>5, <2>6
  <2> QED BY <1>1, <1>2, <1>3, <1>4, <2>1, <2>7
<1>13. CASE Store(t)
  <2> DEFINE i == loc[t].i
             v == loc[t].new
  <2>1. /\ pc[t] = "store" /\ NextThreshold(t)
        /\ memory' = [memory EXCEPT !.thres[i].val = v] \/ UNCHANGED memory
    BY <1>13 DEF Store
  <2>2. i \in Thresholds /\ v \in Nat
    BY <1>0, <2>1 DEF ThreadOK, AtThreshold, Locals
  <2> HIDE DEF i, v
  <2>3. SameMemory
    BY <1>1, <1>3, <2>1, <2>2, SetVal
  <2>4. "store" \in AtThreshold /\ {"measure", "reset"} \subseteq PCs
    BY DEF AtThreshold, PCs
  <2>5. Going
    BY <1>0, <1>1, <2>1, <2>4, NextThresholdMoves
  <2> QED BY <1>1, <1>2, <1>4, <2>3, <2>5
<1>14. CASE Reset(t)
  <2>1. Goto(t, "idle", NoLocals) /\ memory' = [memory EXCEPT !.check_cnt = memory.init_check_cnt]
    BY <1>14 DEF Reset
  <2>2. memory.init_check_cnt \in Nat
    BY <1>1, MemoryTypes
  <2>3. SameMemory
    BY <1>1, <2>1, <2>2, CountMemory
  <2>4. "idle" \in PCs /\ "idle" \notin AtThreshold
    BY DEF PCs, AtThreshold
  <2>5. Going
    BY <2>1, <2>4, FreshLocals
  <2> QED BY <1>1, <1>2, <1>4, <2>3, <2>5
<1> HIDE DEF Going
<1> QED BY <1>1, <1>2, <1>4, <1>5, <1>6, <1>7, <1>8, <1>9, <1>10, <1>11, <1>12, <1>13, <1>14
        DEF Update

\* The steps of the builder leave everything else alone; a memory is made of
\* a valid configuration before the first call.
LEMMA BuildStep ==
  ASSUME Typed, Build
  PROVE  /\ Building /\ UNCHANGED <<pc, loc, ops, since, raced>>
         /\ \A t \in Threads : pc[t] = "idle"
         /\ UNCHANGED memory \/ (Construct /\ MemoryOK')
<1>1. Building /\ UNCHANGED <<pc, loc, ops, since, raced>>
  BY DEF Build, AddTier, CtlThreshold, CtlCheckCnt, CtlTrigger, CtlDegree, Construct, Ctl
<1>2. UNCHANGED memory \/ Construct
  BY DEF Build, AddTier, CtlThreshold, CtlCheckCnt, CtlTrigger, CtlDegree
<1>3. \A t \in Threads : pc[t] = "idle"
  BY <1>1 DEF Typed, ThreadsOK, ThreadOK
<1>4. Construct => MemoryOK'
  BY Constructed DEF Typed
<1> QED BY <1>1, <1>2, <1>3, <1>4

LEMMA TypedStep == Typed /\ [Next]_vars => Typed'
<1> SUFFICES ASSUME Typed, [Next]_vars PROVE Typed'
  OBVIOUS
<1>1. BuilderOK'
  BY BuilderStep DEF Typed
<1>2. CASE Build
  <2>1. \A t \in Threads : ThreadOK(t)'
    <3> SUFFICES ASSUME NEW t \in Threads PROVE ThreadOK(t)'
      OBVIOUS
    <3>1. pc'[t] = "idle" /\ loc'[t].new < Word
      BY <1>2, BuildStep DEF Typed, ThreadsOK, ThreadOK
    <3> QED BY <3>1 DEF ThreadOK, AtThreshold
  <2>2. ThreadsOK'
    BY <1>2, <2>1, BuildStep DEF Typed, ThreadsOK
  <2>3. Building' \/ MemoryOK'
    BY <1>2, BuildStep DEF Building
  <2> QED BY <1>1, <2>2, <2>3 DEF Typed
<1>3. ASSUME NEW t \in Threads,
             (\E s \in Sizes : Malloc(t, s)) \/ Realloc(t) \/ GetKind(t) \/ Update(t)
      PROVE  Typed'
  <2>1. MemoryOK /\ SameMemory /\ UNCHANGED builder /\ ThreadsOK'
    BY <1>3, CallStep
  <2>2. MemoryOK'
    BY <2>1, MemoryKept
  <2> QED BY <1>1, <2>1, <2>2 DEF Typed
<1>4. CASE UNCHANGED vars
  <2>1. UNCHANGED <<builder, memory, pc, loc>>
    BY <1>4 DEF vars
  <2>2. MemoryOK => MemoryOK'
    BY <2>1 DEF MemoryOK, Thresholds, Tiers
  <2>3. ThreadsOK'
    BY <2>1 DEF Typed, ThreadsOK, ThreadOK, Thresholds, Building
  <2> QED BY <1>1, <2>1, <2>2, <2>3 DEF Typed, Building
<1> QED BY <1>2, <1>3, <1>4 DEF Next

LEMMA TypedInit == Init => Typed
<1> SUFFICES ASSUME Init PROVE Typed
  OBVIOUS
<1>1. BuilderOK
  <2>1. builder.cfg = <<>> /\ builder.thres = <<>> /\ builder \in Builder
    BY Defaults, CountAssumption DEF Init, Builder
  <2> QED BY <2>1 DEF BuilderOK, Tiers
<1>2. ThreadsOK
  <2>1. pc \in [Threads -> PCs] /\ loc \in [Threads -> Locals]
    BY FreshLocals DEF Init, PCs
  <2>2. ASSUME NEW t \in Threads PROVE ThreadOK(t)
    <3>1. pc[t] = "idle" /\ loc[t] = NoLocals
      BY DEF Init
    <3> QED BY <3>1, FreshLocals DEF ThreadOK, AtThreshold
  <2> QED BY <2>1, <2>2 DEF ThreadsOK
<1> QED BY <1>1, <1>2 DEF Init, Typed, Building

\* The types of the builder, the memory and the calls: a call only reads and
\* moves thresholds that the memory has, and what it stores is a size_t.
THEOREM TypeCorrect == Spec => []TypeOK
<1>1. Typed => TypeOK
  <2> SUFFICES ASSUME Typed PROVE TypeOK
    OBVIOUS
  <2>1. /\ builder.check_cnt \in Nat /\ builder.thres \in Seq([min : Nat, val : Nat, max : Nat])
        /\ Len(builder.thres) = IF Tiers = 0 THEN 0 ELSE Tiers - 1
    BY DEF Typed, BuilderOK, Builder, Bounds
  <2>2. MemoryOK => /\ Len(memory.thres) = Tiers - 1
                    /\ \A i \in Thresholds : memory.thres[i].val \in Nat
                    /\ memory.check_cnt \in Nat
    BY MemoryTypes DEF MemoryOK
  <2>3. ASSUME NEW t \in Threads, pc[t] \in {"measure", "scale", "move", "store"}
        PROVE  loc[t].i \in Thresholds /\ loc[t].new \in 0..Word - 1
    BY <2>3, CountAssumption DEF Typed, ThreadsOK, ThreadOK, AtThreshold, Locals
  <2> QED BY <2>1, <2>2, <2>3 DEF TypeOK, Typed
<1> QED BY <1>1, TypedInit, TypedStep, PTL DEF Spec
-----------------------------------------------------------------------------
\* Until two calls meet in update_config there is one at most.
Single == ~raced => \A t, u \in Threads : Updating(t) /\ Updating(u) => t = u

\* Only the thread that steps enters or leaves update_config.
LEMMA OthersUpdating ==
  ASSUME ThreadsOK, NEW t \in Threads, NEW p, NEW l, Goto(t, p, l)
  PROVE  /\ pc'[t] = p /\ loc'[t] = l
         /\ \A u \in Threads \ {t} : /\ pc'[u] = pc[u] /\ loc'[u] = loc[u]
                                     /\ Updating(u)' = Updating(u)
BY DEF ThreadsOK, Goto, Updating

LEMMA SingleStep ==
  ASSUME Typed, Single, [Next]_vars
  PROVE  Single' /\ (raced => raced')
<1>0. ThreadsOK
  BY DEF Typed
<1>1. CASE Build
  BY <1>1, BuildStep DEF Single, Updating
<1>2. CASE UNCHANGED vars
  BY <1>2 DEF vars, Single, Updating
<1>3. ASSUME NEW t \in Threads, LoadCount(t) PROVE Single' /\ (raced => raced')
  <2>1. /\ \E p, l : Goto(t, p, l)
        /\ raced' = (raced \/ \E u \in Threads \ {t} : Updating(u))
    BY <1>3 DEF LoadCount
  <2>2. \A u \in Threads \ {t} : Updating(u)' = Updating(u)
    BY <1>0, <2>1, OthersUpdating
  <2> QED BY <2>1, <2>2 DEF Single
<1>4. ASSUME NEW t \in Threads,
             \/ \E s \in Sizes : Malloc(t, s)
             \/ Realloc(t) \/ GetKind(t) \/ StoreCount(t)
             \/ \E prev, next \in AllocSizes : Measure(t, prev, next)
             \/ Scale(t) \/ Move(t) \/ Store(t) \/ Reset(t)
      PROVE  Single' /\ (raced => raced')
  <2>1. raced' = raced
    BY <1>4 DEF Malloc, Realloc, GetKind, StoreCount, Measure, Scale, Move, Store, Reset
  <2>4. \E p, l : Goto(t, p, l)
    BY <1>4 DEF Malloc, Realloc, GetKind, StoreCount, Measure, Scale, Move, Store, Reset,
       NextThreshold
  <2>5. \A u \in Threads \ {t} : Updating(u)' = Updating(u)
    BY <1>0, <2>4, OthersUpdating
  <2>2. CASE (\E s \in Sizes : Malloc(t, s)) \/ Realloc(t) \/ GetKind(t)
    <3>1. ~Updating(t)'
      BY <1>0, <2>2 DEF ThreadsOK, Malloc, Realloc, GetKind, Goto, Updating
    <3> QED BY <2>1, <2>5, <3>1 DEF Single
  <2>3. CASE \/ StoreCount(t) \/ (\E prev, next \in AllocSizes : Measure(t, prev, next))
             \/ Scale(t) \/ Move(t) \/ Store(t) \/ Reset(t)
    <3>1. Updating(t)
      BY <2>3 DEF StoreCount, Measure, Scale, Move, Store, Reset, Updating
    <3> QED BY <2>1, <2>5, <3>1 DEF Single
  <2> QED BY <1>4, <2>2, <2>3
<1> QED BY <1>1, <1>2, <1>3, <1>4 DEF Next, Update
-----------------------------------------------------------------------------
\* What a thread knows about a threshold it is about to move: the step is no
\* larger than the largest one, and with one thread at a time it is the step of
\* the present value; the value to be stored is on the side of the old one that
\* Store does not check.
ThreadRange(t, i) ==
  LET th == memory.thres[i]
  IN  loc[t].i = i =>
        /\ pc[t] = "move" =>
             /\ loc[t].threshold =< Scaled(th.max, memory.degree)
             /\ ~raced => loc[t].threshold = Scaled(th.val, memory.degree)
        /\ pc[t] = "store" =>
             IF loc[t].up THEN loc[t].new >= th.min ELSE loc[t].new =< th.max
RangeOK(i) == NoWrap(i) => InRange(i) /\ \A t \in Threads : ThreadRange(t, i)
Ranges == Building \/ \A i \in Thresholds : RangeOK(i)

\* The hypothesis NoWrap is never regained.
LEMMA NoWrapKept ==
  ASSUME MemoryOK, SameMemory, raced => raced', NEW i \in Thresholds, NoWrap(i)'
  PROVE  NoWrap(i)
BY DEF NoWrap, SameMemory

\* A step of thread t keeps the range of threshold i if it keeps it in t.
LEMMA RangeOfThread ==
  ASSUME Typed, Single, MemoryOK, SameMemory, raced => raced',
         NEW t \in Threads, NEW p, NEW l, Goto(t, p, l), NEW i \in Thresholds, RangeOK(i),
         Updating(t) \/ memory'.thres[i].val = memory.thres[i].val,
         NoWrap(i) => InRange(i)' /\ ThreadRange(t, i)'
  PROVE  RangeOK(i)'
<1> SUFFICES ASSUME NoWrap(i)' PROVE InRange(i)' /\ \A u \in Threads : ThreadRange(u, i)'
  BY DEF RangeOK
<1>1. NoWrap(i)
  BY NoWrapKept
<1>2. ASSUME NEW u \in Threads \ {t} PROVE ThreadRange(u, i)'
  <2>1. pc'[u] = pc[u] /\ loc'[u] = loc[u]
    BY OthersUpdating DEF Typed
  <2>2. ThreadRange(u, i)
    BY <1>1 DEF RangeOK
  <2>3. /\ memory'.thres[i].max = memory.thres[i].max /\ memory'.thres[i].min = memory.thres[i].min
        /\ memory'.degree = memory.degree
    BY DEF SameMemory
  <2>4. pc[u] = "move" /\ ~raced' => memory'.thres[i].val = memory.thres[i].val
    BY DEF Single, Updating
  <2> QED BY <2>1, <2>2, <2>3, <2>4 DEF ThreadRange
<1> QED BY <1>1, <1>2

LEMMA RangesStep ==
  ASSUME Typed, Single, raced => raced', Ranges, [Next]_vars
  PROVE  Ranges'
<1>1. CASE Build
  <2>1. Building /\ (UNCHANGED memory \/ (Construct /\ MemoryOK')) /\ UNCHANGED pc
        /\ \A t \in Threads : pc[t] = "idle"
    BY <1>1, BuildStep
  <2>2. CASE UNCHANGED memory
    BY <2>1, <2>2 DEF Ranges, Building
  <2>3. CASE Construct
    <3>1. memory' = [thres |-> [i \in 1..Tiers - 1 |-> Threshold(builder, i)],
                check_cnt |-> builder.check_cnt, init_check_cnt |-> builder.check_cnt,
                trigger |-> builder.trigger, degree |-> builder.degree]
      BY <2>3 DEF Construct
    <3>2. memory'.thres = [i \in 1..Tiers - 1 |-> Threshold(builder, i)]
      BY <3>1
    <3>3. Thresholds' = 1..Tiers - 1
      <4>1. MemoryOK' /\ builder' = builder
        BY <2>1, <2>3, Constructed DEF Typed, Construct
      <4>2. Len(memory'.thres) = Tiers - 1
        BY <4>1 DEF MemoryOK, Tiers
      <4> QED BY <4>2 DEF Thresholds
    <3>4. ASSUME NEW i \in 1..Tiers - 1 PROVE InRange(i)'
      <4>1. /\ memory'.thres[i].val = builder.thres[i].val
            /\ memory'.thres[i].min = builder.thres[i].min
            /\ memory'.thres[i].max = builder.thres[i].max
        BY <3>2 DEF Threshold
      <4>2. builder.thres[i] \in Bounds
        BY <2>3 DEF Typed, BuilderOK, Builder, Construct, ValidConfig
      <4>3. builder.thres[i].val \in builder.thres[i].min..builder.thres[i].max
        BY <2>3, <4>2 DEF Construct, ValidConfig, Bounds
      <4> QED BY <4>1, <4>3 DEF InRange
    <3>5. ASSUME NEW i, NEW t \in Threads PROVE ThreadRange(t, i)'
      BY <2>1 DEF ThreadRange
    <3> QED BY <3>3, <3>4, <3>5 DEF Ranges, RangeOK
  <2> QED BY <2>1, <2>2, <2>3
<1>2. CASE UNCHANGED vars
  BY <1>2 DEF vars, Ranges, RangeOK, NoWrap, InRange, ThreadRange, Thresholds, Building
<1>3. ASSUME NEW t \in Threads,
             (\E s \in Sizes : Malloc(t, s)) \/ Realloc(t) \/ GetKind(t) \/ Update(t)
      PROVE  Ranges'
  <2>1. MemoryOK /\ SameMemory /\ ThreadsOK /\ loc[t] \in Locals /\ ThreadOK(t) /\ Thresholds' = Thresholds
    BY <1>3, CallStep DEF Typed, ThreadsOK, SameMemory
  <2>2. \A i \in Thresholds : RangeOK(i)
    BY <2>1, MemoryTypes DEF Ranges
  <2> SUFFICES ASSUME NEW i \in Thresholds PROVE RangeOK(i)'
    BY <2>1 DEF Ranges
  <2>3. RangeOK(i)
    BY <2>2
  <2> DEFINE th == memory.thres[i]
             f == memory.degree
  <2>4. /\ th.min \in Nat /\ th.max \in Nat /\ th.val \in Nat
        /\ f.n \in Nat /\ f.d \in Nat \ {0}
        /\ memory'.thres[i].min = th.min /\ memory'.thres[i].max = th.max
    BY <2>1, MemoryTypes DEF SameMemory
  <2>5. memory'.thres[i].val = th.val => (NoWrap(i) => InRange(i)')
    BY <2>3, <2>4 DEF RangeOK, InRange
  <2>6. CASE \/ \E s \in Sizes : Malloc(t, s)
             \/ Realloc(t) \/ GetKind(t) \/ LoadCount(t) \/ StoreCount(t) \/ Reset(t)
             \/ \E prev, next \in AllocSizes : Measure(t, prev, next)
    <3>1. PICK p, l : Goto(t, p, l) /\ p \in {"choose", "count", "countdown", "idle", "measure", "scale"}
      BY <2>6 DEF Malloc, Realloc, GetKind, LoadCount, StoreCount, Reset, Measure
    <3>2. ThreadRange(t, i)'
      BY <2>1, <3>1, OthersUpdating DEF ThreadRange
    <3>3. memory'.thres[i].val = th.val
      <4>1. CASE UNCHANGED memory
        BY <4>1
      <4>2. CASE StoreCount(t) \/ Reset(t)
        <5>1. \E c \in Nat : memory' = [memory EXCEPT !.check_cnt = c]
          BY <2>1, <4>2, MemoryTypes DEF StoreCount, Reset, Locals
        <5> QED BY <2>1, <5>1, CountMemory
      <4>3. ASSUME NEW prev \in AllocSizes, NEW next \in AllocSizes, Measure(t, prev, next),
                   prev # 0
            PROVE  memory'.thres[i].val = th.val
        <5> DEFINE j == loc[t].i
                   d == Distance(Frac(next, prev), memory.thres[j].exp)
        <5>1. pc[t] = "measure" /\ memory' = [memory EXCEPT !.thres[j].diff = d]
          BY <4>3 DEF Measure
        <5>2. j \in Thresholds
          BY <2>1, <5>1 DEF ThreadOK, AtThreshold
        <5>3. memory.thres[j].exp \in Fraction
          BY <2>1, <5>2, MemoryTypes DEF ThresholdRecord
        <5>4. d \in Fraction
          BY <4>3, <5>3, SizeAssumption, Distances
        <5> HIDE DEF d, j
        <5> QED BY <2>1, <5>1, <5>2, <5>4, SetDiff
      <4>4. ASSUME NEW prev \in AllocSizes, NEW next \in AllocSizes, Measure(t, prev, next),
                   prev = 0
            PROVE  UNCHANGED memory
        BY <4>4 DEF Measure
      <4>5. ASSUME (\E s \in Sizes : Malloc(t, s)) \/ Realloc(t) \/ GetKind(t) \/ LoadCount(t)
            PROVE  UNCHANGED memory
        BY <4>5 DEF Malloc, Realloc, GetKind, LoadCount
      <4> QED BY <2>6, <4>1, <4>2, <4>3, <4>4, <4>5
    <3> QED BY <2>1, <2>3, <2>5, <3>1, <3>2, <3>3, RangeOfThread
  <2>7. CASE Scale(t)
    <3> DEFINE j == loc[t].i
               s == Scaled(memory.thres[j].val, f)
               l == [NoLocals EXCEPT !.i = j, !.up = loc[t].up, !.threshold = s]
    <3>1. /\ pc[t] = "scale" /\ (NextThreshold(t) \/ Goto(t, "move", l)) /\ UNCHANGED memory
          /\ raced' = raced
      BY <2>7 DEF Scale
    <3>2. Updating(t)
      BY <3>1 DEF Updating
    <3>3. CASE NextThreshold(t)
      <4>1. PICK p, q : Goto(t, p, q) /\ p \in {"measure", "reset"}
        BY <3>3 DEF NextThreshold
      <4>2. ThreadRange(t, i)'
        BY <2>1, <4>1, OthersUpdating DEF ThreadRange
      <4> QED BY <2>1, <2>3, <2>5, <3>1, <3>2, <4>1, <4>2, RangeOfThread
    <3>4. CASE Goto(t, "move", l)
      <4>1. l.i = j /\ l.threshold = s
        BY DEF NoLocals
      <4> HIDE DEF l
      <4>2. pc'[t] = "move" /\ loc'[t] = l
        BY <2>1, <3>4, OthersUpdating
      <4>3. NoWrap(i) /\ j = i => s =< Scaled(th.max, f)
        <5> SUFFICES ASSUME NoWrap(i), j = i PROVE Scaled(th.val, f) =< Scaled(th.max, f)
          OBVIOUS
        <5>1. th.val =< th.max
          BY <2>3, <2>4 DEF RangeOK, InRange
        <5> HIDE DEF th, f
        <5> QED BY <2>4, <5>1, ScaledMonotone
      <4>4. NoWrap(i) => ThreadRange(t, i)'
        BY <3>1, <4>1, <4>2, <4>3 DEF ThreadRange
      <4> QED BY <2>1, <2>3, <2>5, <3>1, <3>2, <3>4, <4>4, RangeOfThread
    <3> QED BY <3>1, <3>3, <3>4
  <2>8. CASE Move(t)
    <3> DEFINE j == loc[t].i
               val == memory.thres[j].val
               new == IF loc[t].up THEN val + loc[t].threshold ELSE val - loc[t].threshold
               l == [NoLocals EXCEPT !.i = j, !.up = loc[t].up, !.new = new % Word]
    <3>1. /\ pc[t] = "move" /\ Goto(t, "store", l) /\ UNCHANGED memory /\ raced' = raced
      BY <2>8 DEF Move
    <3>2. Updating(t)
      BY <3>1 DEF Updating
    <3>3. l.i = j /\ l.up = loc[t].up /\ l.new = new % Word
      BY DEF NoLocals
    <3> HIDE DEF l
    <3>4. pc'[t] = "store" /\ loc'[t] = l
      BY <2>1, <3>1, OthersUpdating
    <3>5. ASSUME NoWrap(i), j = i
          PROVE  IF loc[t].up THEN new % Word >= th.min ELSE new % Word =< th.max
      <4> DEFINE s == loc[t].threshold
                 largest == Scaled(th.max, f)
      <4>1. /\ s \in Nat /\ largest \in Nat /\ s =< largest /\ loc[t].up \in BOOLEAN
            /\ th.min =< th.val /\ th.val =< th.max
        <5>1. largest \in Nat
          BY <2>4, ScaledTypes
        <5>2. th.min =< th.val /\ th.val =< th.max /\ s =< largest
          BY <2>3, <2>4, <3>1, <3>5 DEF RangeOK, InRange, ThreadRange
        <5> QED BY <2>1, <5>1, <5>2 DEF Locals
      <4>2. th.max + largest < Word /\ (largest =< th.min \/ (~raced /\ f.n =< f.d))
        BY <3>5 DEF NoWrap
      <4>3. s =< th.val
        <5>1. CASE largest =< th.min
          <6> HIDE DEF s, largest, th, f
          <6> QED BY <2>4, <4>1, <5>1
        <5>2. CASE ~raced /\ f.n =< f.d
          <6>1. s = Scaled(th.val, f)
            BY <2>3, <3>1, <3>5, <5>2 DEF RangeOK, ThreadRange
          <6> HIDE DEF s, th, f
          <6> QED BY <2>4, <5>2, <6>1, ScaledSmall
        <5> QED BY <4>2, <5>1, <5>2
      <4>4. new = IF loc[t].up THEN th.val + s ELSE th.val - s
        BY <3>5
      <4>5. Word \in Nat \ {0}
        BY CountAssumption
      <4> HIDE DEF s, largest, new, th, f
      <4>6. new \in 0..Word - 1
        BY <2>4, <4>1, <4>2, <4>3, <4>4, <4>5
      <4>7. new % Word = new
        BY <4>5, <4>6
      <4> QED BY <2>4, <4>1, <4>3, <4>4, <4>7
    <3>6. NoWrap(i) => ThreadRange(t, i)'
      BY <2>4, <3>3, <3>4, <3>5 DEF ThreadRange
    <3> QED BY <2>1, <2>3, <2>5, <3>1, <3>2, <3>6, RangeOfThread
  <2>9. CASE Store(t)
    <3> DEFINE j == loc[t].i
               v == loc[t].new
               own == memory.thres[j]
               fits == IF loc[t].up THEN v =< own.max ELSE v >= own.min
    <3>1. /\ pc[t] = "store" /\ NextThreshold(t)
          /\ memory' = IF fits THEN [memory EXCEPT !.thres[j].val = v] ELSE memory
      BY <2>9 DEF Store
    <3>2. j \in Thresholds /\ v \in Nat /\ Updating(t) /\ loc[t].up \in BOOLEAN
      BY <2>1, <3>1 DEF ThreadOK, AtThreshold, Locals, Updating
    <3>3. PICK p, q : Goto(t, p, q) /\ p \in {"measure", "reset"}
      BY <3>1 DEF NextThreshold
    <3>4. ThreadRange(t, i)'
      BY <2>1, <3>3, OthersUpdating DEF ThreadRange
    <3>5. NoWrap(i) => InRange(i)'
      <4>1. CASE ~fits
        <5>1. memory' = memory
          BY <3>1, <4>1
        <5> QED BY <2>5, <5>1
      <4>2. CASE fits
        <5>1. memory' = [memory EXCEPT !.thres[j].val = v]
          BY <3>1, <4>2
        <5>2. /\ memory'.thres[j].val = v
              /\ j # i => memory'.thres[i] = memory.thres[i]
          <6> HIDE DEF j, v
          <6> QED BY <2>1, <3>2, <5>1, SetVal
        <5>3. CASE j # i
          BY <2>5, <5>2, <5>3
        <5>4. ASSUME j = i, NoWrap(i) PROVE InRange(i)'
          <6>1. IF loc[t].up THEN v >= th.min ELSE v =< th.max
            BY <2>3, <3>1, <5>4 DEF RangeOK, ThreadRange
          <6>2. v \in th.min..th.max
            BY <2>4, <3>2, <4>2, <5>4, <6>1
          <6> QED BY <2>4, <5>2, <5>4, <6>2 DEF InRange
        <5> QED BY <5>3, <5>4
      <4> QED BY <4>1, <4>2
    <3> QED BY <2>1, <2>3, <3>2, <3>3, <3>4, <3>5, RangeOfThread
  <2> QED BY <1>3, <2>6, <2>7, <2>8, <2>9 DEF Update
<1> QED BY <1>1, <1>2, <1>3 DEF Next

\* A threshold never leaves its range, although its value is read twice and
\* written once without a lock.
THEOREM ThresholdInRange == Spec => []RangeKept
<1>1. Init => Single /\ Ranges
  BY DEF Init, Single, Ranges, Updating, Building
<1>2. Typed /\ Single /\ Ranges /\ [Next]_vars => Single' /\ Ranges'
  BY SingleStep, RangesStep
<1>3. Ranges => RangeKept
  <2>1. Building => Thresholds = {}
    BY DEF Building, NoMemory, Thresholds
  <2> QED BY <2>1 DEF Ranges, RangeOK, RangeKept
<1> QED BY <1>1, <1>2, <1>3, TypedInit, TypedStep, PTL DEF Spec
-----------------------------------------------------------------------------
\* What the loop of get_kind has passed, and why it stopped.
Passed(t) ==
  pc[t] \in {"choose", "count"} /\ loc[t].i # 0 =>
    /\ loc[t].i \in 1..Len(memory.thres) + 1
    /\ \A j \in Thresholds : j < loc[t].i => memory.thres[j].min =< loc[t].size
    /\ pc[t] = "count" /\ loc[t].i \in Thresholds => loc[t].size < memory.thres[loc[t].i].max
AllPassed == (\A i \in Thresholds : NoWrap(i)) => \A t \in Threads : Passed(t)

\* A later range ends later: the least counterexample has none before it.
LEMMA MaxMonotone ==
  ASSUME MemoryOK, NEW a \in Thresholds, NEW b \in Thresholds, a =< b
  PROVE  memory.thres[a].max =< memory.thres[b].max
<1> DEFINE m(i) == memory.thres[i].max
           T == {x \in Nat : x \in Thresholds /\ a =< x /\ ~(m(a) =< m(x))}
<1>1. /\ \A i \in Thresholds : i \in Nat /\ m(i) \in Nat
      /\ \A i \in Thresholds : i > 1 => i - 1 \in Thresholds /\ m(i - 1) =< m(i)
  <2>1. \A i \in Thresholds : i \in Nat /\ m(i) \in Nat /\ memory.thres[i].min \in Nat
    BY MemoryTypes
  <2>2. \A i \in Thresholds : i > 1 => i - 1 \in Thresholds
    BY MemoryTypes
  <2>3. \A i \in Thresholds : i > 1 => m(i - 1) =< memory.thres[i].min /\ memory.thres[i].min =< m(i)
    BY DEF MemoryOK
  <2> HIDE DEF m
  <2> QED BY <2>1, <2>2, <2>3
<1>0. 1 \in Thresholds /\ \A i \in Thresholds : i >= 1
  BY MemoryTypes DEF MemoryOK
<1> HIDE DEF m
<1> SUFFICES ASSUME T # {} PROVE FALSE
  BY <1>1 DEF m
<1>2. IsWellFoundedOn(OpToRel(<, Nat), Nat)
  BY NatLessThanWellFounded
<1>3. PICK x \in T : \A y \in T : ~(<<y, x>> \in OpToRel(<, Nat))
  BY <1>2, WFMin
<1>4. \A y \in T : ~(y < x)
  BY <1>3 DEF OpToRel
<1>5. x # a
  BY <1>1
<1>6. x - 1 \in Thresholds /\ a =< x - 1 /\ m(x - 1) =< m(x) /\ x - 1 \in Nat
  BY <1>0, <1>1, <1>5
<1>7. m(a) =< m(x - 1)
  BY <1>4, <1>6
<1> QED BY <1>1, <1>6, <1>7

LEMMA PassedStep ==
  ASSUME Typed, raced => raced', Ranges, AllPassed, [Next]_vars
  PROVE  AllPassed'
<1>1. CASE Build
  BY <1>1, BuildStep DEF AllPassed, Passed
<1>2. CASE UNCHANGED vars
  BY <1>2 DEF vars, AllPassed, Passed, NoWrap, Thresholds
<1>3. ASSUME NEW t \in Threads,
             (\E s \in Sizes : Malloc(t, s)) \/ Realloc(t) \/ GetKind(t) \/ Update(t)
      PROVE  AllPassed'
  <2>1. MemoryOK /\ SameMemory /\ ThreadsOK /\ loc[t] \in Locals /\ Thresholds' = Thresholds
    BY <1>3, CallStep DEF Typed, ThreadsOK, SameMemory
  <2> SUFFICES ASSUME \A i \in Thresholds : NoWrap(i)' PROVE \A u \in Threads : Passed(u)'
    BY <2>1 DEF AllPassed
  <2>2. \A i \in Thresholds : NoWrap(i)
    BY <2>1, NoWrapKept
  <2>3. \A i \in Thresholds : InRange(i)
    BY <2>1, <2>2, MemoryTypes DEF Ranges, RangeOK
  <2>4. \A u \in Threads : Passed(u)
    BY <2>2 DEF AllPassed
  <2>5. /\ Len(memory'.thres) = Len(memory.thres)
        /\ \A i \in Thresholds : /\ memory'.thres[i].min = memory.thres[i].min
                                 /\ memory'.thres[i].max = memory.thres[i].max
    BY <2>1 DEF SameMemory
  <2>6. PICK p, l : Goto(t, p, l)
    BY <1>3 DEF Malloc, Realloc, GetKind, Update, LoadCount, StoreCount, Measure, Scale, Move, Store,
       Reset, NextThreshold
  <2>7. ASSUME NEW u \in Threads \ {t} PROVE Passed(u)'
    <3>1. pc'[u] = pc[u] /\ loc'[u] = loc[u]
      BY <2>1, <2>6, OthersUpdating
    <3> QED BY <2>1, <2>4, <2>5, <3>1 DEF Passed
  <2>8. ASSUME NEW s \in Sizes, Malloc(t, s) PROVE Passed(t)'
    <3> DEFINE q == [NoLocals EXCEPT !.size = s, !.i = 1]
    <3>0. Goto(t, "choose", q) /\ q.i = 1
      BY <2>8 DEF Malloc, NoLocals
    <3> HIDE DEF q
    <3>1. pc'[t] = "choose" /\ loc'[t].i = 1
      BY <2>1, <3>0, OthersUpdating
    <3>2. Len(memory.thres) \in Nat /\ \A j \in Thresholds : ~(j < 1)
      BY <2>1, MemoryTypes
    <3> QED BY <2>1, <2>5, <3>1, <3>2 DEF Passed
  <2>9. ASSUME Realloc(t) PROVE Passed(t)'
    <3>1. pc'[t] = "count" /\ loc'[t].i = 0
      BY <2>1, <2>9, OthersUpdating DEF Realloc, NoLocals
    <3> QED BY <3>1 DEF Passed
  <2>10. ASSUME GetKind(t) PROVE Passed(t)'
    <3> DEFINE i == loc[t].i
               size == loc[t].size
               q == [loc[t] EXCEPT !.i = @ + 1]
    <3>1. /\ pc[t] = "choose"
          /\ IF i \in Thresholds /\ size >= memory.thres[i].val
             THEN Goto(t, "choose", q) ELSE Goto(t, "count", loc[t])
      BY <2>10 DEF GetKind
    <3>2. i \in Nat /\ size \in Nat /\ q.i = i + 1 /\ q.size = size
      BY <2>1 DEF Locals
    <3>3. /\ Len(memory.thres) \in Nat /\ Thresholds = 1..Len(memory.thres)
          /\ \A j \in Thresholds : /\ memory.thres[j].val \in Nat
                                   /\ memory.thres[j].min \in Nat /\ memory.thres[j].max \in Nat
      BY <2>1, MemoryTypes
    <3>4. Passed(t)
      BY <2>4
    <3>5. CASE i \in Thresholds /\ size >= memory.thres[i].val
      <4>1. pc'[t] = "choose" /\ loc'[t] = q
        BY <2>1, <3>1, <3>5, OthersUpdating
      <4>2. memory.thres[i].min =< size
        BY <2>3, <3>2, <3>3, <3>5 DEF InRange
      <4>3. \A j \in Thresholds : j < i + 1 => memory.thres[j].min =< size
        <5> SUFFICES ASSUME NEW j \in Thresholds, j < i + 1 PROVE memory.thres[j].min =< size
          OBVIOUS
        <5>1. j = i \/ (j < i /\ i # 0)
          BY <3>2, <3>3
        <5> QED BY <3>1, <3>4, <4>2, <5>1 DEF Passed
      <4>4. i + 1 \in 1..Len(memory.thres) + 1
        BY <3>2, <3>3, <3>5
      <4> HIDE DEF q
      <4> QED BY <2>1, <2>5, <3>2, <4>1, <4>3, <4>4 DEF Passed
    <3>6. CASE ~(i \in Thresholds /\ size >= memory.thres[i].val)
      <4>1. pc'[t] = "count" /\ loc'[t] = loc[t]
        BY <2>1, <3>1, <3>6, OthersUpdating
      <4>2. i \in Thresholds => size < memory.thres[i].max
        BY <2>3, <3>2, <3>3, <3>6 DEF InRange
      <4> QED BY <2>1, <2>5, <3>1, <3>4, <4>1, <4>2 DEF Passed
    <3> QED BY <3>5, <3>6
  <2>11. ASSUME Update(t) PROVE Passed(t)'
    <3>1. \E r, q : Goto(t, r, q) /\ r \in {"countdown", "idle", "measure", "scale", "move", "store", "reset"}
      BY <2>11 DEF Update, LoadCount, StoreCount, Measure, Scale, Move, Store, Reset, NextThreshold
    <3>2. pc'[t] \notin {"choose", "count"}
      BY <2>1, <3>1, OthersUpdating
    <3> QED BY <3>2 DEF Passed
  <2> QED BY <1>3, <2>7, <2>8, <2>9, <2>10, <2>11
<1> QED BY <1>1, <1>2, <1>3 DEF Next

\* A size outside all the ranges goes to the tier between its neighbours,
\* however the thresholds move during the loop.
THEOREM SizeFindsTier == Spec => []SizesPlaced
<1>1. Init => Single /\ Ranges /\ AllPassed
  BY DEF Init, Single, Ranges, Updating, Building, AllPassed, Passed
<1>2. Typed /\ Single /\ Ranges /\ AllPassed /\ [Next]_vars => Single' /\ Ranges' /\ AllPassed'
  BY SingleStep, RangesStep, PassedStep
<1>3. Typed /\ AllPassed => SizesPlaced
  <2> SUFFICES ASSUME Typed, AllPassed, \A i \in Thresholds : NoWrap(i), NEW t \in Threads,
                      NEW tier \in 1..Len(memory.thres) + 1,
                      pc[t] = "count", loc[t].i # 0,
                      tier > 1 => memory.thres[tier - 1].max =< loc[t].size,
                      tier \in Thresholds => loc[t].size < memory.thres[tier].min
               PROVE  loc[t].i = tier
    BY DEF SizesPlaced
  <2>1. MemoryOK
    BY HasMemory
  <2>2. Passed(t)
    BY DEF AllPassed
  <2>3. /\ Len(memory.thres) \in Nat /\ Thresholds = 1..Len(memory.thres)
        /\ \A j \in Thresholds : memory.thres[j].min \in Nat /\ memory.thres[j].max \in Nat
    BY <2>1, MemoryTypes
  <2>4. loc[t].i \in 1..Len(memory.thres) + 1 /\ loc[t].size \in Nat
    BY <2>2 DEF Passed, Typed, ThreadsOK, Locals
  <2>5. CASE loc[t].i > tier
    <3>1. tier \in Thresholds
      BY <2>3, <2>4, <2>5
    <3>2. memory.thres[tier].min =< loc[t].size
      BY <2>2, <2>5, <3>1 DEF Passed
    <3> QED BY <2>3, <2>4, <3>1, <3>2
  <2>6. CASE loc[t].i < tier
    <3>1. loc[t].i \in Thresholds /\ tier - 1 \in Thresholds /\ loc[t].i =< tier - 1 /\ tier > 1
      BY <2>3, <2>4, <2>6
    <3>2. loc[t].size < memory.thres[loc[t].i].max
      BY <2>2, <3>1 DEF Passed
    <3>3. memory.thres[loc[t].i].max =< memory.thres[tier - 1].max
      BY <2>1, <3>1, MaxMonotone
    <3> QED BY <2>3, <2>4, <3>1, <3>2, <3>3
  <2> QED BY <2>4, <2>5, <2>6
<1> QED BY <1>1, <1>2, <1>3, TypedInit, TypedStep, PTL DEF Spec
-----------------------------------------------------------------------------
\* How far the countdown is, while one call at a time updates it: between calls
\* check_cnt and since add up to at most the initial count, a call that has
\* loaded the counter is about to add one to since, and one past the countdown
\* is about to reset it.
CountHypothesis == ~Building /\ ~raced /\ memory.init_check_cnt > 0
Idle == \A t \in Threads : ~Updating(t)
Countdown ==
  /\ Idle => memory.check_cnt >= 1 /\ since + memory.check_cnt =< memory.init_check_cnt
  /\ \A t \in Threads : /\ Updating(t) => since < memory.init_check_cnt
                        /\ pc[t] = "countdown" =>
                             loc[t].cnt + since + 1 =< memory.init_check_cnt
Counting == since \in Nat /\ (Building => since = 0) /\ (CountHypothesis => Countdown)

\* The counter is an unsigned that does not wrap while it is above zero.
LEMMA CountsDown == ASSUME NEW c \in Nat, c >= 1 PROVE (c - 1) % UintMod =< c - 1
<1> DEFINE x == c - 1
           q == x \div UintMod
           r == x % UintMod
<1>1. UintMod \in Nat \ {0} /\ x \in Nat
  BY CountAssumption
<1> HIDE DEF x
<1>2. x = UintMod * q + r /\ q \in Nat /\ r \in 0..UintMod - 1
  BY <1>1
<1> HIDE DEF q, r
<1>3. UintMod * q \in Nat
  BY <1>1, <1>2
<1>4. r =< x
  BY <1>1, <1>2, <1>3
<1> QED BY <1>4 DEF r, x

LEMMA CountingStep ==
  ASSUME Typed, Single, Single', raced => raced', Counting, [Next]_vars
  PROVE  Counting'
<1>1. CASE Build
  <2>1. /\ Building /\ UNCHANGED <<pc, since, raced>> /\ since = 0
        /\ \A t \in Threads : pc[t] = "idle"
        /\ UNCHANGED memory \/ (Construct /\ MemoryOK')
    BY <1>1, BuildStep DEF Counting
  <2>2. CASE UNCHANGED memory
    BY <2>1, <2>2 DEF Counting, CountHypothesis, Building
  <2>3. CASE Construct
    <3>1. memory'.check_cnt = memory'.init_check_cnt /\ memory'.check_cnt \in Nat
      BY <2>3 DEF Construct, Typed, BuilderOK, Builder
    <3>2. \A t \in Threads : ~Updating(t)' /\ pc'[t] # "countdown"
      BY <2>1 DEF Updating
    <3> QED BY <2>1, <3>1, <3>2 DEF Counting, CountHypothesis, Countdown, Idle
  <2> QED BY <2>1, <2>2, <2>3
<1>2. CASE UNCHANGED vars
  BY <1>2 DEF vars, Counting, CountHypothesis, Countdown, Idle, Updating, Building
<1>3. ASSUME NEW t \in Threads,
             (\E s \in Sizes : Malloc(t, s)) \/ Realloc(t) \/ GetKind(t) \/ Update(t)
      PROVE  Counting'
  <2>1. /\ MemoryOK /\ SameMemory /\ ThreadsOK /\ loc[t] \in Locals
        /\ memory'.init_check_cnt = memory.init_check_cnt
    BY <1>3, CallStep DEF Typed, ThreadsOK, SameMemory
  <2>2. /\ ~Building /\ memory.check_cnt \in Nat /\ memory.init_check_cnt \in Nat
        /\ since \in Nat /\ loc[t].cnt \in Nat
    BY <2>1, MemoryTypes DEF Counting, Locals
  <2>3. ~Building'
    <3>1. Typed'
      BY TypedStep
    <3>2. UNCHANGED builder
      BY <1>3, CallStep
    <3>3. MemoryOK'
      BY <2>1, <3>2, MemoryKept
    <3>4. CASE memory' = NoMemory
      <4>1. memory'.thres = <<>>
        BY <3>4 DEF NoMemory
      <4> QED BY <3>3, <4>1 DEF MemoryOK
    <3> QED BY <3>4 DEF Building
  <2>4. PICK p, l : Goto(t, p, l)
    BY <1>3 DEF Malloc, Realloc, GetKind, Update, LoadCount, StoreCount, Measure, Scale, Move, Store,
       Reset, NextThreshold
  <2>5. \A u \in Threads \ {t} : pc'[u] = pc[u] /\ loc'[u] = loc[u] /\ Updating(u)' = Updating(u)
    BY <2>1, <2>4, OthersUpdating
  <2>6. ASSUME since' \in Nat, CountHypothesis => Countdown' PROVE Counting'
    <3>1. CountHypothesis' => CountHypothesis
      BY <2>1, <2>2 DEF CountHypothesis
    <3> QED BY <2>3, <2>6, <3>1 DEF Counting
  <2>7. CountHypothesis => Countdown
    BY DEF Counting
  <2>8. CASE LoadCount(t)
    <3> DEFINE c == (memory.check_cnt - 1) % UintMod
    <3>1. /\ pc[t] = "count" /\ Goto(t, "countdown", [NoLocals EXCEPT !.cnt = c])
          /\ raced' = (raced \/ \E u \in Threads \ {t} : Updating(u))
          /\ UNCHANGED <<memory, since>>
      BY <2>8 DEF LoadCount
    <3> HIDE DEF c
    <3>2. pc'[t] = "countdown" /\ loc'[t].cnt = c
      BY <2>1, <3>1, OthersUpdating DEF NoLocals
    <3>3. ASSUME CountHypothesis' PROVE Countdown'
      <4>1. ~raced /\ Idle /\ CountHypothesis
        BY <2>2, <3>1, <3>3 DEF CountHypothesis, Idle, Updating
      <4>2. memory.check_cnt >= 1 /\ since + memory.check_cnt =< memory.init_check_cnt
        BY <2>7, <4>1 DEF Countdown
      <4>3. c =< memory.check_cnt - 1 /\ c \in Nat
        BY <2>2, <4>2, CountsDown, CountAssumption DEF c
      <4>4. c + since + 1 =< memory.init_check_cnt /\ since < memory.init_check_cnt
        BY <2>2, <4>2, <4>3
      <4>5. \A u \in Threads \ {t} : ~Updating(u)' /\ pc'[u] # "countdown"
        BY <2>5, <4>1 DEF Idle, Updating
      <4>6. Updating(t)'
        BY <3>2 DEF Updating
      <4> QED BY <3>1, <3>2, <4>4, <4>5, <4>6 DEF Countdown, Idle
    <3> QED BY <2>2, <2>3, <3>1, <3>3 DEF Counting
  <2>9. CASE StoreCount(t)
    <3> DEFINE cnt == loc[t].cnt
    <3>1. /\ pc[t] = "countdown" /\ memory' = [memory EXCEPT !.check_cnt = cnt]
          /\ IF cnt > 0
             THEN Goto(t, "idle", NoLocals) /\ since' = since + 1
             ELSE Goto(t, "measure", [NoLocals EXCEPT !.i = 1]) /\ UNCHANGED since
      BY <2>9 DEF StoreCount
    <3>2. memory'.check_cnt = cnt
      BY <2>1, <2>2, <3>1, CountMemory
    <3>3. since' \in Nat
      BY <2>2, <3>1
    <3>4. ASSUME CountHypothesis PROVE Countdown'
      <4>1. \A u \in Threads \ {t} : ~Updating(u)' /\ pc'[u] # "countdown"
        BY <2>5, <3>1, <3>4 DEF CountHypothesis, Single, Updating
      <4>2. cnt + since + 1 =< memory.init_check_cnt
        BY <2>7, <3>1, <3>4 DEF Countdown
      <4>3. CASE cnt > 0
        <5>1. pc'[t] = "idle" /\ since' = since + 1
          BY <2>1, <3>1, <4>3, OthersUpdating
        <5> QED BY <2>1, <2>2, <3>2, <4>1, <4>2, <4>3, <5>1 DEF Countdown, Idle, Updating
      <4>4. CASE ~(cnt > 0)
        <5>1. pc'[t] = "measure" /\ since' = since
          BY <2>1, <3>1, <4>4, OthersUpdating
        <5>2. since < memory.init_check_cnt
          BY <2>2, <4>2
        <5> QED BY <2>1, <4>1, <5>1, <5>2 DEF Countdown, Idle, Updating
      <4> QED BY <4>3, <4>4
    <3> QED BY <2>6, <3>3, <3>4
  <2>10. CASE Reset(t)
    <3>1. /\ pc[t] = "reset" /\ memory' = [memory EXCEPT !.check_cnt = memory.init_check_cnt]
          /\ since' = 0 /\ Goto(t, "idle", NoLocals)
      BY <2>10 DEF Reset
    <3>2. memory'.check_cnt = memory.init_check_cnt
      BY <2>1, <2>2, <3>1, CountMemory
    <3>3. ASSUME CountHypothesis PROVE Countdown'
      <4>1. \A u \in Threads \ {t} : ~Updating(u)' /\ pc'[u] # "countdown"
        BY <2>5, <3>1, <3>3 DEF CountHypothesis, Single, Updating
      <4>2. pc'[t] = "idle"
        BY <2>1, <3>1, OthersUpdating
      <4>3. memory.init_check_cnt >= 1
        BY <2>2, <3>3 DEF CountHypothesis
      <4> QED BY <2>1, <2>2, <3>1, <3>2, <4>1, <4>2, <4>3 DEF Countdown, Idle, Updating
    <3> QED BY <2>6, <3>1, <3>3
  <2>11. CASE (\E s \in Sizes : Malloc(t, s)) \/ Realloc(t) \/ GetKind(t)
    <3>1. UNCHANGED <<memory, since>> /\ pc[t] \in {"idle", "choose"}
      BY <2>11 DEF Malloc, Realloc, GetKind, Begin
    <3>2. \E r, q : Goto(t, r, q) /\ r \in {"choose", "count"}
      BY <2>11 DEF Malloc, Realloc, GetKind
    <3>3. pc'[t] \in {"choose", "count"}
      BY <2>1, <3>2, OthersUpdating
    <3>4. \A u \in Threads : /\ Updating(u)' = Updating(u)
                             /\ pc'[u] = "countdown" => pc[u] = "countdown" /\ loc'[u] = loc[u]
      BY <2>5, <3>1, <3>3 DEF Updating
    <3>5. Countdown => Countdown'
      BY <2>1, <3>1, <3>4 DEF Countdown, Idle
    <3> QED BY <2>2, <2>6, <2>7, <3>1, <3>5
  <2>12. CASE \/ \E prev, next \in AllocSizes : Measure(t, prev, next)
              \/ Scale(t) \/ Move(t) \/ Store(t)
    <3>1. pc[t] \in AtThreshold /\ since' = since
      BY <2>12 DEF Measure, Scale, Move, Store, AtThreshold
    <3>2. \E r, q : Goto(t, r, q) /\ r \in {"measure", "scale", "move", "store", "reset"}
      BY <2>12 DEF Measure, Scale, Move, Store, NextThreshold
    <3>3. pc'[t] \in {"measure", "scale", "move", "store", "reset"}
      BY <2>1, <3>2, OthersUpdating
    <3>4. \A u \in Threads : /\ Updating(u)' = Updating(u)
                             /\ pc'[u] = "countdown" => pc[u] = "countdown" /\ loc'[u] = loc[u]
      BY <2>5, <3>1, <3>3 DEF Updating, AtThreshold
    <3>5. Updating(t)
      BY <3>1 DEF Updating, AtThreshold
    <3>6. Countdown => Countdown'
      BY <2>1, <3>1, <3>4, <3>5 DEF Countdown, Idle
    <3> QED BY <2>2, <2>6, <2>7, <3>1, <3>6
  <2> QED BY <1>3, <2>8, <2>9, <2>10, <2>11, <2>12 DEF Update
<1> QED BY <1>1, <1>2, <1>3 DEF Next

\* As long as no two calls update at a time, the tiers are compared in every
\* check_cnt-th call.
THEOREM TiersCompared == Spec => []CheckedEvery
<1>1. Init => Single /\ Counting
  BY DEF Init, Single, Updating, Counting, CountHypothesis, Building
<1>2. Typed /\ Single /\ Counting /\ [Next]_vars => Single' /\ Counting'
  BY SingleStep, CountingStep
<1>3. Typed /\ Counting => CheckedEvery
  <2> SUFFICES ASSUME Typed, Counting, CountHypothesis PROVE since < memory.init_check_cnt
    BY DEF CheckedEvery, CountHypothesis
  <2>1. MemoryOK /\ since \in Nat /\ Countdown
    BY DEF Typed, CountHypothesis, Counting
  <2>2. memory.check_cnt \in Nat /\ memory.init_check_cnt \in Nat
    BY <2>1, MemoryTypes
  <2> QED BY <2>1, <2>2 DEF Countdown, Idle
<1> QED BY <1>1, <1>2, <1>3, TypedInit, TypedStep, PTL DEF Spec
=============================================================================
