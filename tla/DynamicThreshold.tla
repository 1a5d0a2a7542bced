-------------------------- MODULE DynamicThreshold --------------------------
(***************************************************************************)
(* The dynamic threshold policy of memkind_memtier.c and the builder that  *)
(* configures it.  The builder collects tiers and thresholds, checks them  *)
(* and makes a memory; then threads allocate from the memory.  A call      *)
(* takes the first tier whose threshold is above the size, and every       *)
(* check_cnt calls one of them compares the tiers and moves thresholds.    *)
(*                                                                         *)
(* Nothing of this is locked and nothing but the counters is atomic: every *)
(* access of thres_check_cnt, of a threshold's val and of its              *)
(* current_ratio_diff by another statement is a step of its own.           *)
(*                                                                         *)
(* Tiers and thresholds are counted from 1.  Ratios are exact fractions,   *)
(* where the code has floats.  The sizes that tiers have allocated are     *)
(* inputs: MemtierCounters models them.                                    *)
(***************************************************************************)
EXTENDS Integers, Sequences

CONSTANTS Threads,
          Kinds, KindRatios,   \* the tiers that may be added
          AllocSizes,          \* what g_alloc_size may hold
          Sizes,               \* the sizes asked for
          STEP,                \* THRESHOLD_STEP, even
          CHECK_CNT,           \* THRESHOLD_CHECK_CNT
          Vals, Counts,        \* what memtier_ctl_set is given for thresholds and
          Triggers, Degrees,   \* for the policy
          UintMod, Word,       \* unsigned and size_t count modulo these
          MaxTiers, MaxCtl, MaxOps  \* bounds on the calls

Fraction == [n : Int, d : Nat \ {0}]
ASSUME SizeAssumption == /\ Vals \subseteq Nat /\ AllocSizes \subseteq Nat
                         /\ Sizes \subseteq Nat /\ KindRatios \subseteq Nat \ {0}
                         /\ STEP \in Nat /\ STEP % 2 = 0 /\ STEP > 0
ASSUME CountAssumption == /\ CHECK_CNT \in Nat /\ Counts \subseteq Nat
                          /\ UintMod \in Nat \ {0} /\ Word \in Nat \ {0}
ASSUME PolicyAssumption == Triggers \subseteq Fraction /\ Degrees \subseteq Fraction
ASSUME BoundAssumption == MaxTiers \in Nat /\ MaxCtl \in Nat /\ MaxOps \in Nat

VARIABLES builder,    \* struct memtier_builder
          memory,     \* struct memtier_memory, once constructed
          pc, loc,    \* the call of each thread
          ctls, ops,
          since,      \* history: calls since the tiers were compared
          raced       \* history: two calls were in update_config at a time

vars == <<builder, memory, pc, loc, ctls, ops, since, raced>>

Frac(n, d) == [n |-> n, d |-> d]
Less(a, b) == a.n * b.d < b.n * a.d
Abs(x) == IF x < 0 THEN -x ELSE x
Distance(a, b) == Frac(Abs(a.n * b.d - b.n * a.d), a.d * b.d)   \* fabs(a - b)
Scaled(v, f) == (v * f.n + f.d - 1) \div f.d                    \* ceilf(v * f)

NoMemory == [thres |-> <<>>]
NoLocals == [size |-> 0, i |-> 0, cnt |-> 0, prev |-> Frac(0, 1), up |-> FALSE,
             forced |-> FALSE, threshold |-> 0, new |-> 0]

\* memtier_builder_new: THRESHOLD_TRIGGER and THRESHOLD_DEGREE are 2% and 15%.
Init == /\ builder = [cfg |-> <<>>, thres |-> <<>>, check_cnt |-> CHECK_CNT,
                      trigger |-> Frac(2, 100), degree |-> Frac(15, 100)]
        /\ memory = NoMemory
        /\ pc = [t \in Threads |-> "idle"]
        /\ loc = [t \in Threads |-> NoLocals]
        /\ ctls = 0 /\ ops = 0 /\ since = 0 /\ raced = FALSE

Tiers == Len(builder.cfg)
Thresholds == 1..Len(memory.thres)          \* THRESHOLD_NUM
Goto(t, p, l) == pc' = [pc EXCEPT ![t] = p] /\ loc' = [loc EXCEPT ![t] = l]

-----------------------------------------------------------------------------
\* Mutants: plausible mistakes in the code.

\* A lowered threshold is compared with the wrong bound.
StoreWrongBound(t) ==
  /\ pc[t] = "store"
  /\ LET l == loc[t]
         th == memory.thres[l.i]
     IN  memory' = IF l.new =< th.max THEN [memory EXCEPT !.thres[l.i].val = l.new] ELSE memory
  /\ IF loc[t].i + 1 \in Thresholds
     THEN Goto(t, "measure", [NoLocals EXCEPT !.i = loc[t].i + 1])
     ELSE Goto(t, "reset", NoLocals)
  /\ UNCHANGED <<builder, ctls, ops, since, raced>>

\* The ranges of two thresholds may overlap.
ValidConfigOverlaps(b) ==
  /\ Tiers >= 2
  /\ \A i \in 1..Tiers - 1 : /\ b.thres[i].min =< b.thres[i].val
                             /\ b.thres[i].val =< b.thres[i].max
  /\ b.degree.n >= 0 /\ b.trigger.n >= 0

\* The counter is left at zero by the call that compared the tiers.
ResetForgotten(t) ==
  /\ pc[t] = "reset"
  /\ memory' = memory
  /\ since' = 0
  /\ Goto(t, "idle", NoLocals)
  /\ UNCHANGED <<builder, ctls, ops, raced>>

-----------------------------------------------------------------------------
\* The builder, before the memory is constructed.

Building == memory = NoMemory

\* builder_dynamic_update: the threshold below the tier about to be added.
DefaultThreshold(size) == [min |-> (STEP \div 2) * (2 * size - 1),
                           val |-> STEP * size,
                           max |-> (STEP \div 2) * (2 * size + 1) - 1]

\* memtier_builder_add_tier; a kind that the builder has already is refused.
AddTier(k, r) ==
  /\ Building /\ Tiers < MaxTiers
  /\ \A i \in 1..Tiers : builder.cfg[i].kind # k
  /\ builder' = [builder EXCEPT
                   !.cfg = Append(@, [kind |-> k, ratio |-> r]),
                   !.thres = IF Tiers = 0 THEN @ ELSE Append(@, DefaultThreshold(Tiers))]
  /\ UNCHANGED <<memory, pc, loc, ctls, ops, since, raced>>

\* builder_dynamic_ctl_set
Ctl == Building /\ ctls < MaxCtl /\ ctls' = ctls + 1

CtlThreshold(i, field, v) ==
  /\ Ctl /\ i < Tiers
  /\ builder' = [builder EXCEPT !.thres[i][field] = v]
  /\ UNCHANGED <<memory, pc, loc, ops, since, raced>>

CtlCheckCnt(c) ==
  /\ Ctl
  /\ builder' = [builder EXCEPT !.check_cnt = c]
  /\ UNCHANGED <<memory, pc, loc, ops, since, raced>>

CtlTrigger(f) ==
  /\ Ctl
  /\ builder' = [builder EXCEPT !.trigger = f]
  /\ UNCHANGED <<memory, pc, loc, ops, since, raced>>

CtlDegree(f) ==
  /\ Ctl
  /\ builder' = [builder EXCEPT !.degree = f]
  /\ UNCHANGED <<memory, pc, loc, ops, since, raced>>

\* builder_dynamic_create_memory: what it checks, and the memory it makes.
ValidConfig(b) ==
  /\ Tiers >= 2
  /\ \A i \in 1..Tiers - 1 : /\ b.thres[i].min =< b.thres[i].val
                             /\ b.thres[i].val =< b.thres[i].max
  /\ \A i \in 2..Tiers - 1 : b.thres[i - 1].max =< b.thres[i].min
  /\ b.degree.n >= 0 /\ b.trigger.n >= 0

Threshold(b, i) ==
  [min |-> b.thres[i].min, val |-> b.thres[i].val, max |-> b.thres[i].max,
   exp |-> Frac(b.cfg[i + 1].ratio, b.cfg[i].ratio),
   diff |-> Frac(0, 1)]

Construct ==
  /\ Building /\ ValidConfig(builder)
  /\ memory' = [thres |-> [i \in 1..Tiers - 1 |-> Threshold(builder, i)],
                check_cnt |-> builder.check_cnt, init_check_cnt |-> builder.check_cnt,
                trigger |-> builder.trigger, degree |-> builder.degree]
  /\ UNCHANGED <<builder, pc, loc, ctls, ops, since, raced>>

-----------------------------------------------------------------------------
\* The calls of a thread.

Begin(t) == ~Building /\ pc[t] = "idle" /\ ops < MaxOps /\ ops' = ops + 1

\* memtier_malloc, memtier_calloc and memtier_posix_memalign.
Malloc(t, size) ==
  /\ Begin(t)
  /\ Goto(t, "choose", [NoLocals EXCEPT !.size = size, !.i = 1])
  /\ UNCHANGED <<builder, memory, ctls, since, raced>>

\* memtier_realloc of a block stays in the block's kind.
Realloc(t) ==
  /\ Begin(t)
  /\ Goto(t, "count", NoLocals)
  /\ UNCHANGED <<builder, memory, ctls, since, raced>>

\* memtier_policy_dynamic_threshold_get_kind: one turn of its loop.
GetKind(t) ==
  /\ pc[t] = "choose"
  /\ IF loc[t].i \in Thresholds /\ loc[t].size >= memory.thres[loc[t].i].val
     THEN Goto(t, "choose", [loc[t] EXCEPT !.i = @ + 1])
     ELSE Goto(t, "count", loc[t])
  /\ UNCHANGED <<builder, memory, ctls, ops, since, raced>>

Updating(t) == pc[t] \notin {"idle", "choose", "count"}

\* update_config begins: --thres_check_cnt is a load and a store.
LoadCount(t) ==
  /\ pc[t] = "count"
  /\ Goto(t, "countdown", [NoLocals EXCEPT !.cnt = (memory.check_cnt - 1) % UintMod])
  /\ raced' = (raced \/ \E u \in Threads \ {t} : Updating(u))
  /\ UNCHANGED <<builder, memory, ctls, ops, since>>

StoreCount(t) ==
  /\ pc[t] = "countdown"
  /\ memory' = [memory EXCEPT !.check_cnt = loc[t].cnt]
  /\ IF loc[t].cnt > 0
     THEN Goto(t, "idle", NoLocals) /\ since' = since + 1
     ELSE Goto(t, "measure", [NoLocals EXCEPT !.i = 1]) /\ UNCHANGED since
  /\ UNCHANGED <<builder, ctls, ops, raced>>

NextThreshold(t) ==
  IF loc[t].i + 1 \in Thresholds
  THEN Goto(t, "measure", [NoLocals EXCEPT !.i = loc[t].i + 1])
  ELSE Goto(t, "reset", NoLocals)

\* The sizes of the two tiers are read and the distance of their ratio from
\* the one desired replaces the one of the check before.
Measure(t, prev, next) ==
  /\ pc[t] = "measure"
  /\ LET i == loc[t].i
         th == memory.thres[i]
         ratio == Frac(next, prev)
     IN  IF prev = 0
         THEN /\ Goto(t, "scale", [NoLocals EXCEPT !.i = i, !.up = TRUE, !.forced = TRUE])
              /\ UNCHANGED memory
         ELSE /\ Goto(t, "scale", [NoLocals EXCEPT !.i = i, !.prev = th.diff,
                                                   !.up = Less(th.exp, ratio)])
              /\ memory' = [memory EXCEPT !.thres[i].diff = Distance(ratio, th.exp)]
  /\ UNCHANGED <<builder, ctls, ops, since, raced>>

\* The threshold is left alone when the distance is small or shrinking; else
\* val is read to find out by how much it is to move.
Scale(t) ==
  /\ pc[t] = "scale"
  /\ LET l == loc[t]
         th == memory.thres[l.i]
     IN  IF ~l.forced /\ (Less(th.diff, memory.trigger) \/ Less(th.diff, l.prev))
         THEN NextThreshold(t)
         ELSE Goto(t, "move", [NoLocals EXCEPT !.i = l.i, !.up = l.up,
                                 !.threshold = Scaled(th.val, memory.degree)])
  /\ UNCHANGED <<builder, memory, ctls, ops, since, raced>>

\* val is read again: higher_threshold or lower_threshold.
Move(t) ==
  /\ pc[t] = "move"
  /\ LET l == loc[t]
         val == memory.thres[l.i].val
         new == IF l.up THEN val + l.threshold ELSE val - l.threshold
     IN  Goto(t, "store", [NoLocals EXCEPT !.i = l.i, !.up = l.up, !.new = new % Word])
  /\ UNCHANGED <<builder, memory, ctls, ops, since, raced>>

\* Each direction is checked against the bound on its own side.
Store(t) ==
  /\ pc[t] = "store"
  /\ LET l == loc[t]
         th == memory.thres[l.i]
         fits == IF l.up THEN l.new =< th.max ELSE l.new >= th.min
     IN  memory' = IF fits THEN [memory EXCEPT !.thres[l.i].val = l.new] ELSE memory
  /\ NextThreshold(t)
  /\ UNCHANGED <<builder, ctls, ops, since, raced>>

Reset(t) ==
  /\ pc[t] = "reset"
  /\ memory' = [memory EXCEPT !.check_cnt = memory.init_check_cnt]
  /\ since' = 0
  /\ Goto(t, "idle", NoLocals)
  /\ UNCHANGED <<builder, ctls, ops, raced>>

Build == \/ \E k \in Kinds, r \in KindRatios : AddTier(k, r)
         \/ \E i \in 1..MaxTiers, f \in {"min", "val", "max"}, v \in Vals : CtlThreshold(i, f, v)
         \/ \E c \in Counts : CtlCheckCnt(c)
         \/ \E f \in Triggers : CtlTrigger(f)
         \/ \E f \in Degrees : CtlDegree(f)
         \/ Construct

Update(t) == \/ LoadCount(t) \/ StoreCount(t)
             \/ \E prev, next \in AllocSizes : Measure(t, prev, next)
             \/ Scale(t) \/ Move(t) \/ Store(t) \/ Reset(t)

Next == \/ Build
        \/ \E t \in Threads : \/ \E s \in Sizes : Malloc(t, s)
                              \/ Realloc(t) \/ GetKind(t) \/ Update(t)

Spec == Init /\ [][Next]_vars

-----------------------------------------------------------------------------
\* What must hold for a threshold not to leave its range: the arithmetic of
\* size_t does not wrap, and the largest move computed from any value the
\* threshold ever had is not larger than the smallest value it may have.
\* With one thread at a time a degree of at most 100% is enough.
NoWrap(i) ==
  LET th == memory.thres[i]
      largest == Scaled(th.max, memory.degree)
  IN  /\ th.max + largest < Word
      /\ \/ largest =< th.min
         \/ ~raced /\ memory.degree.n =< memory.degree.d

InRange(i) == memory.thres[i].val \in memory.thres[i].min..memory.thres[i].max

\* A threshold stays between min and max although a thread may add to it or
\* take off it a step computed from a value other threads have since replaced.
RangeKept == \A i \in Thresholds : NoWrap(i) => InRange(i)

\* A size that lies between the range of a threshold and the range of the
\* next goes to the tier between them, wherever the thresholds are while the
\* loop of get_kind passes them.
SizesPlaced ==
  (\A i \in Thresholds : NoWrap(i)) =>
     \A t \in Threads, tier \in 1..Len(memory.thres) + 1 :
        (/\ pc[t] = "count" /\ loc[t].i # 0
         /\ tier > 1 => memory.thres[tier - 1].max =< loc[t].size
         /\ tier \in Thresholds => loc[t].size < memory.thres[tier].min)
        => loc[t].i = tier

\* While no two calls are in update_config at a time the tiers are compared
\* in every check_cnt-th call.
CheckedEvery == (~Building /\ ~raced /\ memory.init_check_cnt > 0) =>
                   since < memory.init_check_cnt

TypeOK ==
  /\ builder.check_cnt \in Nat /\ builder.thres \in Seq([min : Nat, val : Nat, max : Nat])
  /\ Len(builder.thres) = (IF Tiers = 0 THEN 0 ELSE Tiers - 1)
  /\ Building \/ /\ Len(memory.thres) = Tiers - 1
                 /\ \A i \in Thresholds : memory.thres[i].val \in Nat
                 /\ memory.check_cnt \in Nat
  /\ \A t \in Threads : pc[t] \in {"measure", "scale", "move", "store"} =>
                           loc[t].i \in Thresholds /\ loc[t].new \in 0..Word - 1
=============================================================================
