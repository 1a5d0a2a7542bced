--------------------------- MODULE MemtierCounters ---------------------------
(***************************************************************************)
(* The allocation counters of memkind_memtier.c and the static ratio       *)
(* policy that reads them.  An operation adds its size to the counter of   *)
(* the thread's bucket (t_alloc_size); a bucket that is not empty is       *)
(* flushed at once (FLUSH_THRESHOLD is 0): exchanged with zero, then added *)
(* to the kind's counter and to the total (g_alloc_size).  Every access of *)
(* an atomic variable is one action; threads share buckets, because a      *)
(* bucket is a hash of the thread.                                         *)
(*                                                                         *)
(* Kinds are their partition numbers.  owned is the heap as the            *)
(* application knows it: how many blocks of a kind and a usable size it    *)
(* may pass to memtier_free or memtier_realloc.                            *)
(***************************************************************************)
EXTENDS Integers, Sequences, FiniteSets, FiniteSetsExt, Functions

CONSTANTS Threads,
          ThreadBuckets,      \* THREAD_BUCKETS
          BucketOf,           \* t_hash_64 of a thread
          Cfg, Ratio,         \* the tiers of the memory: kinds and ratios
          PmemKinds,          \* those of the kinds that are file-backed
          HotTierId,          \* g_hotTierId, used as an index of g_alloc_size
          Sizes,              \* usable sizes
          Calls,              \* the calls the threads make
          Failures,           \* whether memkind_malloc and memkind_realloc may fail
          MaxOps,             \* bound on them
          Word                \* size_t counts modulo Word

Buckets == 0..ThreadBuckets - 1
Kinds == {Cfg[i] : i \in 1..Len(Cfg)}
TOTAL == -1                   \* MEMKIND_TOTAL_IDX
Counters == Kinds \cup {HotTierId, TOTAL}

ASSUME CfgAssumption == /\ Cfg \in Seq(Nat) /\ Cfg # <<>>
                        /\ Ratio \in [1..Len(Cfg) -> Nat \ {0}]
ASSUME BucketAssumption == ThreadBuckets \in Nat /\ BucketOf \in [Threads -> Buckets]
ASSUME HotAssumption == HotTierId \in Nat
ASSUME SizeAssumption == Sizes \subseteq Nat \ {0}
ASSUME PmemAssumption == PmemKinds \subseteq Kinds
ASSUME CallAssumption == /\ Calls \subseteq {"malloc", "free", "realloc", "query", "destroy"}
                         /\ Failures \in BOOLEAN
ASSUME WordAssumption == Word \in Nat \ {0} /\ MaxOps \in Nat
ASSUME FiniteAssumption == IsFiniteSet(Threads) /\ IsFiniteSet(Sizes)

VARIABLES tAlloc,      \* t_alloc_size[kind][bucket], signed
          gAlloc,      \* g_alloc_size
          gTotal,      \* g_totalSize
          pc, loc,     \* the call of each thread: control and locals
          owned, ops,
          taken,       \* history: per kind, the sizes that failed reallocs left out
          apart        \* history: what the counters of kinds gained without the total

vars == <<tAlloc, gAlloc, gTotal, pc, loc, owned, ops, taken, apart>>

NoBlock == <<>>
NoLocals == [kind |-> 0, size |-> 0, first |-> 0, tier |-> 0, dest |-> 0,
             amount |-> 0, total |-> 0, bucket |-> 0, next |-> "return",
             block |-> NoBlock]

Init == /\ tAlloc = [k \in Kinds |-> [b \in Buckets |-> 0]]
        /\ gAlloc = [c \in Counters |-> 0]
        /\ gTotal = 0
        /\ pc = [t \in Threads |-> "idle"]
        /\ loc = [t \in Threads |-> NoLocals]
        /\ owned = [x \in Kinds \X Sizes |-> 0]
        /\ ops = 0
        /\ taken = [k \in Kinds |-> 0]
        /\ apart = 0

Goto(t, p, l) == pc' = [pc EXCEPT ![t] = p] /\ loc' = [loc EXCEPT ![t] = l]

\* Return to the application, handing over the block of an allocation.
Return(t) == /\ Goto(t, "idle", NoLocals)
             /\ owned' = IF loc[t].block = NoBlock THEN owned
                         ELSE [owned EXCEPT ![loc[t].block] = @ + 1]

\* The end of an increment or decrement: a realloc goes on with memkind_realloc.
Proceed(t) ==
  IF loc[t].next = "return" THEN Return(t)
  ELSE Goto(t, loc[t].next, loc[t]) /\ UNCHANGED owned

Begin(t, c) == c \in Calls /\ pc[t] = "idle" /\ ops < MaxOps /\ ops' = ops + 1

\* memtier_kind_malloc (memtier_kind_calloc and _posix_memalign do the same):
\* what is counted is the usable size, 0 of NULL.
Allocate(t, k, s) ==
  \/ Goto(t, "increment", [NoLocals EXCEPT !.kind = k, !.size = s, !.block = <<k, s>>])
  \/ Failures /\ Goto(t, "increment", [NoLocals EXCEPT !.kind = k])

-----------------------------------------------------------------------------
\* Mutants: plausible mistakes in the code.

\* The flush loads the bucket instead of exchanging it with zero.
ExchangeLoadOnly(t) ==
  /\ pc[t] = "exchange"
  /\ LET k == loc[t].kind
     IN  Goto(t, "addKind", [loc[t] EXCEPT !.amount = tAlloc[k][BucketOf[t]]])
  /\ UNCHANGED <<tAlloc, gAlloc, gTotal, owned, ops, taken, apart>>

\* A bucket that an increment brings back above zero only is flushed.
DecrementNeverFlushes(t) ==
  /\ pc[t] = "decrement"
  /\ tAlloc' = [tAlloc EXCEPT ![loc[t].kind][BucketOf[t]] = @ - loc[t].size]
  /\ Proceed(t)
  /\ UNCHANGED <<gAlloc, gTotal, ops, taken, apart>>

\* The flush forgets the total.
AddKindOnly(t) ==
  /\ pc[t] = "addKind"
  /\ gAlloc' = [gAlloc EXCEPT ![loc[t].kind] = (@ + loc[t].amount) % Word]
  /\ Proceed(t)
  /\ UNCHANGED <<tAlloc, gTotal, ops, taken, apart>>

\* The policy compares the wrong way round.
ReadTierReversed(t) ==
  /\ pc[t] = "readTier"
  /\ LET i == loc[t].tier
         dest == IF gAlloc[Cfg[i]] * Ratio[1] > loc[t].first * Ratio[i]
                 THEN i ELSE loc[t].dest
     IN  IF i < Len(Cfg)
         THEN Goto(t, "readTier", [loc[t] EXCEPT !.tier = i + 1, !.dest = dest])
         ELSE Allocate(t, Cfg[dest], loc[t].size)
  /\ UNCHANGED <<tAlloc, gAlloc, gTotal, owned, ops, taken, apart>>

-----------------------------------------------------------------------------
\* memtier_malloc: memtier_policy_static_ratio_get_kind reads the counter of
\* the first tier, then of each other tier in turn; the last tier that has
\* less than its share is chosen, the first tier if none has.  With one tier
\* memtier_single_get_kind reads nothing.
Malloc(t) ==
  /\ Begin(t, "malloc")
  /\ \E s \in Sizes :
        IF Len(Cfg) = 1
        THEN Allocate(t, Cfg[1], s)
        ELSE Goto(t, "readFirst", [NoLocals EXCEPT !.size = s])
  /\ UNCHANGED <<tAlloc, gAlloc, gTotal, owned, taken, apart>>

ReadFirst(t) ==
  /\ pc[t] = "readFirst"
  /\ Goto(t, "readTier", [loc[t] EXCEPT !.first = gAlloc[Cfg[1]], !.tier = 2, !.dest = 1])
  /\ UNCHANGED <<tAlloc, gAlloc, gTotal, owned, ops, taken, apart>>

\* kind_ratio of tier i is Ratio[1] / Ratio[i]; after the last tier
\* memkind_malloc allocates in the tier chosen.
ReadTier(t) ==
  /\ pc[t] = "readTier"
  /\ LET i == loc[t].tier
         dest == IF gAlloc[Cfg[i]] * Ratio[1] < loc[t].first * Ratio[i]
                 THEN i ELSE loc[t].dest
     IN  IF i < Len(Cfg)
         THEN Goto(t, "readTier", [loc[t] EXCEPT !.tier = i + 1, !.dest = dest])
         ELSE Allocate(t, Cfg[dest], loc[t].size)
  /\ UNCHANGED <<tAlloc, gAlloc, gTotal, owned, ops, taken, apart>>

\* memtier_kind_free: the counters first, then memkind_free.
Free(t) ==
  /\ Begin(t, "free")
  /\ \E k \in Kinds, s \in Sizes :
        /\ owned[<<k, s>>] > 0
        /\ owned' = [owned EXCEPT ![<<k, s>>] = @ - 1]
        /\ Goto(t, "decrement", [NoLocals EXCEPT !.kind = k, !.size = s])
  /\ UNCHANGED <<tAlloc, gAlloc, gTotal, taken, apart>>

\* memtier_kind_realloc: the old size is taken off, memkind_realloc changes the
\* block within its kind, the new size is added.
Realloc(t) ==
  /\ Begin(t, "realloc")
  /\ \E k \in Kinds, s \in Sizes, n \in Sizes :
        /\ owned[<<k, s>>] > 0
        /\ owned' = [owned EXCEPT ![<<k, s>>] = @ - 1]
        /\ Goto(t, "decrement", [NoLocals EXCEPT !.kind = k, !.size = s,
                                   !.next = "realloc", !.block = <<k, n>>])
  /\ UNCHANGED <<tAlloc, gAlloc, gTotal, taken, apart>>

Reallocate(t) ==
  /\ pc[t] = "realloc"
  /\ Goto(t, "increment", [loc[t] EXCEPT !.size = loc[t].block[2], !.next = "return"])
  /\ UNCHANGED <<tAlloc, gAlloc, gTotal, owned, ops, taken, apart>>

\* memkind_realloc returns NULL: the old block lives on, nothing is added.
ReallocFails(t) ==
  /\ Failures /\ pc[t] = "realloc"
  /\ Goto(t, "increment", [loc[t] EXCEPT !.block = <<loc[t].kind, loc[t].size>>,
                                         !.size = 0, !.next = "return"])
  /\ UNCHANGED <<tAlloc, gAlloc, gTotal, owned, ops, taken, apart>>

\* increment_alloc_size: old_talloc + size is computed in size_t, so every
\* value but zero is above FLUSH_THRESHOLD.
Increment(t) ==
  /\ pc[t] = "increment"
  /\ LET k == loc[t].kind
         b == BucketOf[t]
         new == tAlloc[k][b] + loc[t].size
     IN  /\ tAlloc' = [tAlloc EXCEPT ![k][b] = new]
         /\ taken' = IF loc[t].block = NoBlock THEN taken
                     ELSE [taken EXCEPT ![k] = @ + (loc[t].block[2] - loc[t].size)]
         /\ IF new # 0 THEN Goto(t, "exchange", loc[t]) /\ UNCHANGED owned
                       ELSE Proceed(t)
  /\ UNCHANGED <<gAlloc, gTotal, ops, apart>>

\* decrement_alloc_size: signed, flushed below zero only.
Decrement(t) ==
  /\ pc[t] = "decrement"
  /\ LET k == loc[t].kind
         b == BucketOf[t]
         new == tAlloc[k][b] - loc[t].size
     IN  /\ tAlloc' = [tAlloc EXCEPT ![k][b] = new]
         /\ IF new < 0 THEN Goto(t, "exchange", loc[t]) /\ UNCHANGED owned
                       ELSE Proceed(t)
  /\ UNCHANGED <<gAlloc, gTotal, ops, taken, apart>>

\* apply_temporary_buffer_alloc_size.
Exchange(t) ==
  /\ pc[t] = "exchange"
  /\ LET k == loc[t].kind
         b == BucketOf[t]
     IN  /\ tAlloc' = [tAlloc EXCEPT ![k][b] = 0]
         /\ Goto(t, "addKind", [loc[t] EXCEPT !.amount = tAlloc[k][b]])
  /\ UNCHANGED <<gAlloc, gTotal, owned, ops, taken, apart>>

AddKind(t) ==
  /\ pc[t] = "addKind"
  /\ gAlloc' = [gAlloc EXCEPT ![loc[t].kind] = (@ + loc[t].amount) % Word]
  /\ Goto(t, "addTotal", loc[t])
  /\ UNCHANGED <<tAlloc, gTotal, owned, ops, taken, apart>>

AddTotal(t) ==
  /\ pc[t] = "addTotal"
  /\ LET total == (gAlloc[TOTAL] + loc[t].amount) % Word
     IN  /\ gAlloc' = [gAlloc EXCEPT ![TOTAL] = total]
         /\ Goto(t, "readHot", [loc[t] EXCEPT !.amount = 0, !.total = total])
  /\ UNCHANGED <<tAlloc, gTotal, owned, ops, taken, apart>>

\* update_actual_ratios: a hot tier larger than the total replaces it.
ReadHot(t) ==
  /\ pc[t] = "readHot"
  /\ LET hot == gAlloc[HotTierId]
     IN  Goto(t, "publish", [loc[t] EXCEPT !.total = IF hot > @ THEN hot ELSE @])
  /\ UNCHANGED <<tAlloc, gAlloc, gTotal, owned, ops, taken, apart>>

\* g_totalSize, and with it the actual ratio, for tachanka.
Publish(t) ==
  /\ pc[t] = "publish"
  /\ gTotal' = loc[t].total
  /\ Proceed(t)
  /\ UNCHANGED <<tAlloc, gAlloc, ops, taken, apart>>

\* memtier_kind_allocated_size empties the buckets of a kind one by one, and
\* adds what it found to the kind's counter (not to the total).
Query(t) ==
  /\ Begin(t, "query")
  /\ \E k \in Kinds : Goto(t, "sum", [NoLocals EXCEPT !.kind = k])
  /\ UNCHANGED <<tAlloc, gAlloc, gTotal, owned, taken, apart>>

SumBucket(t) ==
  /\ pc[t] = "sum" /\ loc[t].bucket < ThreadBuckets
  /\ LET k == loc[t].kind
         b == loc[t].bucket
     IN  /\ tAlloc' = [tAlloc EXCEPT ![k][b] = 0]
         /\ Goto(t, "sum", [loc[t] EXCEPT !.amount = @ + tAlloc[k][b], !.bucket = b + 1])
  /\ UNCHANGED <<gAlloc, gTotal, owned, ops, taken, apart>>

AddSum(t) ==
  /\ pc[t] = "sum" /\ loc[t].bucket >= ThreadBuckets
  /\ gAlloc' = [gAlloc EXCEPT ![loc[t].kind] = (@ + loc[t].amount) % Word]
  /\ apart' = apart + loc[t].amount
  /\ Return(t)
  /\ UNCHANGED <<tAlloc, gTotal, ops, taken>>

\* memkind_pmem_destroy calls memtier_reset_size: the buckets of the kind and its
\* counter are zeroed, the total is not; the blocks of the kind are gone.  The
\* memory was deleted, so no policy is reading, and no call is at work on the
\* kind: nobody sees the stores one by one.  A kind created and a memory built
\* afterwards get the partition and the counters again.
PmemDestroy(t) ==
  /\ Begin(t, "destroy")
  /\ \A u \in Threads : pc[u] \notin {"readFirst", "readTier"}
  /\ \E k \in PmemKinds :
        /\ \A u \in Threads : pc[u] # "idle" => loc[u].kind # k
        /\ tAlloc' = [tAlloc EXCEPT ![k] = [b \in Buckets |-> 0]]
        /\ gAlloc' = [gAlloc EXCEPT ![k] = 0]
        /\ owned' = [x \in Kinds \X Sizes |-> IF x[1] = k THEN 0 ELSE owned[x]]
        /\ taken' = [taken EXCEPT ![k] = 0]
        /\ apart' = apart - gAlloc[k]
  /\ UNCHANGED <<gTotal, pc, loc>>

Next == \E t \in Threads :
           \/ Malloc(t) \/ ReadFirst(t) \/ ReadTier(t)
           \/ Free(t) \/ Realloc(t) \/ Reallocate(t) \/ ReallocFails(t)
           \/ Increment(t) \/ Decrement(t)
           \/ Exchange(t) \/ AddKind(t) \/ AddTotal(t) \/ ReadHot(t) \/ Publish(t)
           \/ Query(t) \/ SumBucket(t) \/ AddSum(t) \/ PmemDestroy(t)

Spec == Init /\ [][Next]_vars
-----------------------------------------------------------------------------
\* What the counters are compared with: sums over the buckets, the blocks and
\* the threads.
Bucketed(k) == SumFunction(tAlloc[k])
LiveSize(k) == SumFunction([s \in Sizes |-> s * owned[<<k, s>>]])

\* What a thread has taken from the buckets of kind k and not yet added to the
\* counter of the kind.
Carries(t, k) == IF pc[t] \in {"addKind", "sum"} /\ loc[t].kind = k THEN loc[t].amount ELSE 0
Carried(k) == SumFunction([t \in Threads |-> Carries(t, k)])

\* The block that is counted and not owned: its malloc or realloc has not
\* returned, or its free has not come to the counters.
Flushing == {"exchange", "addKind", "addTotal", "readHot", "publish"}
Holds(t, k) ==
  IF /\ pc[t] \in Flushing /\ loc[t].kind = k
     /\ loc[t].next = "return" /\ loc[t].block # NoBlock
  THEN loc[t].block[2]
  ELSE IF pc[t] = "decrement" /\ loc[t].kind = k THEN loc[t].size ELSE 0
Counted(k) == LiveSize(k) + SumFunction([t \in Threads |-> Holds(t, k)])

Quiet == \A t \in Threads : pc[t] = "idle"

\* The locals of a call, with what holds of them where they are used.
Locals == [kind : Nat, size : Nat, first : Nat, tier : Nat, dest : Nat, amount : Int,
           total : Nat, bucket : Nat, next : {"return", "realloc"},
           block : {NoBlock} \cup (Kinds \X Sizes)]
LocalsOK(t) ==
  /\ pc[t] \in {"readFirst", "readTier"} => loc[t].size \in Sizes
  /\ pc[t] = "readFirst" => Len(Cfg) > 1
  /\ pc[t] = "readTier" => loc[t].tier \in 2..Len(Cfg) /\ loc[t].dest \in 1..Len(Cfg)
  /\ pc[t] \notin {"idle", "readFirst", "readTier"} => loc[t].kind \in Kinds
  /\ pc[t] \notin {"readFirst", "readTier"} /\ loc[t].next = "realloc"
       => loc[t].size \in Sizes /\ loc[t].block # NoBlock
  /\ pc[t] = "realloc" => loc[t].next = "realloc"
  /\ pc[t] \in {"readHot", "publish"} => loc[t].total < Word
  /\ pc[t] = "increment" /\ loc[t].block # NoBlock => loc[t].size =< loc[t].block[2]

\* Types: the counters are size_t and never leave it, and every call works on
\* a kind of the memory, with the block it was given.
TypeOK ==
  /\ tAlloc \in [Kinds -> [Buckets -> Int]]
  /\ gAlloc \in [Counters -> 0..Word - 1] /\ gTotal \in 0..Word - 1
  /\ owned \in [Kinds \X Sizes -> Nat] /\ ops \in 0..MaxOps
  /\ taken \in [Kinds -> Nat]
  /\ pc \in [Threads -> Flushing \cup {"idle", "readFirst", "readTier", "realloc",
                                       "increment", "decrement", "sum"}]
  /\ loc \in [Threads -> Locals]
  /\ \A t \in Threads : LocalsOK(t)

\* No size is stranded in a bucket: a bucket that is not empty has a thread on
\* its way to flush it, although decrement_alloc_size leaves a positive bucket
\* to others and memtier_kind_allocated_size empties buckets in passing.
NothingStranded ==
  \A k \in Kinds, b \in Buckets :
     tAlloc[k][b] # 0 => \E t \in Threads : /\ pc[t] = "exchange"
                                           /\ loc[t].kind = k /\ BucketOf[t] = b

\* Nothing is counted twice or lost on the way from a bucket to the counter of
\* its kind, however the flushes of several threads interleave.  A realloc
\* that fails is the one leak: it takes off the size of a block that lives on.
KindConserved ==
  \A k \in Kinds : (gAlloc[k] + Bucketed(k) + Carried(k) + taken[k]) % Word
                      = Counted(k) % Word

\* Between calls the total is the sum of the kinds, except for two things that
\* part them for good: memtier_kind_allocated_size adds what it found in the
\* buckets to the kind and never to the total, and memtier_reset_size takes the
\* counter of a destroyed kind, and not the total, back to zero.
TotalConserved ==
  Quiet => (gAlloc[TOTAL] + apart) % Word = SumFunctionOnSet(gAlloc, Kinds) % Word

\* The static ratio policy: while blocks are only allocated (every call so far
\* returned a block that is still owned), no tier gets ahead
\* of its share by more than the blocks the counters may lag behind by.  A
\* thread delayed in a flush holds its own block and one of each thread that
\* shares its bucket and is still running, so with n threads that is
\* n + (n - 1) + ... + 1 blocks.
OnlyMallocs == Quiet /\ ops = SumFunction(owned)
Largest == Max(Sizes)
RatioKept ==
  OnlyMallocs => \A i \in 2..Len(Cfg) :
     LET here == LiveSize(Cfg[i]) * Ratio[1]
         there == LiveSize(Cfg[1]) * Ratio[i]
         n == Cardinality(Threads)
         slack == ((n * (n + 1)) \div 2) * Largest
     IN  /\ here =< there + slack * Ratio[1]
         /\ there =< here + slack * Ratio[i]
=============================================================================
