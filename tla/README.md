# Formal models of memkind's memory tiering

memkind is a heap manager that lets a program choose the kind of memory an
allocation lives in. This repository adds a *hotness* policy on top of it: a
tiered memory (`memtier`) that places an allocation in DRAM or in persistent
memory according to how often allocations of the same *type* (the same call
stack) are accessed. The modules here model that tiering stack, because it is
where the program's own concurrency is: threads that allocate, a thread that
reads hardware samples, and shared structures without locks between them.

All paths below are relative to `src/`.

## How the system works

```
 application threads                                  PEBS thread (pebs.c)
 memtier_malloc / calloc / realloc / free             every period:
   policy chooses a kind  <---- hotness, threshold ---  pop up to N events
   memkind_* allocates or releases                        register / unregister
   counters are updated                                   in tachanka and ranking
   an event is pushed  ---> lockless queue -------->    read samples, touch types
                                                        update the threshold
```

An allocating thread never changes the tracker. It pushes an event
(`EVENT_CREATE_ADD`, `EVENT_DESTROY_REMOVE`, `EVENT_REALLOC`) into a bounded
queue, and goes on; a full queue loses the event. The PEBS thread is the only
one that pops. It keeps a map of blocks and a map of types (tachanka), and a
ranking of types by hotness (a tree of sizes). The elements of those maps come
from slab allocators on top of `bigary`, an array that grows in place.
Separately, every call updates counters of what each kind holds, which the
static ratio policy and the hotness policy read.

## Inventory

| Part | State | Operations | Interacts through | What is hard | What makes it correct | Module |
|---|---|---|---|---|---|---|
| Event queue: `src/lockless_srmw_queue.c`, `src/ranking_queue.c` | entries with a state, `head`, `tail`, `used`, `unavailableRead` | `lq_push`, `lq_pop` | atomics; many writers, one reader | out-of-order publication, rollback of the head, reservations that fail | FIFO per claim order, nothing lost or shared, counters exact, pushes return | `LocklessQueue` |
| Slab allocator and bigary: `src/slab_allocator.c`, `src/bigary.c` | free list, `used`, `top`, mapping, mutex | malloc, free, init, destroy, `bigary_alloc` | atomics, one mutex, mmap | lock-free list, double-checked `top` | an element has one holder, memory is mapped before it is used, exit only when full | `SlabAllocator` |
| Tachanka: `src/tachanka.c` | types, blocks (two critnibs) | register, unregister, touch, readers | called by the PEBS thread; readers in every thread | lost and late events, reused addresses | counters of a type are those of its blocks | `Tachanka`, `HotnessPipeline` |
| Ranking: `src/ranking.cpp` | size per hotness, threshold | add, remove, touch, threshold | called by tachanka | sizes removed must have been added | the weight at a hotness is that of its types | `Tachanka`, `WreTree` |
| PEBS thread: `src/pebs.c` | cycle, batch, `last_head`; thread state, fd and ring of a process | pop, handle, sample, sleep; start, stop, fork | queue, tachanka, kernel ring, globals | cut-off batches, records that arrive at the end of a cycle, fork, stop | one monitor per process, no sample lost, stop returns, events are taken | `HotnessPipeline` (cycle), `PebsLifecycle` (life) |
| Memtier calls: `src/memkind_memtier.c` | heap, events on their way | malloc, calloc, realloc, posix_memalign, free | allocator, queue | order of heap change and push | the tracker sees an address change hands in order | `HotnessPipeline` |
| Counters, static ratio: `src/memkind_memtier.c` | buckets per thread hash, counters, total | increment, decrement, flush, query, get_kind | atomics | shared buckets, mixed signedness | nothing lost or stranded, ratio kept | `MemtierCounters` |
| Dynamic threshold policy and builder: `src/memkind_memtier.c` | tiers, thresholds, check counter | add_tier, ctl_set, construct; get_kind, update_config | counters; nothing is locked | unsynchronised counter and thresholds, size_t wrap | thresholds stay in [min, max], sizes go to their tier, tiers are compared every check_cnt calls | `DynamicThreshold` |
| AVL tree: `src/wre_avl_tree.c` | tree with subtree weights | put, remove, find by weight, interpolate | called by the ranking | rebalancing with weights, ends of ranges | the bag of sizes; balanced; the entry found covers the ratio | `WreTree` |
| Critnib: `src/critnib.c` | trie, deferred and pooled elements, `remove_count` | insert, remove, get, find_le, find | mutex for writers, none for readers | readers in removed and recycled nodes | an answer of the time of the call; no element lost | `Critnib` |
| Preload library: `tiering/memtier.c` | `current_memory` | constructor, destructor, fork | pebs, memtier | fork, exit | as the PEBS thread | `PebsLifecycle` |
| Kind registry: `src/memkind.c`; arenas: `src/memkind_arena.c`; files: `src/memkind_pmem.c` | `partition_map`, `num_kind`; `arena_registry_g`; descriptors | create, destroy, finalize; create_map, destroy; create_tmpfile, recreate_file | two mutexes; jemalloc | half-failed creation, holes, recycled numbers | live kinds have their own slot, partition, arenas and file | `KindRegistry` |
| Ranking controller: `src/ranking_controller.c` | integrated error | one formula | ranking | doubles | | not modelled |
| NUMA and huge page kinds; heap manager; hbwmalloc; bthash; heatmap; logging; autohbw | tables and values fixed at start | wrappers | libnuma, hwloc, mmap, jemalloc | none of their own | | not modelled |

`PROJECT.json` lists them all with their status, and under `hazards` what is
hard to test in each, at its line.

## The modules

**`EventChannel`** is what the queue promises: a channel in which a send first
takes one of `Size` places and later becomes ready, and which is read in the
order in which the places were taken.

**`LocklessQueue`** is the queue, one action per atomic access. A writer's
control is `reserve`, `load_tail`, `cas_tail`, `check`, `copy`, `publish`,
`post` (`lq_reserve_write` ... `lq_post_entry_write`), the reader's the
corresponding path with `rollback`. A weak compare-exchange that fails, for a
real or a spurious reason, is an action of its own. The `assert` in
`lq_request_entry_write` is the flag of `NoReadOutOfOrder`. The refinement
mapping into `EventChannel` uses two history variables: the order in which
writers won the tail, and how much of it was delivered.

**`ElementPool`** is what a slab promises: elements handed out, each to one
caller. **`SlabAllocator`** implements it: the free list's pop (load, read next,
compare-exchange) and push, `slab_alloc_fetch_increment_used_`, and
`bigary_alloc` with its check outside the mutex, the check inside, mmap and the
new `top` as steps. `die()` ends the run. `SerialMalloc` says whether mallocs
of one slab are serialised, which is how tachanka uses it.

**`Tachanka`** has the tracker as operators on a record: types, blocks, size per
hotness, and a fault flag for the assertion and the wrap in `ranking.cpp`.
Sizes are kept modulo `SizeModulus`, as a `size_t` would. A touch moves a type
to an arbitrary hotness: the floating point formula is not modelled, so the
results hold for every value that it may give.

**`HotnessPipeline`** composes the heap, the calls of the threads, the queue (as
`EventChannel` promises it, with a bound), and the PEBS thread that runs the
operators of `Tachanka`. A call is split where the code can be interleaved
with others: between the change of the heap and the push of the event. The
order of the two is the code's: `memtier_kind_free` pushes first and releases
after; `memtier_kind_realloc` releases the old address first. The sums its
properties speak of are `SumFunctionOnSet` sums, as in `MemtierCounters`.

**`MemtierCounters`** has the counters with one action per atomic access, the
static ratio policy, failed allocations and reallocations,
`memtier_kind_allocated_size`, and the destruction of a file-backed kind
(`PmemDestroy`), which is where `memtier_reset_size` is called: it zeroes the
buckets and the counter of the kind, and not the total. The history `apart` is
what the total and the counters have come to differ by, through queries and
resets. What the properties add up are `SumFunctionOnSet` sums of the community
modules.

**`Critnib`** is the trie with one writer at a time (the mutex) and readers that
take no lock. Every load and store another thread can observe is a step: a
remove raises `remove_count`, recycles what was removed `DELETED_LIFE` removals
ago, cuts the leaf off and collapses its node in four steps, a query loads one
pointer at a time and keeps the open frames of `find_le`'s recursion in a
sequence. `find_predecessor` tests a child and then loads it again to go down:
two steps (`FindOutermost`, `Descend`), and when the second load gives NULL the
dereference ends the process (`fault`). The history variable `window` collects the maps that were current
during a query, which is what the guarantees speak of. `find_le` and `find_ge`
mirror each other and are one set of actions with a direction.

**`RankingBag`** is what the ranking needs of its tree: a size per hotness.
**`WreTree`** implements it: rotations, `balance_upwards`, the three ways in
which `wre_remove` replaces a node, the search by weight and the two entries a
threshold is interpolated between, as operators on a record of nodes. Rotations and
neighbour searches that mirror each other are one operator with a side. The
assertions of the code are collected in a flag. One thread uses the tree, so a
call of the ranking is one step; ratios are exact fractions.

**`PebsLifecycle`** has processes with their globals (`thread_state`,
`pebs_thread`, `pebs_fd`, `pebs_mmap`, the queue), the monitors they start, and
the kernel's ring of samples. A fork copies the globals and no thread. `pebs_init` exits
when libpfm cannot be initialised (`PfmFails`). The
history `past` of a process records what voids a guarantee: a fork in a process
that preloads the library (also in its child, when that gets a monitor although
it has no hot memory), and a second hot memory made while one exists.

**`KindRegistry`** composes three registries whose numbers depend on each other:
slots and partitions of kinds, arena indices that jemalloc recycles last in
first out (`jemalloc/src/ctl.c`), and file descriptors, from which the names of
kinds are made and which the operating system gives out. What
the code does under a lock is one step; opening, closing and replacing a file
are steps of their own. A kind whose directory name cannot be allocated is
created all the same, with its file closed, as in the code.

**`DynamicThreshold`** has the builder (`AddTier`, `Ctl*`, `Construct`) and the
calls of threads on the memory it makes, with every access to
`thres_check_cnt`, `val` and `current_ratio_diff` a step: none of them is atomic
or locked. What the tiers hold is an input of `Measure`.

`*Proofs` modules hold the theorems about the module they are named after, with
the lemmas they rest on.
`MC*` modules give the constants of the runs. Operators in the sections headed
*Mutants* are mistakes that a change to the code could make; replacing the
definition they follow by them must break the property named in `PROJECT.json`.

## Runs

| Run | Instance | What it checks |
|---|---|---|
| `queue_fifo` | 2 writers with 3 pushes each, 2 entries | exclusive entries, program order, exact `unavailableRead`, the assertion; the queue implements `EventChannel`; pushes return and events are delivered |
| `slab_freelist` | 3 threads, 3 elements that straddle pages, re-initialisation | list never cut, mapped before use, exits only past the maximum, implements `ElementPool` |
| `pipeline_tracker` | 2 threads, 2 tiers, 2 addresses, 4 calls with reallocs and failures, 2 touches, 4 queue entries | while no event was lost or overtaken: ranking exact, tracker equals heap when quiet; always: counters cover the blocks, a touch conserves the ranked size |
| `pipeline_realloc_race` | 2 threads, nothing lost | **violation**: the assertion of `ranking_remove_internal_relaxed`, from the order of release and push in realloc |
| `counters_calls` | 2 threads on 1 of 2 buckets, tiers at 2:1, one of them file-backed, 5 calls of all sorts, failures | nothing lost, counted twice or stranded; the total differs from the kinds by exactly what calls carry, queries drained and destructions reset; mallocs keep the ratio within the lag of the counters |
| `critnib` | 3 keys of 2 slices, 5 writes, 1 reader that asks for equal, below or above, `DELETED_LIFE` 2 | the tree is the map, no element lost or in two places, `get` is current, a search returns an entry of its time and, unless removals overlap it, none that was there throughout is nearer; it dereferences NULL only if the map changed under it |
| `wre_tree` | 7 hotnesses, weights up to 2, 5 ratios | sound after every call, implements `RankingBag`, the entry found covers the ratio |
| `wre_end_assertion` | 3 hotnesses, ratio 1/2 | **violation**: "right_node exists - error in code!" |
| `pebs_lifecycle` | 2 processes, 2 monitors, 3 calls, 2 samples, ring and queue of one | one monitor unless forked, no access to an unmapped ring, no record skipped or overwritten but at the end of a cycle, `pebs_fini` returns, events are taken |
| `pebs_fork` | the same, 2 calls | **violation**: a forking parent has two monitors |
| `registry` | 2 threads, 1 static and up to 3 other kinds, 6 arenas, 5 descriptors, 6 calls, creations that are refused, fail half way or end without a directory name | the registry holds the live kinds, partitions are unique while the youngest is destroyed first, every arena has one owner, and so has the open file of every completed kind |
| `threshold` | 2 threads, 3 tiers, wrap at a small word, settings that collide | thresholds in range unless the arithmetic wraps, sizes placed, tiers compared in time |

Each property is conditional on what the code really guarantees, and the
condition is a history variable or a predicate on the configuration that the
run makes both true and false: the cases outside it are the findings and
hazards below.

Why the bounds are enough. The queue needs more pushes than entries so that the
ring wraps and reservations fail, a second writer so that publication is out of
order, and a reader that reserves before the first entry is ready; the
instance has all of it, and the theorems remove the bound. In the slab, three
elements and three threads give a pop against two pushes, and pages of a size
that does not divide by that of an element give straddling. In the pipeline,
four calls are enough for an address to be freed, reused and freed again while
an event about its first life is in the queue; two hotnesses are enough to move
a type away and back; the batch limit is below the number of events. In
critnib, five writes let a leaf be removed, recycled and filled again during a
query (`DELETED_LIFE` is 2 instead of 16: what matters is that it can be
exceeded), and three keys over two slices give a collapsed link and a node that
is split and collapsed. Seven hotnesses are the smallest number that gives
trees of height 3 with every double rotation and every case of a removal. For
the life cycle, two monitors in two processes are enough for a restart, a fork
and a start that fails; a ring of one record is full at once. In the registry,
four slots and recycled descriptors are enough for two kinds of one name, and
six arenas for a creation that fails half way. A shared
bucket with two threads has every order of two flushes; the second bucket is
there for the loop of the query. `MaxOps`, `MaxTouches` and `MaxPush` bound the
length of a history, `QueueSize` is the ring's size, and `SizeModulus` and
`Word` stand for 2^64: all sizes that occur are far below, so a value near the
modulus is a wrap below zero.

Deadlock is checked in `queue_fifo`, `slab_freelist` and `wre_tree`; in the others a failed
assertion stops the process or the bounded calls are simply over.

## Fairness

`queue_fifo` assumes that a writer inside `lq_push` and the reader, which polls
in the PEBS loop, keep taking steps, and that a compare-exchange that is tried
again and again in states where it can succeed does succeed
(`SF` of `CasTail` and `CasHead`): a weak compare-exchange may fail spuriously,
not for ever. Nothing is assumed of an idle writer. `pebs_lifecycle` assumes
that a monitor keeps running (it sleeps at most one period per cycle), and that
a thread inside `pebs_fini` or `fork` goes on once it can; nothing is assumed of
samples, of pushes or of the calls of the application.

## Theorems

TLAPS proves the following for every value of the constants.

*Queue* (`LocklessQueueProofs`; assumes a finite set of writers and a ring of
at least one entry). `RingInvariance` is the inductive invariant `RingInv`.
None of the properties is inductive alone: that the slot a writer wins is free
depends on `used` counting every position between the oldest unread entry and the tail
(`RingSpan`, `UsedAccounting`), which depends on which writers are between
reservation and claim (`WriterSlots`), on what each slot holds
(`SlotContents`), and on the reader being at most one position ahead of what it delivered
(`DeliveredPrefix`). From it follow `AssertionHolds` (the code's assertion
cannot fail with one reader), `MutualExclusion`, `ProgramOrder`,
`UnavailableReadExact`, and `Refinement`: every step is a step of
`EventChannel` or a stutter.

*Slab* (`SlabAllocatorProofs`; under `SafeUse`: mallocs of a slab are
serialised, or nothing is freed, which is how tachanka uses its slabs).
`SlabInvariance` proves `SlabInv`: an element has one place (`PlaceInv`), the
links follow the list (`ListIntact`), a pop that has read the successor of a
head still listed has the right one (`PopInv`, where serialised mallocs are needed), and
what holds between bigary's check, its mapping and its new top (`GrowInv`).
`PoolRefinement`, `FreeListIntact`, `ElementsAccounted`, `MappedFirst`,
`BigaryGrows` and `EnoughElements` follow.

*Counters* (`MemtierCountersProofs`; any threads, buckets and tiers).
`TypeCorrect`, with the conditions on the locals of a call in `LocalsOK`
that make it inductive, and `NoSizeStranded`: a bucket that is not empty has a
thread between its addition and its exchange. A decrement that leaves the
bucket positive does not flush it; the proof needs that the bucket was then
positive before, so that by induction somebody else is about to.

`SizesConserved` and `TotalLagsExactly` are the two conservation laws. A bucket
and a thread's locals change by the same amount, modulo the word, so what has
to be shown is that a sum over all buckets (all calls) changes by the change of
one summand: the lemmas about sums prove this for any finite set from the definition
of the fold. The invariants are `CallsKept` (which amounts a call carries at
each of its steps), `Balanced` (the law of a kind, with calls in flight) and
`TotalBehind` (the law of the total: it lags the kinds by what calls still carry
and by `apart`, to which a query adds what it drains and `memtier_reset_size`
adds, with the opposite sign, what it forgets).

*Dynamic threshold* (`DynamicThresholdProofs`; any threads, tiers and settings
the builder accepts). `ThresholdInRange` needs the bounds on the values a thread
holds between its reads (`ThreadRange`): it may compute from a value that another
thread has replaced, but that value was in the range too. `SizeFindsTier`: the
thresholds that `get_kind` has passed are those below the size wherever they
were when it read them (`AllPassed`, with `MaxMonotone` for the ranges of a
configuration that is accepted). `TiersCompared`: as long as no two calls counted at a time
the counter and the calls made since the last comparison add up
(`Counting`, `Countdown`).

*PEBS life cycle* (`PebsLifecycleProofs`; any processes, monitors, ring size
and samples). One invariant, `Inv`, gives `OneMonitor`, `MonitorIsSafe`,
`RecordsAreIntact` and `SamplesAreSeen`: what the thread state says of the
monitors of a process (`ProcOK`), where a monitor can be relative to its
process's ring and queue (`MonitorOK`), which calls own the right to start or
stop one (`OwnOK`), and where the kernel and the reader are in the ring
(`RingOK`). `OneMonitor` was not provable as first stated: a child without hot
memory that `pebs_fork` gave a monitor gets another with its first hot memory,
a case that the history now counts with the others.

*Registries* (`KindRegistryProofs`; any threads, kinds, slots, arenas and
descriptors). `RegistryIsExact`, `PartitionsAreUnique` and `FilesAreOwned` follow
from `Inv`. `num_kind` counts the slots in use even when two kinds have one
name (`SlotsOK`), so there is a hole whenever it is below the maximum; slots and
living kinds correspond one to one while names are unique (`NamesOK`), so that
the slot `memkind_destroy_kind` finds by name is that of its kind; partitions
grow with the age of kinds and lie below `num_kind` (`PartitionsOK`), which only
survives the destruction of the youngest; `FilesOK` is about completed kinds and calls
together, since a descriptor passes from one to the other, and `ReplaceOK`
about the moment at which `memkind_pmem_recreate_file` has closed the old
descriptor and not yet stored the new one. The destruction of a kind without a
directory name closes a number that may be another's, so `FilesAreOwned` ends
there, as it does when two kinds get one name.
`ArenasAreOwned` needs to know which indices jemalloc will give next. They are
recycled one by one, last in first out, and yet `arena_zero` and a length are
all that a kind remembers: `Recycled` says that the indices to recycle consist
of blocks of `arena_map_len` consecutive ones, each of which was the map of one
kind. A block is put there in ascending order (`PutBlock`) and taken off as a
whole, in descending order (`TakeBlock`), which is why the code must look for the
lowest index; a creation that fails half way breaks exactly this.

*Hotness pipeline* (`HotnessPipelineProofs`; any finite set of threads, any types,
addresses, sizes, queue and batch, any number of calls and samples). The
invariant `Inv` has four parts that hold in every execution: the types
(`TypesOK`), the counters that cover the blocks (`Covers`), the calls in progress
that own live blocks, no two the same one (`CallsOwn`), and that a call registers
one block at most (`OneBlockEach`); and two that hold while the history `clean`
says that no event was lost, named NULL or was overtaken: the events are in the order in
which the heap changed hands (`Ordered`) and the tracker is exact (`Exact`).

`CountersCover` follows from `Covers` alone: a block that `register_block` meets
again (EEXIST) is counted and not stored, so counters are too large after a
lost event and never too small. `TouchesConserve` is an action property: the
relaxed removal returns what it took off, and what is added is that, modulo the
word. `QuiescentIsExact` follows from `Ordered`, which says of each address what
the tracker will know of it once the queue is applied: `Gone` when it is not
allocated or about to be released, `Here` when a live block is in no call, and
that no event registers what is registered when its turn comes (`Alternate`).
It is inductive because `memtier_kind_free` pushes before it releases; for a
realloc, which releases first, the event that is still to come has to be counted
(`Departs`), and a block that is given such an address ends `clean`.
`RankingIsExact` needs `Ordered` too, since an event that meets the block of
another one spoils the sums, and it needs that they do not wrap:
`RoomAssumption` says that the largest size times the number of calls is a
`size_t`. `RelaxedRemoveIsSafe` is the converse of finding 1: the assertion
fails only after an event was lost, named NULL or came out of order.
`PipelineTypes` is type correctness, with the disjoint blocks of the heap.

*Critnib* (`CritnibProofs`; any slice width, number of slices, keys, number of
nodes and leaves, `DELETED_LIFE` and readers). `WriterInv` describes what the
mutex protects: a set `T` of elements is the tree (`Tree`: every node has its
path and shift, and what hangs in a slot agrees with both), two lists are the
pools, and the elements handed out are divided between the tree, the deferred
frees, the pools and the hands of the call (`Split`), each in one of the deferred
frees at most (`PendOnce`); the leaves of the tree are the map (`Stored`), but for
what the call that holds the mutex is about to do (`Held`: where its walk
ended, that the node it removes has one child left). The loops of the code are
recursive functions in the model; what they compute is proved with the least
counterexample: a walk by slices ends at the leaf of its key, or where such a
leaf would be (`WalkEnd`, `WalkFinds`), and what is reached level by level is the
tree (`InTreeIsTree`). `TreeHoldsTheMap` and `ElementsStay` follow.

`LookupsAreCurrent` is about a reader without a lock, so it needs what the
reader can have seen. `LookupInv` says that, unless the lookup is already bound
to start over, there is a set `V` of elements (`Sees`) that contains the tree and
everything the lookup holds, that is closed under following pointers, and whose
elements outside the tree were put aside by removals counted since the lookup
started. Those are not recycled yet, since at most `DELETED_LIFE` removals use
as many different places among the deferred frees (`ModApart`): this is where the
code's comparison of the counters is needed, and one removal less would not do.
So every leaf of `V` still has a key and a value that were stored during the call
(`WasStored`). That an absent answer is right too needs the converse: as long as
the key was stored throughout, its slices lead from the root, and from where the
lookup is, to its leaf (`Guided`). A store into a node that the lookup has passed
may take the path elsewhere only if what it replaces and what it puts there
are both on it, which holds for a new node above a leaf, for a collapsed node,
and fails only for the leaf that is removed itself.

What no theorem states. Liveness (`EventuallyDelivered`, `PushReturns`,
`FiniReturns`, `EventsTaken`) is out of the prover's reach. `WreTree` is written
with recursive operators, which the prover cannot use; theorems with an
operator as a parameter (induction schemes) cannot be instantiated either, so
where an argument goes by induction over data it is made with the least
counterexample of a set of numbers (`Least`). `RatioKept` compares
products of unbounded sums, and its slack is checked for two threads.
`FindBounded` is model-checked only: the search by order visits several subtrees,
and its invariant needs paths to all keys of them at once. The attempt to prove
it was worth making, since it showed that a first, stronger form of it was false
on an instance larger than that of the run (see the findings).

## Findings

1. A realloc releases the old address before its event is pushed
   (`src/memkind_memtier.c:1372`); another thread's malloc at that address can be
   queued first, and the tracker ends in the failed assertion at
   `src/ranking.cpp:528`.
2. `fork` in a process that preloads the library starts a second monitor in the
   parent (`src/pebs.c:512`), where the queue and the ranking allow one.
3. Two types of equal size and a desired DRAM ratio of one half are enough for
   `wre_find_weighted_interpolated` to abort (`src/wre_avl_tree.c:696`): a ratio
   at the end of an entry's part is taken for the end of the tree.

Met while modelling, and recorded as hazards:

- `lq_push` may report a full buffer although there is a place, since a failing
  reservation of another writer is counted for a moment
  (`src/lockless_srmw_queue.c:136`).
- The slab's free list is not safe for two threads that malloc
  (`src/slab_allocator.c:47`); the build is safe because of who calls it
  (`SerialMalloc`).
- A lost DESTROY event, whose address is then reused by another type, ends in
  the assertion of finding 1 as well, though the code takes lost events to be
  harmless (`src/pebs.c:309`).
- A failed realloc takes the size of a live block off the counters; a delayed
  thread publishes an old total; the query drains buckets into the counter of
  the kind and not into the total, and `memtier_reset_size`, called when a
  file-backed kind is destroyed (`src/memkind_pmem.c:277`), zeroes the counter of
  the kind and leaves the total.
- `critnib_find_le` promises "Same guarantees as critnib_get()"
  (`src/critnib.c:711`) and does not keep it: with 0 and 1 stored, a `find_le(3)`
  that has passed the empty slot of 2 returns 0 when 2 is inserted and 1 removed
  after that, and 0 was never the answer. Nor is an entry found that is there all
  the time: with 0, 4, 5 and 7 in a trie of 2-bit slices, a `find_le(15)` that is
  in `find_predecessor` of the subtree of 4, 5 and 7 (`src/critnib.c:703`) when
  removals empty that subtree returns NULL, although 0 was stored throughout; with
  fewer than `DELETED_LIFE` removals nothing makes it start over. `FindCurrent`
  states the guarantee, and `tlc -config CritnibFind.cfg MCCritnib` refutes it with
  the first of these histories; `FindBounded` is what holds. A remove between the two
  loads of a child in `find_predecessor` or `find_successor`
  (`src/critnib.c:629` and `635`, `740` and `746`) makes the search dereference
  NULL. The library searches its tries from one thread only.
- The neighbour of an entry is looked for beside the ancestors of its node and
  never in them (`src/wre_avl_tree.c:377`): a colder entry can be skipped, or not
  found at all, where the comment says "no nodes to right"
  (`src/wre_avl_tree.c:690`) and the static ratio is taken.
- Destroying kinds oldest first leaves two live kinds with one partition and
  one set of counters (`src/memkind.c:640`); two kinds can get one name, since a
  name is the number of a descriptor and not all names are compared; a creation
  that fails half way leaves arenas registered for a freed kind; a replaced
  file that cannot be allocated stays open.
- `thres_check_cnt` can skip 0 and stop the checks for 2^32 calls; a threshold
  can wrap past its minimum, with more than 100% of degree, or with less when
  two threads move it at a time (`NoWrap`).
- Deleting any memory stops the monitor; a child of a fork that got no monitor
  of its own waits in `pebs_fini` for a thread of its parent; a forked process
  with a static policy starts a monitor that exits the process at the first
  pop (`src/tachanka.c:597`).
- A failed `jemk_malloc` of the directory name closes the file of a kind that
  stays registered, and reports success (`src/memkind.c:922`); destroying that
  kind closes the number again, which may be the file of another kind by then.

## Not modelled

The floating point of hotness, ratio and controller (choices or exact
fractions); the addresses in the samples (a touch of any address); the
statistics and logs; `critnib_iter` and `critnib_delete`, which run without a
concurrent writer; the thread caches of arenas; the offsets of file-backed
extents; out-of-memory returns of jemalloc other than those named above; the memory orders weaker than sequential consistency (the queue
is built with `EXPLICIT_ORDER`, acquire and release orders and fences; the
model interleaves whole accesses, so it says nothing of a missing fence); the
inside of `memkind_malloc` and its relatives, which appear as a heap that gives
out free ranges; a failing `mmap` of the sample ring, which `pebs_init` does not
check (`src/pebs.c:466`) and the monitor would dereference; the bytes of that ring:
positions count records, so a record that straddles its end
(`src/pebs.c:250`) is not seen; the rounding of `ceilf` in a float product
(`src/memkind_memtier.c:605`), which the model computes exactly, so that the
code's step may be larger by one at the very edge of `NoWrap`, and by more for
thresholds above 2^24. The parts marked *not modelled*
in the inventory keep no state after start, or are third-party: by far the
largest part of the repository's lines is the allocator in `jemalloc/`, which is
vendored: of it only the recycling of arena indices is modelled.

## Plan

All parts of the repository's own code that keep state shared between threads
or over calls are modelled. What is left are proofs: `FindBounded`, `RatioKept`,
and the properties of `WreTree`, for which the tree would have to be written
without recursive operators.
