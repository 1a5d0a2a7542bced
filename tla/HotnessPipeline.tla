--------------------------- MODULE HotnessPipeline ---------------------------
(***************************************************************************)
(* How allocations become hotness: application threads inside the memtier  *)
(* calls of memkind_memtier.c change the heap and push an event, each on   *)
(* its own side of the other; the PEBS thread of pebs.c pops the events in *)
(* batches, applies them to the tracker (module Tachanka), and between     *)
(* batches touches the addresses the processor sampled.                    *)
(*                                                                         *)
(* The event queue is what LocklessQueue implements (EventChannel): FIFO   *)
(* in the order of the pushes, and a push may fail, which the callers      *)
(* ignore.  heap is memkind's own heap, external to this code: the         *)
(* extent, the tier and the type of every block that is allocated now.     *)
(***************************************************************************)
EXTENDS Tachanka, Sequences

CONSTANTS Threads,     \* the application's threads
          Hashes,      \* the call-stack hashes bthash computes
          Sizes,       \* the sizes requested
          Tiers,       \* the tiers the policy chooses: TRUE is the hot one
          MaxAddr,     \* the heap is the addresses 1 .. MaxAddr
          QueueSize,   \* lq_init's entries
          BatchLimit,  \* HOTNESS_RANKING_EVENT_ITERATIONS_PER_CYCLE
          MaxOps,      \* bound on the memtier calls
          MaxTouches,  \* bound on the sampled addresses
          Reallocs,    \* whether the threads call memtier_realloc
          NullEvents   \* whether events about NULL occur: failed allocations
                       \* and memtier_kind_realloc(kind, NULL, size)

ASSUME ThreadAssumption == IsFiniteSet(Threads)
ASSUME HeapAssumption == MaxAddr \in Nat \ {0} /\ Sizes \subseteq Nat \ {0}
ASSUME HashAssumption == Hashes \subseteq Nat \ {0}
ASSUME QueueAssumption == QueueSize \in Nat \ {0} /\ BatchLimit \in Nat \ {0}
ASSUME BoundAssumption == MaxOps \in Nat /\ MaxTouches \in Nat
ASSUME RoomAssumption ==   \* all sizes requested together are a size_t
         \A s \in Sizes : s < SizeModulus /\ MaxOps * s < SizeModulus
ASSUME TierAssumption == Tiers \subseteq BOOLEAN
ASSUME FlagAssumption == Reallocs \in BOOLEAN /\ NullEvents \in BOOLEAN

VARIABLES heap,     \* address |-> [len, hash, hot] of a live block
          call,     \* the memtier call each thread is inside, and its event
          queue,    \* the events pushed and not yet popped
          tk,       \* the tracker
          pebs,     \* the part of its cycle the PEBS thread is in
          batch,    \* the events popped in this cycle
          ops, touches,
          clean     \* history: no event was lost, named NULL or came out of order

vars == <<heap, call, queue, tk, pebs, batch, ops, touches, clean>>

NULL == 0
UnknownHash == 0       \* what a realloc registers: "FIXME hash should not be zero"
Addrs == 1..MaxAddr
Idle == [op |-> "none"]
Create(hash, addr, size, hot) ==
  [type |-> "CREATE_ADD", hash |-> hash, addr |-> addr, size |-> size, isHot |-> hot]
Destroy(addr) == [type |-> "DESTROY_REMOVE", addr |-> addr]
Realloc(old, new, size, hot) ==
  [type |-> "REALLOC", old |-> old, new |-> new, size |-> size, isHot |-> hot]

Running == tk.fault # "assert"     \* assert() ends the process

\* The heap, external: a block of len at a does not overlap a live one.
Overlap(a, m, b, n) == a < b + n /\ b < a + m
Fits(a, len, others) == /\ a + len - 1 =< MaxAddr
                        /\ \A b \in others : ~Overlap(a, len, b, heap[b].len)
Drop(a) == Without(heap, a)
Extent(len, hash, hot) == [len |-> len, hash |-> hash, hot |-> hot]

\* The blocks the application may pass to a call: the malloc that returned
\* them is over, and no other call is working on them.
Owned == DOMAIN heap \ {call[t].addr : t \in {u \in Threads : call[u] # Idle}}

\* Addresses that memkind_realloc has released and whose event is still to come.
Released == {call[t].event.old : t \in {u \in Threads : /\ call[u].op = "push"
                                                     /\ call[u].event.type = "REALLOC"}}

Init == /\ heap = NoFunction
        /\ call = [t \in Threads |-> Idle]
        /\ queue = <<>>
        /\ tk = EmptyTracker
        /\ pebs = "events" /\ batch = 0
        /\ ops = 0 /\ touches = 0
        /\ clean = TRUE

-----------------------------------------------------------------------------
\* Mutants: plausible mistakes in the code, used to show what the
\* properties detect.

\* The block is released before its event is pushed.
FreeFirst(t) ==
  /\ Running /\ call[t] = Idle /\ ops < MaxOps /\ ops' = ops + 1
  /\ \E a \in Owned :
        /\ heap' = Drop(a)
        /\ call' = [call EXCEPT ![t] = [op |-> "push", addr |-> a,
                                        event |-> Destroy(a)]]
  /\ UNCHANGED <<queue, tk, pebs, batch, touches, clean>>

-----------------------------------------------------------------------------
\* tachanka_ranking_event_push without ASSURE_RANKING_DELIVERY.  The queue
\* refuses an event when it is full; it may also refuse one while the failing
\* reservations of the other threads, and the entry the reader is copying,
\* make `used` look full (LocklessQueue, CancelReserveWrite).
Push(e, sound) ==
  \/ /\ Len(queue) < QueueSize
     /\ queue' = Append(queue, e)
     /\ clean' = (clean /\ sound)
  \/ /\ Len(queue) + Cardinality(Threads) >= QueueSize
     /\ queue' = queue
     /\ clean' = FALSE

Begin(t) == Running /\ call[t] = Idle /\ ops < MaxOps /\ ops' = ops + 1
Enter(t, c) == call' = [call EXCEPT ![t] = c]
Return(t) == call' = [call EXCEPT ![t] = Idle]

\* get_kind and memtier_kind_malloc (memtier_kind_posix_memalign): the policy
\* chooses a tier, the heap an address.  A call is a record: the step it has
\* still to take, the block it works on, the event it will push.
Malloc(t) ==
  /\ Begin(t)
  /\ \E hash \in Hashes, size \in Sizes, hot \in Tiers, a \in Addrs :
        /\ Fits(a, size, DOMAIN heap)
        /\ heap' = Put(heap, a, Extent(size, hash, hot))
        /\ clean' = (clean /\ a \notin Released)
        /\ Enter(t, [op |-> "push", addr |-> a, event |-> Create(hash, a, size, hot)])
  /\ UNCHANGED <<queue, tk, pebs, batch, touches>>

\* memtier_calloc of two elements: post_alloc is told the size of one.
Calloc(t) ==
  /\ Begin(t)
  /\ \E hash \in Hashes, size \in Sizes, hot \in Tiers, a \in Addrs :
        /\ Fits(a, 2 * size, DOMAIN heap)
        /\ heap' = Put(heap, a, Extent(2 * size, hash, hot))
        /\ clean' = (clean /\ a \notin Released)
        /\ Enter(t, [op |-> "push", addr |-> a, event |-> Create(hash, a, size, hot)])
  /\ UNCHANGED <<queue, tk, pebs, batch, touches>>

\* An allocation that returns NULL is posted all the same.
MallocFails(t) ==
  /\ NullEvents /\ Begin(t)
  /\ \E hash \in Hashes, size \in Sizes, hot \in Tiers :
        Enter(t, [op |-> "push", addr |-> NULL,
                  event |-> Create(hash, NULL, size, hot)])
  /\ clean' = FALSE
  /\ UNCHANGED <<heap, queue, tk, pebs, batch, touches>>

\* memtier_kind_realloc(kind, NULL, size) pushes the event of a block at
\* NULL, of hash 0, and then allocates.
KindReallocNull(t) ==
  /\ NullEvents /\ Begin(t)
  /\ \E size \in Sizes, hot \in Tiers :
        /\ Push(Create(UnknownHash, NULL, size, hot), FALSE)
        /\ Enter(t, [op |-> "malloc", addr |-> NULL, len |-> size, hot |-> hot])
  /\ UNCHANGED <<heap, tk, pebs, batch, touches>>

KindReallocMalloc(t) ==
  /\ Running /\ call[t].op = "malloc"
  /\ \/ \E a \in Addrs :
          /\ Fits(a, call[t].len, DOMAIN heap)
          /\ heap' = Put(heap, a, Extent(call[t].len, UnknownHash, call[t].hot))
     \/ heap' = heap
  /\ Return(t)
  /\ UNCHANGED <<queue, tk, pebs, batch, ops, touches, clean>>

\* memtier_kind_realloc: memkind_realloc grows or shrinks the block in place
\* or moves it within its tier, releasing the old address at once.
ReallocBlock(t) ==
  /\ Reallocs /\ Begin(t)
  /\ \E a \in Owned, size \in Sizes, b \in Addrs :
        /\ Fits(b, size, IF b = a THEN DOMAIN heap \ {a} ELSE DOMAIN heap)
        /\ heap' = Put(Drop(a), b, Extent(size, UnknownHash, heap[a].hot))
        /\ clean' = (clean /\ b \notin Released)
        /\ Enter(t, [op |-> "push", addr |-> b,
                     event |-> Realloc(a, b, size, heap[a].hot)])
  /\ UNCHANGED <<queue, tk, pebs, batch, touches>>

\* memkind_realloc fails: the old block stays, the event says it moved.
ReallocFails(t) ==
  /\ Reallocs /\ NullEvents /\ Begin(t)
  /\ \E a \in Owned, size \in Sizes :
        Enter(t, [op |-> "push", addr |-> a,
                  event |-> Realloc(a, NULL, size, heap[a].hot)])
  /\ clean' = FALSE
  /\ UNCHANGED <<heap, queue, tk, pebs, batch, touches>>

\* memtier_policy_data_hotness_post_alloc, and the push of a realloc.
PostAlloc(t) ==
  /\ Running /\ call[t].op = "push"
  /\ Push(call[t].event, TRUE)
  /\ Return(t)
  /\ UNCHANGED <<heap, tk, pebs, batch, ops, touches>>

\* memtier_kind_free (and memtier_kind_realloc(kind, ptr, 0)): the event is
\* pushed first ...
FreePush(t) ==
  /\ Begin(t)
  /\ \E a \in Owned : /\ Push(Destroy(a), TRUE)
                      /\ Enter(t, [op |-> "free", addr |-> a])
  /\ UNCHANGED <<heap, tk, pebs, batch, touches>>

\* ... then memkind_free releases the address.
FreeBlock(t) ==
  /\ Running /\ call[t].op = "free"
  /\ heap' = Drop(call[t].addr)
  /\ Return(t)
  /\ UNCHANGED <<queue, tk, pebs, batch, ops, touches, clean>>

-----------------------------------------------------------------------------
\* pebs_monitor's switch over the event's type.
Registered(s, hash, addr, size, isHot) ==
  RegisterBlockInRanking(RegisterBlock(s, hash, addr, size, isHot), addr, size)

Handle(s, e) ==
  CASE e.type = "CREATE_ADD"     -> Registered(s, e.hash, e.addr, e.size, e.isHot)
    [] e.type = "DESTROY_REMOVE" -> UnregisterBlock(s, e.addr)
    [] e.type = "REALLOC"        -> Registered(UnregisterBlock(s, e.old),
                                               UnknownHash, e.new, e.size, e.isHot)

PopEvent == /\ Running /\ pebs = "events" /\ batch < BatchLimit /\ queue # <<>>
            /\ tk' = Handle(tk, Head(queue))
            /\ queue' = Tail(queue)
            /\ batch' = batch + 1
            /\ UNCHANGED <<heap, call, pebs, ops, touches, clean>>

\* A failed pop, or the batch limit, ends the loop over the events.
EndBatch == /\ Running /\ pebs = "events"
            /\ queue = <<>> \/ batch = BatchLimit
            /\ pebs' = "samples" /\ batch' = 0
            /\ UNCHANGED <<heap, call, queue, tk, ops, touches, clean>>

\* A PERF_RECORD_SAMPLE of any address of the program.
Sample == /\ Running /\ pebs = "samples" /\ touches < MaxTouches
          /\ \E a \in Addrs, f \in Hotness : tk' = Touch(tk, a, f)
          /\ touches' = touches + 1
          /\ UNCHANGED <<heap, call, queue, pebs, batch, ops, clean>>

\* The samples are read: sleep for the rest of the period, start again.
EndCycle == /\ Running /\ pebs = "samples"
            /\ pebs' = "events"
            /\ UNCHANGED <<heap, call, queue, tk, batch, ops, touches, clean>>

PebsStep == PopEvent \/ EndBatch \/ Sample \/ EndCycle
Finish(t) == PostAlloc(t) \/ FreeBlock(t) \/ KindReallocMalloc(t)
Next == \/ \E t \in Threads : \/ Malloc(t) \/ Calloc(t) \/ MallocFails(t)
                              \/ KindReallocNull(t) \/ ReallocBlock(t)
                              \/ ReallocFails(t) \/ FreePush(t) \/ Finish(t)
        \/ PebsStep

Spec == Init /\ [][Next]_vars

-----------------------------------------------------------------------------
Events == {call[t].event : t \in {u \in Threads : call[u].op = "push"}}
            \cup {queue[i] : i \in 1..Len(queue)}
Keys == Addrs \cup {NULL}
AllHashes == Hashes \cup {UnknownHash}

\* Type correctness: the tracker names only types that exist (a block's type
\* pointer is never dangling), the heap's blocks are disjoint, the queue is
\* within its bound.
TypeOK ==
  /\ DOMAIN heap \subseteq Addrs
  /\ \A a \in DOMAIN heap : Fits(a, heap[a].len, DOMAIN heap \ {a})
  /\ DOMAIN tk.types \subseteq AllHashes /\ DOMAIN tk.blocks \subseteq Keys
  /\ \A h \in DOMAIN tk.types : tk.types[h].f \in Hotness
  /\ \A a \in DOMAIN tk.blocks : tk.blocks[a].type \in DOMAIN tk.types
  /\ tk.agg \in [Hotness -> 0..SizeModulus - 1]
  /\ tk.fault \in {"none", "underflow", "assert"}
  /\ Len(queue) =< QueueSize /\ batch \in 0..BatchLimit
  /\ ops \in 0..MaxOps /\ touches \in 0..MaxTouches
  /\ pebs \in {"events", "samples"}
  /\ \A e \in Events : e.type \in {"CREATE_ADD", "DESTROY_REMOVE", "REALLOC"}

\* As long as no event was lost, named NULL or came out of order, the ranking
\* is exact: the entry of every hotness weighs what the registered blocks of
\* the types of that hotness weigh together, after any order of events and
\* touches (CHECK_ADDED_SIZE asserts its sum in register_block and
\* unregister_block).  total_size, which touches move, must be exact for it.
RankingExact ==
  clean => \A f \in Hotness :
    tk.agg[f] = SizeOf(tk, {a \in DOMAIN tk.blocks : tk.types[tk.blocks[a].type].f = f})

\* Under the same condition, when no call is in progress and the PEBS thread
\* has caught up, tachanka knows exactly the live blocks, each in its tier and
\* under its type: the events of different threads about one address are
\* applied in the order in which the heap changed hands.
QuiescentExact ==
  clean /\ queue = <<>> /\ (\A t \in Threads : call[t] = Idle)
    => /\ DOMAIN tk.blocks = DOMAIN heap
       /\ \A a \in DOMAIN heap : /\ tk.blocks[a].type = heap[a].hash
                                 /\ tk.blocks[a].isHot = heap[a].hot

\* The assertion of ranking_remove_internal_relaxed: a type of which the
\* ranking has no entry has total_size 0.
RelaxedRemoveAssertion == tk.fault # "assert"

\* unregister_block's SUBs never wrap, whatever events are lost, refer to
\* NULL or arrive late: every counter of a type covers the blocks that are
\* still registered under it (the asserts num_allocs >= 0, total_size >= 0
\* and dram_size >= 0 say so of unsigned values, where they cannot fail).
CountersCoverBlocks ==
  \A h \in DOMAIN tk.types :
     /\ tk.types[h].num >= Cardinality(BlocksOf(tk, h))
     /\ tk.types[h].dram >= SizeOf(tk, HotBlocksOf(tk, h))
     /\ tk.types[h].total - tk.types[h].dram
          >= SizeOf(tk, BlocksOf(tk, h) \ HotBlocksOf(tk, h))

\* A touch moves size between hotnesses and never creates or destroys any
\* ("needs to put back as much as was removed"), even when the counters of
\* the type are wrong.
TouchConservesSize ==
  [][Sample => RankedSize(tk') % SizeModulus = RankedSize(tk) % SizeModulus]_vars

=============================================================================
