---------------------------- MODULE SlabAllocator ----------------------------
(***************************************************************************)
(* slab_allocator.c on top of bigary.c: equal-sized elements cut from one  *)
(* address range that grows page by page, recycled through a lock-free     *)
(* list whose links live in the elements' headers (USE_LOCKLESS is         *)
(* defined).  One action per atomic access, mutex operation or mmap.       *)
(*                                                                         *)
(* An element is its index; it covers the bytes [n*E, (n+1)*E) of          *)
(* mappedMemory.area.  bigary's `top` is a plain size_t that is read       *)
(* outside the mutex: an aligned word, so a reader sees its old or its new *)
(* value.  held (how many callers hold an element) and chain (the elements *)
(* pushed and not yet popped, newest first) are history variables.         *)
(***************************************************************************)
EXTENDS Integers, Sequences, FiniteSets, SequencesExt

CONSTANTS Mallocers,    \* threads that call slab_alloc_malloc
          Freers,       \* threads that call slab_alloc_free
          SerialMalloc, \* the callers' lock: one slab_alloc_malloc at a time
          ElementSize,  \* elementSize: header and payload
          MaxElements,  \* slab_alloc_init's max_elements
          PageSize,     \* BIGARY_PAGESIZE
          DefaultMax,   \* BIGARY_DEFAULT_MAX
          NULL

ASSUME SlabAssumption ==
    /\ SerialMalloc \in BOOLEAN
    /\ ElementSize \in Nat \ {0} /\ PageSize \in Nat \ {0} /\ DefaultMax \in Nat \ {0}
    /\ MaxElements \in Nat
    /\ NULL \notin Nat \cup Mallocers \cup Freers

Threads == Mallocers \cup Freers

VARIABLES live,             \* between slab_alloc_init and slab_alloc_destroy
          died,             \* die() exited the process: "no", "limit" or "mmap"
          freelist, next,   \* globFreelist.freelist, meta->next of every element
          used,             \* atomic counter of elements ever created
          top, lock,        \* bigary: top, enlargement
          mapped,           \* end of the range mmap made accessible
          pc, meta, nxt,    \* per thread: control, element, the link it read
          held, chain       \* history

listVars == <<freelist, next, chain>>
bigaryVars == <<top, lock, mapped>>
vars == <<live, died, freelist, next, used, top, lock, mapped, pc, meta, nxt,
          held, chain>>

\* Alignment to the page, as in bigary_alloc.
AlignUp(x) == ((x + PageSize - 1) \div PageSize) * PageSize

DeclaredNotRounded(max) == IF max = 0 THEN DefaultMax ELSE max

\* bigary_init: no maximum means the default; round up to the page.
Declare(max) == AlignUp(IF max = 0 THEN DefaultMax ELSE max)

declared == Declare(MaxElements * ElementSize)

\* The bytes up to the end of element n, and the elements the range can hold.
Need(n) == (n + 1) * ElementSize
Elements == {n \in 0..declared : Need(n) <= declared}

Goto(t, p) == pc' = [pc EXCEPT ![t] = p]

\* The call returns and its locals are gone.
Return(t) == /\ Goto(t, "idle")
             /\ meta' = [meta EXCEPT ![t] = NULL]
             /\ nxt' = [nxt EXCEPT ![t] = NULL]

CreateSteps == {"grow", "lock", "recheck", "map", "set_top", "unlock", "init_meta"}
MallocSteps == {"pop", "read_next", "pop_cas", "fetch"} \cup CreateSteps
InMalloc(t) == pc[t] \in MallocSteps

Running == live /\ died = "no"

Init == /\ live = FALSE /\ died = "no"
        /\ freelist = NULL /\ next = [n \in Elements |-> NULL] /\ used = 0
        /\ top = 0 /\ lock = NULL /\ mapped = 0
        /\ pc = [t \in Threads |-> "idle"]
        /\ meta = [t \in Threads |-> NULL]
        /\ nxt = [t \in Threads |-> NULL]
        /\ held = [n \in Elements |-> 0] /\ chain = <<>>

SlabInitKeepsList ==
    /\ ~live
    /\ live' = TRUE
    /\ used' = 0 /\ chain' = <<>>
    /\ next' = [n \in Elements |-> NULL]
    /\ top' = PageSize /\ mapped' = PageSize /\ lock' = NULL
    /\ UNCHANGED <<died, freelist, pc, meta, nxt, held>>

\* slab_alloc_init with bigary_init: a fresh range whose first page is mapped.
SlabInit ==
    /\ ~live
    /\ live' = TRUE
    /\ used' = 0 /\ freelist' = NULL /\ chain' = <<>>
    /\ next' = [n \in Elements |-> NULL]
    /\ top' = PageSize /\ mapped' = PageSize /\ lock' = NULL
    /\ UNCHANGED <<died, pc, meta, nxt, held>>

\* slab_alloc_destroy, by a caller that knows nobody is inside: the range is
\* unmapped and with it every element still handed out.
SlabDestroy ==
    /\ Running /\ \A t \in Threads : pc[t] = "idle"
    /\ live' = FALSE
    /\ mapped' = 0 /\ held' = [n \in Elements |-> 0]
    /\ UNCHANGED <<died, freelist, next, used, top, lock, pc, meta, nxt, chain>>

-----------------------------------------------------------------------------
(* slab_alloc_malloc: pop from the free list ... *)

\* meta = freelist, at the call and after a failed compare-exchange.
PopLoad(t) ==
    /\ Running
    /\ \/ pc[t] = "pop"
       \/ /\ pc[t] = "idle" /\ t \in Mallocers
          /\ SerialMalloc => \A u \in Threads : ~InMalloc(u)
    /\ meta' = [meta EXCEPT ![t] = freelist]
    /\ Goto(t, IF freelist = NULL THEN "fetch" ELSE "read_next")
    /\ UNCHANGED <<live, died, listVars, used, bigaryVars, nxt, held>>

\* The argument meta->next, evaluated before the compare-exchange.
PopReadNext(t) ==
    /\ Running /\ pc[t] = "read_next"
    /\ nxt' = [nxt EXCEPT ![t] = next[meta[t]]]
    /\ Goto(t, "pop_cas")
    /\ UNCHANGED <<live, died, listVars, used, bigaryVars, meta, held>>

PopChain == IF chain = <<>> THEN chain ELSE Tail(chain)

\* The compare-exchange succeeds and the element is returned.
PopCas(t) ==
    /\ Running /\ pc[t] = "pop_cas" /\ freelist = meta[t]
    /\ freelist' = nxt[t]
    /\ chain' = PopChain
    /\ held' = [held EXCEPT ![meta[t]] = @ + 1]
    /\ Return(t)
    /\ UNCHANGED <<live, died, next, used, bigaryVars>>

\* It fails, because the head moved or spuriously; the loop reloads meta.
PopCasFail(t) ==
    /\ Running /\ pc[t] = "pop_cas"
    /\ Goto(t, "pop")
    /\ meta' = [meta EXCEPT ![t] = NULL]
    /\ nxt' = [nxt EXCEPT ![t] = NULL]
    /\ UNCHANGED <<live, died, listVars, used, bigaryVars, held>>

-----------------------------------------------------------------------------
(* ... or slab_alloc_create_meta_, which grows the array *)

\* The only atomic step that tells two creators apart.
FetchIncrementUsed(t) ==
    /\ Running /\ pc[t] = "fetch"
    /\ meta' = [meta EXCEPT ![t] = used]
    /\ used' = used + 1
    /\ Goto(t, "grow")
    /\ UNCHANGED <<live, died, listVars, bigaryVars, nxt, held>>

CheckTopOfPrevious(t) ==
    /\ Running /\ pc[t] = "grow"
    /\ Goto(t, IF top >= meta[t] * ElementSize THEN "init_meta" ELSE "lock")
    /\ UNCHANGED <<live, died, listVars, used, bigaryVars, meta, nxt, held>>

\* bigary_alloc's check outside the mutex.
CheckTop(t) ==
    /\ Running /\ pc[t] = "grow"
    /\ Goto(t, IF top >= Need(meta[t]) THEN "init_meta" ELSE "lock")
    /\ UNCHANGED <<live, died, listVars, used, bigaryVars, meta, nxt, held>>

LockEnlargement(t) ==
    /\ Running /\ pc[t] = "lock" /\ lock = NULL
    /\ lock' = t
    /\ Goto(t, "recheck")
    /\ UNCHANGED <<live, died, listVars, used, top, mapped, meta, nxt, held>>

\* The re-check under the mutex, and die() past the declared maximum.
Recheck(t) ==
    /\ Running /\ pc[t] = "recheck"
    /\ LET enough == top >= Need(meta[t])
           fits == AlignUp(Need(meta[t])) <= declared
       IN  /\ died' = IF enough \/ fits THEN "no" ELSE "limit"
           /\ Goto(t, IF enough THEN "unlock" ELSE IF fits THEN "map" ELSE pc[t])
    /\ UNCHANGED <<live, listVars, used, bigaryVars, meta, nxt, held>>

\* mmap(MAP_FIXED) from top up to the aligned end: what the range held is replaced by zeroes.
MapMore(t) ==
    /\ Running /\ pc[t] = "map"
    /\ mapped' = AlignUp(Need(meta[t]))
    /\ next' = [n \in Elements |-> IF Need(n) > top THEN NULL ELSE next[n]]
    /\ Goto(t, "set_top")
    /\ UNCHANGED <<live, died, freelist, chain, used, top, lock, meta, nxt, held>>

\* The kernel refuses: die().
MapFails(t) ==
    /\ Running /\ pc[t] = "map"
    /\ died' = "mmap"
    /\ UNCHANGED <<live, listVars, used, bigaryVars, pc, meta, nxt, held>>

SetTop(t) ==
    /\ Running /\ pc[t] = "set_top"
    /\ top' = AlignUp(Need(meta[t]))
    /\ Goto(t, "unlock")
    /\ UNCHANGED <<live, died, listVars, used, lock, mapped, meta, nxt, held>>

UnlockEnlargement(t) ==
    /\ Running /\ pc[t] = "unlock"
    /\ lock' = NULL
    /\ Goto(t, "init_meta")
    /\ UNCHANGED <<live, died, listVars, used, top, mapped, meta, nxt, held>>

\* The header of the new element is written and the element returned.
InitMeta(t) ==
    /\ Running /\ pc[t] = "init_meta"
    /\ next' = [next EXCEPT ![meta[t]] = NULL]
    /\ held' = [held EXCEPT ![meta[t]] = @ + 1]
    /\ Return(t)
    /\ UNCHANGED <<live, died, freelist, chain, used, bigaryVars>>

-----------------------------------------------------------------------------
(* slab_alloc_free *)

Free(t, n) ==
    /\ Running /\ pc[t] = "idle" /\ t \in Freers /\ held[n] > 0
    /\ meta' = [meta EXCEPT ![t] = n]
    /\ held' = [held EXCEPT ![n] = @ - 1]
    /\ Goto(t, "push")
    /\ UNCHANGED <<live, died, listVars, used, bigaryVars, nxt>>

PushLoad(t) ==
    /\ Running /\ pc[t] = "push"
    /\ next' = [next EXCEPT ![meta[t]] = freelist]
    /\ Goto(t, "push_cas")
    /\ UNCHANGED <<live, died, freelist, chain, used, bigaryVars, meta, nxt, held>>

PushCasUnchecked(t) ==
    /\ Running /\ pc[t] = "push_cas"
    /\ freelist' = meta[t]
    /\ chain' = <<meta[t]>> \o chain
    /\ Return(t)
    /\ UNCHANGED <<live, died, next, used, bigaryVars, held>>

PushCas(t) ==
    /\ Running /\ pc[t] = "push_cas" /\ freelist = next[meta[t]]
    /\ freelist' = meta[t]
    /\ chain' = <<meta[t]>> \o chain
    /\ Return(t)
    /\ UNCHANGED <<live, died, next, used, bigaryVars, held>>

\* A failed compare-exchange stores the head it saw in meta->next.
PushCasFail(t) ==
    /\ Running /\ pc[t] = "push_cas"
    /\ next' = [next EXCEPT ![meta[t]] = freelist]
    /\ Goto(t, "push")
    /\ UNCHANGED <<live, died, freelist, chain, used, bigaryVars, meta, nxt, held>>

-----------------------------------------------------------------------------

\* die() called exit(1).
Exited == died # "no" /\ UNCHANGED vars

Malloc(t) == \/ PopLoad(t) \/ PopReadNext(t) \/ PopCas(t) \/ PopCasFail(t)
             \/ FetchIncrementUsed(t) \/ CheckTop(t) \/ LockEnlargement(t)
             \/ Recheck(t) \/ MapMore(t) \/ MapFails(t) \/ SetTop(t)
             \/ UnlockEnlargement(t) \/ InitMeta(t)

Release(t) == \/ PushLoad(t) \/ PushCas(t) \/ PushCasFail(t)
              \/ \E n \in Elements : Free(t, n)

Next == \/ SlabInit \/ SlabDestroy \/ Exited
        \/ \E t \in Threads : Malloc(t) \/ Release(t)

Spec == Init /\ [][Next]_vars

-----------------------------------------------------------------------------
(* Properties *)

\* How the repository uses a slab: mallocs come one at a time (from the PEBS
\* thread, or under critnib's mutex) or nothing is ever freed.
SafeUse == SerialMalloc \/ Freers = {}

Creating(t) == pc[t] \in CreateSteps
Pushing(t) == pc[t] \in {"push", "push_cas"}
Busy(t) == Creating(t) \/ Pushing(t)

\* Every variable has its type, and an element whose header slab_alloc_create_meta_
\* is about to write lies inside the declared range.
TypeOK ==
    /\ live \in BOOLEAN /\ died \in {"no", "limit", "mmap"}
    /\ freelist \in Elements \cup {NULL}
    /\ next \in [Elements -> Elements \cup {NULL}]
    /\ used \in Nat /\ top \in Nat /\ mapped \in Nat
    /\ lock \in Threads \cup {NULL}
    /\ pc \in [Threads -> MallocSteps \cup {"idle", "push", "push_cas"}]
    /\ meta \in [Threads -> Nat \cup {NULL}]
    /\ nxt \in [Threads -> Elements \cup {NULL}]
    /\ held \in [Elements -> Nat]
    /\ chain \in Seq(Elements)
    /\ \A t \in Threads : pc[t] = "init_meta" => meta[t] \in Elements

\* slab_alloc_malloc never returns an element that somebody still holds, and
\* slab_alloc_free takes back exactly the element it was given.
Pool == INSTANCE ElementPool WITH inuse <- held
PoolSpec == Pool!Spec

\* No element is lost or shared: each one ever created is in exactly one of
\* four places - handed out, on the free list, being created, being freed.
ElementAccounting ==
    live => \A n \in (0..used - 1) \cap Elements :
        LET busy == {t \in Threads : Busy(t) /\ meta[t] = n}
            listed == {i \in 1..Len(chain) : chain[i] = n}
        IN  Cardinality(busy) + Cardinality(listed)
            + held[n] = 1

\* Walking the links from the head visits the freed elements, newest first,
\* and ends: concurrent pushes and pops never cut the list or close a cycle.
ListIntact ==
    live => /\ freelist = IF chain = <<>> THEN NULL ELSE chain[1]
            /\ \A i \in 1..Len(chain) :
                 next[chain[i]] = IF i = Len(chain) THEN NULL ELSE chain[i + 1]

\* An element reaches a caller or the list only when its bytes are mapped, and
\* a later mmap(MAP_FIXED) starts at top, above every such element.
MappedBeforeUse ==
    live => /\ top <= mapped
            /\ \A n \in Elements : held[n] > 0 \/ n \in ToSet(chain) => Need(n) <= top
            /\ \A t \in Threads : pc[t] \in {"init_meta", "push", "push_cas"}
                                    => Need(meta[t]) <= top

\* bigary only grows while it lives: two threads that both found it too small
\* never take the larger size of the other back.
TopGrows == [][live /\ live' => top <= top' /\ mapped <= mapped']_vars

\* die() for lack of declared space is not reached before max_elements
\* elements exist: rounding the maximum and aligning the request agree.
DiesOnlyBeyondMax == died = "limit" => used > MaxElements

-----------------------------------------------------------------------------
(* The inductive invariant behind the proofs of SlabAllocatorProofs *)

Listed(n) == \E i \in 1..Len(chain) : chain[i] = n

\* The callers' discipline as it shows in the state.
CallerInv ==
    /\ live \/ \A t \in Threads : pc[t] = "idle"
    /\ SerialMalloc => \A t, u \in Threads : InMalloc(t) /\ InMalloc(u) => t = u
    /\ Freers = {} => \A t \in Threads : ~Pushing(t) /\ pc[t] # "pop"
    /\ Freers = {} /\ live => chain = <<>>

\* One place per element: holders, list and busy threads never overlap.
PlaceInv ==
    /\ \A n \in Elements : held[n] \in {0, 1}
    /\ \A n \in Elements : held[n] = 1 => n < used /\ ~Listed(n)
    /\ \A t \in Threads : Busy(t) =>
         /\ meta[t] \in Nat /\ meta[t] < used
         /\ meta[t] \in Elements => held[meta[t]] = 0
         /\ ~Listed(meta[t])
    /\ \A t, u \in Threads : Busy(t) /\ Busy(u) /\ meta[t] = meta[u] => t = u
    /\ \A i, j \in 1..Len(chain) : chain[i] = chain[j] => i = j
    /\ \A i \in 1..Len(chain) : chain[i] < used

\* No element that was created is forgotten.
NoLeak ==
    \A n \in Elements : n < used =>
        held[n] = 1 \/ Listed(n) \/ \E t \in Threads : Busy(t) /\ meta[t] = n

\* The popper's view: its element stays listed, and the link it read stays right.
PopInv ==
    \A t \in Threads :
        /\ pc[t] \in {"read_next", "pop_cas"} => meta[t] \in Elements /\ Listed(meta[t])
        /\ pc[t] = "pop_cas" => nxt[t] = next[meta[t]]

\* bigary: the mutex, and what is known between re-check, mmap and the new top.
GrowInv ==
    /\ \A t \in Threads : pc[t] \in {"recheck", "map", "set_top", "unlock"} => lock = t
    /\ top <= declared
    /\ \A t \in Threads : pc[t] \in {"map", "set_top"} =>
         top < Need(meta[t]) /\ AlignUp(Need(meta[t])) <= declared
    /\ \A t \in Threads : pc[t] = "set_top" => mapped = AlignUp(Need(meta[t]))
    /\ mapped = top \/ \E t \in Threads : pc[t] = "set_top"
    /\ \A t \in Threads : Pushing(t) => meta[t] \in Elements
    /\ \A t \in Threads : pc[t] \in {"unlock", "init_meta"} \/ Pushing(t) => Need(meta[t]) <= top
    /\ \A n \in Elements : held[n] = 1 \/ Listed(n) => Need(n) <= top

\* Everything the slab's correctness rests on, closed under every step of
\* slab_alloc_malloc, slab_alloc_free and bigary_alloc.
SlabInv ==
    /\ TypeOK /\ CallerInv
    /\ live => ListIntact /\ PlaceInv /\ NoLeak /\ PopInv /\ GrowInv
    /\ ~live => \A n \in Elements : held[n] = 0
=============================================================================
