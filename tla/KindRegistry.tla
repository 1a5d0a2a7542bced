---------------------------- MODULE KindRegistry ----------------------------
(***************************************************************************)
(* The registry of kinds in memkind.c, the registry of arenas in           *)
(* memkind_arena.c and the life of file-backed kinds in memkind_pmem.c:    *)
(* threads create, grow and destroy kinds.                                 *)
(*                                                                         *)
(* memkind_create and memkind_destroy_kind hold the lock of the kind       *)
(* registry for all they do, and arena maps are made and destroyed under   *)
(* the lock of the arena registry: each is one step.  What happens outside *)
(* the locks are steps of their own: the temporary file is opened before   *)
(* memkind_create and closed when something fails after that, and a file   *)
(* that grew too large is replaced under the lock of its kind only.        *)
(*                                                                         *)
(* jemalloc's arenas.create takes the index destroyed last, else the next  *)
(* new one.  The descriptors are external: the lowest free number is       *)
(* opened.                                                                 *)
(***************************************************************************)
EXTENDS Integers, Sequences, FiniteSets, FiniteSetsExt

CONSTANTS Threads,
          NumBase,     \* MEMKIND_NUM_BASE_KIND
          MaxKind,     \* MEMKIND_MAX_KIND
          MapLen,      \* arena_map_len of a kind
          MaxArenas,   \* jemalloc's limit on arena indices
          MaxFds,      \* bound on the open descriptors
          MaxCreates,  \* bound on the kinds allocated
          MaxOps       \* bound on the calls

ASSUME KindAssumption == /\ NumBase \in Nat /\ MaxKind \in Nat /\ NumBase =< MaxKind
                         /\ MaxCreates \in Nat /\ MaxOps \in Nat
ASSUME ArenaAssumption == MapLen \in Nat \ {0} /\ MaxArenas \in Nat
ASSUME FdAssumption == MaxFds \in Nat

VARIABLES kinds,      \* every struct memkind ever allocated; freed memory keeps
                      \* its bytes
          pmap,       \* partition_map
          num_kind,
          registry,   \* arena_registry_g
          je,         \* jemalloc: narenas, the arenas alive, the indices destroyed
          fds,        \* the descriptors open
          pc,         \* the call each thread is in
          created, ops,
          past        \* history: what has happened that voids a guarantee

vars == <<kinds, pmap, num_kind, registry, je, fds, pc, created, ops, past>>

\* Kinds are named by the order of their allocation: 1 .. NumBase are static.
NULL == 0
Statics == 1..NumBase
Ids == 1..NumBase + MaxCreates
Arenas == 0..MaxArenas - 1
Slots == 0..MaxKind - 1
NoMap == [zero |-> 0, len |-> 0]
Idle == [at |-> "idle"]
Fd == 1..MaxFds
Dynamic == {k \in Ids \ Statics : kinds[k].live}
StaticName(k) == -k             \* no file-backed kind has the name of a static one

\* The static initialisers: no static kind has an arena before its first use.
Init == /\ kinds = [k \in Ids |-> [name |-> StaticName(k), partition |-> k - 1, fd |-> NULL,
                                   dir |-> FALSE, map |-> NoMap, live |-> k \in Statics]]
        /\ pmap = [i \in Slots |-> IF i < NumBase THEN i + 1 ELSE NULL]
        /\ num_kind = NumBase
        /\ registry = [a \in Arenas |-> NULL]
        /\ je = [narenas |-> 0, alive |-> {}, destroyed |-> <<>>]
        /\ fds = {}
        /\ pc = [t \in Threads |-> Idle]
        /\ created = NumBase /\ ops = 0
        /\ past = {}

Begin(t) == pc[t] = Idle /\ ops < MaxOps /\ ops' = ops + 1
Goes(t, c) == pc' = [pc EXCEPT ![t] = c]
Happened(what) == past' = past \cup {what}
FreeFds == Fd \ fds

-----------------------------------------------------------------------------
\* arenas.create: the n-th index it gives from now on, and the state after n.
Nth(n) == LET d == je.destroyed
          IN  IF n =< Len(d) THEN d[Len(d) - n + 1] ELSE je.narenas + (n - Len(d) - 1)
Available == Len(je.destroyed) + (MaxArenas - je.narenas)
Given(n) == {Nth(i) : i \in 1..n}
AfterCreating(n) ==
  LET new == n - Len(je.destroyed)
  IN  [je EXCEPT !.narenas = IF new > 0 THEN @ + new ELSE @,
                 !.alive = @ \cup Given(n),
                 !.destroyed = SubSeq(@, 1, Len(@) - n)]

\* memkind_arena_create_map: all the arenas of a kind, the lowest of them its
\* arena_zero.
CreateMap(k) ==
  /\ Available >= MapLen
  /\ je' = AfterCreating(MapLen)
  /\ registry' = [a \in Arenas |-> IF a \in Given(MapLen) THEN k ELSE registry[a]]
\* Mutant: the first index is taken for the lowest.
MapFromFirst == [zero |-> Nth(1), len |-> MapLen]
MapAfterCreate == [zero |-> Min(Given(MapLen)), len |-> MapLen]

\* It gives up at an arena it cannot create, or create the hooks of: the ones
\* before stay registered.  A recycled index that fails is lost.
CreateMapFails(k) ==
  \E n \in 0..MapLen - 1 :
     /\ n =< Available
     /\ \/ je' = [AfterCreating(n) EXCEPT !.destroyed = SubSeq(@, 1, Len(@) - 1)]
        \/ n < Available /\ je' = AfterCreating(n + 1)
     /\ registry' = [a \in Arenas |-> IF a \in Given(n) THEN k ELSE registry[a]]

\* memkind_arena_destroy: as many arenas as the map has, from arena_zero on;
\* arena.destroy recycles the index of an arena that is alive.
ArenasOf(k) == kinds[k].map.zero..kinds[k].map.zero + kinds[k].map.len - 1
Unregister(arenas) == registry' = [a \in Arenas |-> IF a \in arenas THEN NULL ELSE registry[a]]
Ascending(S) == CHOOSE s \in [1..Cardinality(S) -> S] :
                   \A i, j \in DOMAIN s : i < j => s[i] < s[j]
DestroyMap(k) ==
  /\ je' = [je EXCEPT !.alive = @ \ ArenasOf(k),
                      !.destroyed = @ \o Ascending(ArenasOf(k) \cap je.alive)]
  /\ Unregister(ArenasOf(k))

\* memkind_arena_init, once per static kind, when it is first used; it aborts
\* the process when the map cannot be created.
InitStatic(t) ==
  /\ Begin(t)
  /\ \E k \in Statics : /\ kinds[k].map = NoMap
                        /\ CreateMap(k)
                        /\ kinds' = [kinds EXCEPT ![k].map = MapAfterCreate]
  /\ UNCHANGED <<pmap, num_kind, fds, pc, created, past>>

-----------------------------------------------------------------------------
\* memkind_create_pmem: memkind_pmem_create_tmpfile, before any lock.
CreateTmpfile(t) ==
  /\ Begin(t)
  /\ FreeFds # {}
  /\ fds' = fds \cup {Min(FreeFds)}
  /\ Goes(t, [at |-> "create", fd |-> Min(FreeFds)])
  /\ UNCHANGED <<kinds, pmap, num_kind, registry, je, created, past>>

\* memkind_create looks for the first free slot and compares the names of the
\* kinds it passes; the name is made of the number of the descriptor.
Hole == Min({i \in Slots : pmap[i] = NULL})
NameTaken(name) == \E i \in 0..Hole - 1 : kinds[pmap[i]].name = name
NameClash(name) == \E k \in Dynamic : kinds[k].name = name
Admitted(name) == num_kind < MaxKind /\ ~NameTaken(name)

\* Mutant: the partition is that of the last kind.
CreateKindOffByOne(t, dir) ==
  /\ pc[t].at = "create" /\ created < NumBase + MaxCreates
  /\ Admitted(pc[t].fd)
  /\ LET k == created + 1
     IN  /\ CreateMap(k)
         /\ kinds' = [kinds EXCEPT ![k] = [name |-> pc[t].fd, partition |-> num_kind - 1,
                                            fd |-> pc[t].fd, dir |-> dir,
                                            map |-> MapAfterCreate, live |-> TRUE]]
         /\ pmap' = [pmap EXCEPT ![Hole] = k]
         /\ num_kind' = num_kind + 1
         /\ created' = k
         /\ Goes(t, IF dir THEN Idle ELSE [at |-> "close", fd |-> pc[t].fd, kind |-> k])
  /\ UNCHANGED <<fds, ops, past>>

\* memkind_create, and the fields that memkind_create_pmem fills in then.  When
\* there is no memory for the name of the directory (~dir) the file is closed,
\* but the kind stays registered with its number, and success is returned.
CreateKind(t, dir) ==
  /\ pc[t].at = "create" /\ created < NumBase + MaxCreates
  /\ Admitted(pc[t].fd)
  /\ LET k == created + 1
     IN  /\ CreateMap(k)
         /\ kinds' = [kinds EXCEPT ![k] = [name |-> pc[t].fd, partition |-> num_kind,
                                            fd |-> pc[t].fd, dir |-> dir,
                                            map |-> MapAfterCreate, live |-> TRUE]]
         /\ pmap' = [pmap EXCEPT ![Hole] = k]
         /\ num_kind' = num_kind + 1
         /\ created' = k
         /\ Goes(t, IF dir THEN Idle ELSE [at |-> "close", fd |-> pc[t].fd, kind |-> k])
  /\ past' = IF NameClash(pc[t].fd) THEN past \cup {"clash"} ELSE past
  /\ UNCHANGED <<fds, ops>>

\* Mutant: the file stays open.
CreateRefusedLeaks(t) ==
  /\ pc[t].at = "create" /\ ~Admitted(pc[t].fd)
  /\ Goes(t, Idle)
  /\ UNCHANGED <<kinds, pmap, num_kind, registry, je, fds, created, ops, past>>

\* Too many kinds, or a kind of this name.
CreateRefused(t) ==
  /\ pc[t].at = "create" /\ ~Admitted(pc[t].fd)
  /\ Goes(t, [at |-> "close", fd |-> pc[t].fd, kind |-> NULL])
  /\ UNCHANGED <<kinds, pmap, num_kind, registry, je, fds, created, ops, past>>

\* Mutant: the kind is counted before ops->create is known to have succeeded.
CreateFailsCounted(t) ==
  /\ pc[t].at = "create" /\ created < NumBase + MaxCreates
  /\ Admitted(pc[t].fd)
  /\ CreateMapFails(created + 1)
  /\ created' = created + 1
  /\ num_kind' = num_kind + 1
  /\ Goes(t, [at |-> "close", fd |-> pc[t].fd, kind |-> NULL])
  /\ Happened("half created")
  /\ UNCHANGED <<kinds, pmap, fds, ops>>

\* ops->create fails half way: the kind is freed, its arenas stay.
CreateFails(t) ==
  /\ pc[t].at = "create" /\ created < NumBase + MaxCreates
  /\ Admitted(pc[t].fd)
  /\ CreateMapFails(created + 1)
  /\ created' = created + 1
  /\ Goes(t, [at |-> "close", fd |-> pc[t].fd, kind |-> NULL])
  /\ Happened("half created")
  /\ UNCHANGED <<kinds, pmap, num_kind, fds, ops>>

\* The end of a failed memkind_create_pmem.
Close(t) ==
  /\ pc[t].at = "close"
  /\ fds' = fds \ {pc[t].fd}
  /\ Goes(t, Idle)
  /\ UNCHANGED <<kinds, pmap, num_kind, registry, je, created, ops, past>>

\* memkind_pmem_recreate_file, when the file of a kind is too big (EFBIG): a new
\* file is opened.  (Without the name of a directory that faults.)  The lock of
\* the kind is held, and nobody destroys a kind that is in use.
Busy(k) == \E t \in Threads : pc[t].at \in {"close", "replace"} /\ pc[t].kind = k
WithFile == {k \in Dynamic : kinds[k].dir}
RecreateFile(t) ==
  /\ Begin(t)
  /\ FreeFds # {}
  /\ \E k \in WithFile :
        /\ ~Busy(k)
        /\ Goes(t, [at |-> "replace", fd |-> Min(FreeFds), kind |-> k])
  /\ fds' = fds \cup {Min(FreeFds)}
  /\ UNCHANGED <<kinds, pmap, num_kind, registry, je, created, past>>

\* The old file is closed and the new one takes its place; the kind keeps its name.
ReplaceFile(t) ==
  /\ pc[t].at = "replace"
  /\ LET k == pc[t].kind
     IN  /\ fds' = fds \ {kinds[k].fd}
         /\ kinds' = [kinds EXCEPT ![k].fd = pc[t].fd]
  /\ Goes(t, Idle)
  /\ UNCHANGED <<pmap, num_kind, registry, je, created, ops, past>>

\* posix_fallocate fails for the new file too, which is not closed.
RecreateFails(t) ==
  /\ pc[t].at = "replace"
  /\ Goes(t, Idle)
  /\ Happened("file leaked")
  /\ UNCHANGED <<kinds, pmap, num_kind, registry, je, fds, created, ops>>

\* memkind_destroy_kind: the arenas, the file, and the first slot that holds a
\* kind of the same name; the kind given is freed.
SlotsOfName(name) == {i \in Slots : /\ i >= NumBase /\ pmap[i] # NULL
                                    /\ kinds[pmap[i]].name = name}
DestroyKind(t) ==
  /\ Begin(t)
  /\ \E k \in Dynamic :
        /\ ~Busy(k)
        /\ DestroyMap(k)
        /\ fds' = fds \ {kinds[k].fd}
        /\ LET slots == SlotsOfName(kinds[k].name)
           IN  IF slots = {} THEN UNCHANGED <<pmap, num_kind>>
               ELSE pmap' = [pmap EXCEPT ![Min(slots)] = NULL] /\ num_kind' = num_kind - 1
        /\ kinds' = [kinds EXCEPT ![k].live = FALSE]
        /\ past' = past \cup (IF k = Max(Dynamic) THEN {} ELSE {"out of order"})
                        \cup (IF kinds[k].dir THEN {} ELSE {"closed twice"})
  /\ UNCHANGED <<pc, created>>

\* memkind_finalize, at the end of the process: every kind in the registry.  No
\* arena is created after it, so the order of the indices destroyed is left out.
Finalize ==
  /\ \A t \in Threads : pc[t] = Idle
  /\ "finalized" \notin past
  /\ LET used == {i \in Slots : pmap[i] # NULL}
         arenas == UNION {ArenasOf(pmap[i]) : i \in used}
     IN  /\ je' = [je EXCEPT !.alive = @ \ arenas]
         /\ Unregister(arenas)
         /\ fds' = fds \ {kinds[pmap[i]].fd : i \in used}
         /\ kinds' = [k \in Ids |->
                        [kinds[k] EXCEPT !.live = @ /\ (k \in Statics \/ \A i \in used : pmap[i] # k),
                                         !.map = IF k \in Statics THEN NoMap ELSE @]]
         /\ pmap' = [i \in Slots |-> IF i < NumBase THEN pmap[i] ELSE NULL]
         /\ num_kind' = num_kind - Cardinality({i \in used : i >= NumBase})
  /\ Happened("finalized")
  /\ ops' = MaxOps
  /\ UNCHANGED <<pc, created>>

Next == \/ \E t \in Threads : \/ InitStatic(t) \/ CreateTmpfile(t)
                              \/ \E dir \in BOOLEAN : CreateKind(t, dir)
                              \/ CreateRefused(t) \/ CreateFails(t) \/ Close(t)
                              \/ RecreateFile(t) \/ ReplaceFile(t) \/ RecreateFails(t)
                              \/ DestroyKind(t)
        \/ Finalize

Spec == Init /\ [][Next]_vars
-----------------------------------------------------------------------------
Live == {k \in Ids : kinds[k].live}

\* partition_map holds exactly the kinds that live, each in one slot and under
\* its own name, and num_kind counts them, as memkind_finalize asserts.  The
\* guarantee ends when a kind gets the name of another: a name is the number of
\* a descriptor, free again once the file was replaced, and the names behind
\* the first free slot are not compared.
RegistryExact ==
  "clash" \notin past =>
     /\ {pmap[i] : i \in Slots} \ {NULL} = Live
     /\ \A i, j \in Slots : i # j /\ pmap[i] # NULL => pmap[i] # pmap[j]
     /\ num_kind = Cardinality(Live)

\* No two kinds that live have one partition, and with it one set of counters in
\* memkind_memtier.c - as long as kinds are destroyed youngest first: the
\* number is that of the kinds alive at the creation.
PartitionsUnique ==
  past \cap {"clash", "out of order"} = {} =>
     \A k, l \in Live : k # l => kinds[k].partition # kinds[l].partition

\* "Create new arena with consecutive index": the arenas a kind was given are
\* the ones it will use and destroy, arena_zero and those that follow.
ArenasConsecutive == \A k \in Live : \A a \in ArenasOf(k) : registry[a] = k

\* The same as long as no kind was left half created or unregistered in place of
\* another, and no arena outlives its
\* kind: get_kind_by_arena, which reads the registry without a lock, never
\* returns a kind that is freed.
ArenasOwned ==
  past \cap {"clash", "half created"} = {} =>
     /\ ArenasConsecutive
     /\ \A a \in Arenas : registry[a] # NULL => kinds[registry[a]].live
     /\ je.alive = UNION {ArenasOf(k) : k \in Live}

\* Every kind that memkind_create_pmem completed has a file of its own, which is
\* open: a close never hits the file of another kind or of another call, and no
\* file stays open without an owner, but for those memkind_pmem_recreate_file
\* leaks.  It ends when two kinds have one name (one of them is then freed in place
\* of the other), and when a kind without a directory is destroyed: that closes
\* a number a second time, whoever has it by then.
FilesOwned ==
  past \cap {"clash", "closed twice"} = {} =>
  LET holders == {<<"kind", k>> : k \in WithFile}
                   \cup {<<"call", t>> : t \in {u \in Threads : pc[u] # Idle}}
      fd(h) == IF h[1] = "kind" THEN kinds[h[2]].fd ELSE pc[h[2]].fd
  IN  /\ \A h \in holders : fd(h) \in fds
      /\ \A g, h \in holders : g # h => fd(g) # fd(h)
      /\ "file leaked" \notin past => fds = {fd(h) : h \in holders}
=============================================================================
