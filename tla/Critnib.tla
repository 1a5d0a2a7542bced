------------------------------ MODULE Critnib ------------------------------
(***************************************************************************)
(* critnib.c: a radix tree over slices of the key, with collapsed links.   *)
(* Inserts and removes take the mutex, one at a time; critnib_get,         *)
(* critnib_find_le and critnib_find read the tree without a lock while it  *)
(* changes.  A removed node or leaf stays untouched for DELETED_LIFE       *)
(* removals before it may be used again, and a query that lasted so long   *)
(* starts over.                                                            *)
(*                                                                         *)
(* Every store and load that another thread can observe is a step of its   *)
(* own, except that the fields of a leaf or node which the writer fills    *)
(* before linking it are written together.  The slabs behind alloc_leaf    *)
(* and alloc_node are external here (module SlabAllocator): they hand out  *)
(* fresh elements and do not return NULL.  find_predecessor and            *)
(* find_successor load a child twice, to test it and to follow it; a NULL  *)
(* in the second load is dereferenced, which ends the process.             *)
(***************************************************************************)
EXTENDS Naturals, Sequences, FiniteSets

CONSTANTS Keys,          \* the keys inserted, removed and looked up
          Readers,       \* the threads inside lock-free queries
          Queries,       \* what they ask for: a direction, a key
          SLICE,         \* the bits of a slice
          Slices,        \* the slices of a key
          DELETED_LIFE,
          MaxNodes, MaxLeaves,  \* bound on the elements taken from the slabs
          MaxWrites      \* bound on the inserts and removes

\* 1 << n, for the bits of a key.
Pow2[n \in 0..SLICE * Slices] == IF n = 0 THEN 1 ELSE 2 * Pow2[n - 1]

NULL == 0

SLNODES == Pow2[SLICE]
Nibs == 0..SLNODES - 1
Shifts == {SLICE * i : i \in 0..Slices - 1}
MaxKey == Pow2[SLICE * Slices] - 1
Dirs == {"lt", "le", "eq", "ge", "gt"}      \* FIND_L ... FIND_G

ASSUME SliceAssumption == SLICE \in Nat \ {0} /\ Slices \in Nat \ {0}
ASSUME KeyAssumption == Keys \subseteq 0..MaxKey
ASSUME LifeAssumption == DELETED_LIFE \in Nat \ {0}
ASSUME ElementAssumption == MaxNodes \in Nat \ {0} /\ MaxLeaves \in Nat \ {0}
ASSUME QueryAssumption == Queries \subseteq Dirs \X (0..MaxKey)

\* A pointer is NULL, a node or a leaf (the tag bit).
NodeIds == 1..MaxNodes
LeafIds == MaxNodes + 1..MaxNodes + MaxLeaves
is_leaf(p) == p > MaxNodes

slice_index(key, shift) == (key \div Pow2[shift]) % SLNODES
\* key & path_mask(shift): the part of the key above the slice at shift.
Above(key, shift) == key - (key % Pow2[shift + SLICE])

VARIABLES root,
          node,     \* a node |-> [child, path, shift]
          leaf,     \* a leaf |-> [key, value]
          pool,     \* deleted_node and deleted_leaf, the elements never used
          pend,     \* pending_del_nodes and pending_del_leaves
          removes,  \* remove_count
          w,        \* the call that holds the mutex
          q,        \* the query of every reader
          map,      \* history: what the calls so far promise is stored
          window,   \* history: the maps that were current during a query
          writes

vars == <<root, node, leaf, pool, pend, removes, w, q, map, window, writes>>

\* No thread takes a step after one of them dereferenced NULL.
Running == \A r \in Readers : q[r].pc # "fault"

Free == [pc |-> "free"]
NoQuery == [pc |-> "none"]
EmptyNode == [child |-> [i \in Nibs |-> NULL], path |-> 0, shift |-> 0]

\* critnib_new.
Init == /\ root = NULL
        /\ node = [n \in NodeIds |-> EmptyNode]
        /\ leaf = [k \in LeafIds |-> [key |-> 0, value |-> NULL]]
        /\ pool = [node |-> NULL, leaf |-> NULL, freshNode |-> 1,
                   freshLeaf |-> MaxNodes + 1]
        /\ pend = [i \in 0..DELETED_LIFE - 1 |-> [node |-> NULL, leaf |-> NULL]]
        /\ removes = 0
        /\ w = Free /\ q = [r \in Readers |-> NoQuery]
        /\ map = [k \in Keys |-> NULL] /\ window = [r \in Readers |-> {}]
        /\ writes = 0

-----------------------------------------------------------------------------
\* Places that hold a pointer: the root, or a child of a node.
RootSlot == <<NULL, 0>>
At(s) == IF s = RootSlot THEN root ELSE node[s[1]].child[s[2]]
StoreAt(s, p) == IF s = RootSlot
                 THEN root' = p /\ node' = node
                 ELSE node' = [node EXCEPT ![s[1]].child[s[2]] = p] /\ root' = root

\* The walk of a writer towards key: the last slot and the one before.  An
\* insert leaves it where the path differs, a remove looks at slices only.
Onward(key, comparePath, at) ==
  LET n == At(at.slot)
  IN  IF \/ n = NULL \/ is_leaf(n)
         \/ comparePath /\ Above(key, node[n].shift) # node[n].path
      THEN at
      ELSE [slot |-> <<n, slice_index(key, node[n].shift)>>, up |-> at.slot]
Walk(key, comparePath) ==
  LET step[i \in 0..Slices] == IF i = 0 THEN [slot |-> RootSlot, up |-> RootSlot]
                               ELSE Onward(key, comparePath, step[i - 1])
  IN  step[Slices]

\* Mutant: the lowest slice that differs (util_lssb_index).
CriticalShiftLow(a, b) ==
  CHOOSE s \in Shifts : /\ slice_index(a, s) # slice_index(b, s)
                        /\ \A u \in Shifts : u < s => slice_index(a, u) = slice_index(b, u)

\* util_mssb_index(at) rounded down to a slice: the highest slice where a and
\* b differ.
CriticalShift(a, b) ==
  CHOOSE s \in Shifts : /\ slice_index(a, s) # slice_index(b, s)
                        /\ \A u \in Shifts : u > s => slice_index(a, u) = slice_index(b, u)

\* The map changes at one store; every query in progress saw it before and after.
Becomes(m) ==
  /\ map' = m
  /\ window' = [r \in Readers |-> IF q[r] = NoQuery THEN {} ELSE window[r] \cup {m}]
SameMap == UNCHANGED <<map, window>>

-----------------------------------------------------------------------------
\* critnib_insert up to the fields of the new leaf; alloc_leaf takes one from
\* the pool or from the slab.  Every call stores a pointer of its own, as
\* tachanka.c does.
ValueOf(i) == MaxNodes + MaxLeaves + i

InsertLeaf(key) ==
  /\ Running /\ w = Free /\ writes < MaxWrites /\ writes' = writes + 1
  /\ LET k == IF pool.leaf # NULL THEN pool.leaf ELSE pool.freshLeaf
     IN  /\ k \in LeafIds
         /\ pool' = IF pool.leaf # NULL THEN [pool EXCEPT !.leaf = leaf[k].value]
                    ELSE [pool EXCEPT !.freshLeaf = @ + 1]
         /\ leaf' = [leaf EXCEPT ![k] = [key |-> key, value |-> ValueOf(writes')]]
         /\ w' = [pc |-> "place", k |-> k]
  /\ SameMap /\ UNCHANGED <<root, node, pend, removes, q>>

\* An empty place on the path takes the leaf.
InsertHere ==
  /\ Running /\ w.pc = "place"
  /\ LET s == Walk(leaf[w.k].key, TRUE).slot
     IN  At(s) = NULL /\ StoreAt(s, w.k)
  /\ Becomes([map EXCEPT ![leaf[w.k].key] = leaf[w.k].value])
  /\ w' = Free
  /\ UNCHANGED <<leaf, pool, pend, removes, q, writes>>

\* The key is there: the new leaf goes to the pool (free_leaf); with update
\* the value changes in place, else the call returns EEXIST.
InsertExists(update) ==
  /\ Running /\ w.pc = "place"
  /\ LET new == leaf[w.k]
         n == At(Walk(new.key, TRUE).slot)
     IN  /\ n # NULL /\ is_leaf(n) /\ leaf[n].key = new.key
         /\ leaf' = [leaf EXCEPT ![w.k].value = pool.leaf,
                                 ![n].value = IF update THEN new.value ELSE @]
         /\ IF update THEN Becomes([map EXCEPT ![new.key] = new.value]) ELSE SameMap
  /\ pool' = [pool EXCEPT !.leaf = w.k]
  /\ w' = Free
  /\ UNCHANGED <<root, node, pend, removes, q, writes>>

\* The path differs from the key: alloc_node and fill it with the new leaf and
\* the subtree found.
InsertNode ==
  /\ Running /\ w.pc = "place"
  /\ LET key == leaf[w.k].key
         s == Walk(key, TRUE).slot
         n == At(s)
         path == IF is_leaf(n) THEN leaf[n].key ELSE node[n].path
         sh == CriticalShift(path, key)
         m == IF pool.node # NULL THEN pool.node ELSE pool.freshNode
     IN  /\ n # NULL /\ path # key
         /\ m \in NodeIds
         /\ pool' = IF pool.node # NULL THEN [pool EXCEPT !.node = node[m].child[0]]
                    ELSE [pool EXCEPT !.freshNode = @ + 1]
         /\ node' = [node EXCEPT ![m] =
                       [child |-> [EmptyNode.child EXCEPT
                                     ![slice_index(key, sh)] = w.k,
                                     ![slice_index(path, sh)] = n],
                        shift |-> sh, path |-> Above(key, sh)]]
         /\ w' = [pc |-> "link", k |-> w.k, m |-> m, slot |-> s]
  /\ SameMap /\ UNCHANGED <<root, leaf, pend, removes, q, writes>>

\* store(parent, m).
InsertLink ==
  /\ Running /\ w.pc = "link"
  /\ StoreAt(w.slot, w.m)
  /\ Becomes([map EXCEPT ![leaf[w.k].key] = leaf[w.k].value])
  /\ w' = Free
  /\ UNCHANGED <<leaf, pool, pend, removes, q, writes>>

\* critnib_remove: an empty tree returns at once, else the count is raised ...
RemoveCount(key) ==
  /\ Running /\ w = Free /\ root # NULL /\ writes < MaxWrites /\ writes' = writes + 1
  /\ removes' = removes + 1
  /\ w' = [pc |-> "recycle", key |-> key, del |-> removes % DELETED_LIFE]
  /\ SameMap /\ UNCHANGED <<root, node, leaf, pool, pend, q>>

\* Mutant: the node removed earlier is dropped, not pooled.
RecycleLeafOnly ==
  /\ Running /\ w.pc = "recycle"
  /\ LET k == pend[w.del].leaf
     IN  /\ leaf' = IF k = NULL THEN leaf ELSE [leaf EXCEPT ![k].value = pool.leaf]
         /\ pool' = [pool EXCEPT !.leaf = IF k = NULL THEN @ ELSE k]
  /\ pend' = [pend EXCEPT ![w.del] = [node |-> NULL, leaf |-> NULL]]
  /\ w' = [w EXCEPT !.pc = "unlink"]
  /\ SameMap /\ UNCHANGED <<root, node, removes, q, writes>>

\* ... what was removed DELETED_LIFE removals ago goes to the pool ...
RemoveRecycle ==
  /\ Running /\ w.pc = "recycle"
  /\ LET n == pend[w.del].node
         k == pend[w.del].leaf
     IN  /\ node' = IF n = NULL THEN node ELSE [node EXCEPT ![n].child[0] = pool.node]
         /\ leaf' = IF k = NULL THEN leaf ELSE [leaf EXCEPT ![k].value = pool.leaf]
         /\ pool' = [pool EXCEPT !.node = IF n = NULL THEN @ ELSE n,
                                 !.leaf = IF k = NULL THEN @ ELSE k]
  /\ pend' = [pend EXCEPT ![w.del] = [node |-> NULL, leaf |-> NULL]]
  /\ w' = [w EXCEPT !.pc = "unlink"]
  /\ SameMap /\ UNCHANGED <<root, removes, q, writes>>

\* Mutant: the leaf goes to the pool at once.
UnlinkFreesAtOnce ==
  /\ Running /\ w.pc = "unlink"
  /\ LET at == Walk(w.key, FALSE)
         k == At(at.slot)
     IN  IF k = NULL \/ leaf[k].key # w.key
         THEN w' = Free /\ SameMap /\ UNCHANGED <<root, node, leaf, pool>>
         ELSE /\ StoreAt(at.slot, NULL)
              /\ Becomes([map EXCEPT ![w.key] = NULL])
              /\ leaf' = [leaf EXCEPT ![k].value = pool.leaf]
              /\ pool' = [pool EXCEPT !.leaf = k]
              /\ w' = IF at.slot = RootSlot THEN Free
                      ELSE [pc |-> "collapse", del |-> w.del, n |-> at.slot[1],
                            up |-> at.up]
  /\ UNCHANGED <<pend, removes, q, writes>>

\* ... and the leaf is cut off, unless the key is not there.
RemoveUnlink ==
  /\ Running /\ w.pc = "unlink"
  /\ LET at == Walk(w.key, FALSE)
         k == At(at.slot)
     IN  IF k = NULL \/ leaf[k].key # w.key
         THEN w' = Free /\ SameMap /\ UNCHANGED <<root, node, pend>>
         ELSE /\ StoreAt(at.slot, NULL)
              /\ Becomes([map EXCEPT ![w.key] = NULL])
              /\ pend' = [pend EXCEPT ![w.del].leaf = k]
              /\ w' = IF at.slot = RootSlot THEN Free
                      ELSE [pc |-> "collapse", del |-> w.del, n |-> at.slot[1],
                            up |-> at.up]
  /\ UNCHANGED <<leaf, pool, removes, q, writes>>

\* "Remove the node if there's only one remaining child."
RemoveCollapse ==
  /\ Running /\ w.pc = "collapse"
  /\ LET left == {i \in Nibs : node[w.n].child[i] # NULL}
     IN  IF Cardinality(left) # 1 THEN UNCHANGED <<root, node, pend>>
         ELSE /\ StoreAt(w.up, node[w.n].child[CHOOSE i \in left : TRUE])
              /\ pend' = [pend EXCEPT ![w.del].node = w.n]
  /\ w' = Free
  /\ SameMap /\ UNCHANGED <<leaf, pool, removes, q, writes>>

Writer == \/ \E key \in Keys : InsertLeaf(key) \/ RemoveCount(key)
          \/ InsertHere \/ InsertNode \/ InsertLink
          \/ \E update \in BOOLEAN : InsertExists(update)
          \/ RemoveRecycle \/ RemoveUnlink \/ RemoveCollapse

-----------------------------------------------------------------------------
\* A query q[r]: the direction and the key, remove_count at its start, the
\* pointer n it looks at and the slice nib of it, the frames of find_le or
\* find_ge still open above n, and in the end the leaf k, its key and value.
Set(r, rec) == /\ Running /\ q' = [q EXCEPT ![r] = rec]
               /\ UNCHANGED <<root, node, leaf, pool, pend, removes, w, map, writes>>
Goes(r, rec) == Set(r, rec) /\ UNCHANGED window

\* The slice find_le searches after nib, and the one find_predecessor starts
\* at; find_ge and find_successor run the other way.
Past(dir) == IF dir = "le" THEN 0 ELSE SLNODES - 1
First(dir) == IF dir = "le" THEN SLNODES - 1 ELSE 0
Further(dir, nib) == IF dir = "le" THEN nib - 1 ELSE nib + 1
Within(dir, key, bound) == IF dir = "le" THEN key =< bound ELSE key >= bound

\* critnib_get, critnib_find_le and critnib_find: "<42 is <=41", and nothing
\* is below 0 or above the largest key.  The first step loads remove_count.
Query(r, dir, key) ==
  /\ q[r] = NoQuery
  /\ dir = "lt" => key > 0
  /\ dir = "gt" => key < MaxKey
  /\ Set(r, [pc |-> "root", n |-> NULL, nib |-> 0, frames |-> <<>>, k |-> NULL,
             key |-> NULL, value |-> NULL, wrs1 |-> removes,
             dir |-> CASE dir = "lt" -> "le" [] dir = "gt" -> "ge" [] OTHER -> dir,
             bound |-> CASE dir = "lt" -> key - 1 [] dir = "gt" -> key + 1 [] OTHER -> key])
  /\ window' = [window EXCEPT ![r] = {map}]

LoadRoot(r) ==
  /\ q[r].pc = "root"
  /\ Goes(r, [q[r] EXCEPT !.n = root, !.pc = IF q[r].dir = "eq" THEN "dive" ELSE "find"])

\* critnib_get looks at nothing but one slice of each node ...
Dive(r) ==
  /\ q[r].pc = "dive" /\ q[r].n # NULL /\ ~is_leaf(q[r].n)
  /\ LET n == node[q[r].n]
     IN  Goes(r, [q[r] EXCEPT !.n = n.child[slice_index(q[r].bound, n.shift)]])

\* ... and compares the key at the end.
Compare(r) ==
  /\ q[r].pc = "dive" /\ (q[r].n = NULL \/ is_leaf(q[r].n))
  /\ LET n == q[r].n
         found == n # NULL /\ leaf[n].key = q[r].bound
     IN  Goes(r, [q[r] EXCEPT !.k = IF found THEN n ELSE NULL, !.key = q[r].bound,
                              !.pc = "value"])

\* What find_le or find_ge does next: the leaf is found, or nothing in this
\* subtree, or its outermost leaf is wanted, or the search follows the path.
Found(c, k) == [c EXCEPT !.k = k, !.pc = "key"]
Nothing(c) == [c EXCEPT !.pc = "scan"]
Outermost(c, n) == [c EXCEPT !.n = n, !.nib = First(c.dir), !.pc = "outermost"]

\* find_le (find_ge) on the subtree n.
Find(r) ==
  /\ q[r].pc = "find"
  /\ LET c == q[r]
         n == node[c.n]
         nib == slice_index(c.bound, n.shift)
     IN  Goes(r, IF c.n = NULL THEN Nothing(c)
                 ELSE IF is_leaf(c.n)
                 THEN IF Within(c.dir, leaf[c.n].key, c.bound) THEN Found(c, c.n) ELSE Nothing(c)
                 ELSE IF Above(c.bound, n.shift) # n.path
                 THEN IF Within(c.dir, n.path, c.bound) THEN Outermost(c, c.n) ELSE Nothing(c)
                 ELSE [c EXCEPT !.n = n.child[nib],
                                !.frames = Append(@, [n |-> c.n, nib |-> nib])])

\* Nothing on the path: the subtrees beside it, nearest first, in the
\* innermost open frame, then in the frame around it.
Scan(r) ==
  /\ q[r].pc = "scan"
  /\ LET c == q[r]
         top == c.frames[Len(c.frames)]
         rest == SubSeq(c.frames, 1, Len(c.frames) - 1)
         nib == Further(c.dir, top.nib)
         m == node[top.n].child[nib]
     IN  Goes(r, IF c.frames = <<>> THEN Found(c, NULL)
                 ELSE IF top.nib = Past(c.dir) THEN [c EXCEPT !.frames = rest]
                 ELSE IF m = NULL THEN [c EXCEPT !.frames = Append(rest, [top EXCEPT !.nib = nib])]
                 ELSE IF is_leaf(m) THEN Found(c, m)
                 ELSE Outermost([c EXCEPT !.frames = rest], m))

\* find_predecessor (find_successor): the loop tests one child at a time ...
FindOutermost(r) ==
  /\ q[r].pc = "outermost"
  /\ LET c == q[r]
     IN  Goes(r, IF node[c.n].child[c.nib] # NULL THEN [c EXCEPT !.pc = "descend"]
                 ELSE IF c.nib = Past(c.dir) THEN Nothing(c)
                 ELSE [c EXCEPT !.nib = Further(c.dir, @)])

\* ... and the child it stopped at is loaded once more, by then perhaps NULL.
Descend(r) ==
  /\ q[r].pc = "descend"
  /\ LET c == q[r]
         m == node[c.n].child[c.nib]
     IN  Goes(r, IF m = NULL THEN [c EXCEPT !.pc = "fault"]
                 ELSE IF is_leaf(m) THEN Found(c, m) ELSE Outermost(c, m))

ReadKey(r) ==
  /\ q[r].pc = "key"
  /\ Goes(r, [q[r] EXCEPT !.key = IF q[r].k = NULL THEN NULL ELSE leaf[q[r].k].key,
                          !.pc = "value"])

ReadValue(r) ==
  /\ q[r].pc = "value"
  /\ Goes(r, [q[r] EXCEPT !.value = IF q[r].k = NULL THEN NULL ELSE leaf[q[r].k].value,
                          !.pc = "verify"])

\* Mutant: one removal too late.
StaleStrict(r) == q[r].wrs1 + DELETED_LIFE < removes

\* wrs1 + DELETED_LIFE <= wrs2: start over.
Stale(r) == q[r].wrs1 + DELETED_LIFE =< removes

Restart(r) ==
  /\ q[r].pc = "verify" /\ Stale(r)
  /\ Goes(r, [q[r] EXCEPT !.pc = "root", !.wrs1 = removes, !.frames = <<>>])

Return(r) ==
  /\ q[r].pc = "verify" /\ ~Stale(r)
  /\ Set(r, NoQuery) /\ window' = [window EXCEPT ![r] = {}]

Reader(r) == \/ LoadRoot(r) \/ Dive(r) \/ Compare(r) \/ Find(r) \/ Scan(r)
             \/ FindOutermost(r) \/ Descend(r) \/ ReadKey(r) \/ ReadValue(r)
             \/ Restart(r) \/ Return(r)

Next == \/ Writer
        \/ \E r \in Readers : \/ Reader(r)
                              \/ \E ask \in Queries : Query(r, ask[1], ask[2])

Spec == Init /\ [][Next]_vars
-----------------------------------------------------------------------------
\* The entries of a map within the bound of a query, and the answer to it.
Entries(m, dir, bound) ==
  {k \in Keys : m[k] # NULL /\ (IF dir = "eq" THEN k = bound ELSE Within(dir, k, bound))}
Nearer(dir, a, b) == IF dir = "ge" THEN a < b ELSE b < a
Answer(m, dir, bound) ==
  LET E == Entries(m, dir, bound)
      best == CHOOSE k \in E : \A j \in E \ {k} : Nearer(dir, k, j)
  IN  IF E = {} THEN <<NULL, NULL>> ELSE <<best, m[best]>>
Result(r) == IF q[r].k = NULL THEN <<NULL, NULL>> ELSE <<q[r].key, q[r].value>>
Returns(r) == q[r] # NoQuery /\ q'[r] = NoQuery

\* What is reachable from the root, whoever holds the mutex, is what the calls
\* promised: a lookup with no concurrent change gives the value stored last.
TreeIsMap ==
  \A key \in Keys : LET n == At(Walk(key, FALSE).slot)
                    IN  map[key] = IF n # NULL /\ leaf[n].key = key THEN leaf[n].value ELSE NULL

\* "The result of get() is a value that was current at any point between the
\* call start and end", although its leaf may be removed, recycled and filled
\* again between the loads of the query.
GetCurrent ==
  [][\A r \in Readers : Returns(r) /\ q[r].dir = "eq"
       => Result(r)[2] \in {Answer(m, "eq", q[r].bound)[2] : m \in window[r]}]_vars

Faults(r) == q[r].pc = "descend" /\ q'[r].pc = "fault"

\* What critnib_find_le and critnib_find promise under concurrent changes.  The
\* entry returned was stored at some point of the query; if no removal was
\* counted since the query started, or the map stayed the same, none that was
\* stored throughout lies nearer; and a search dereferences NULL only if the map
\* changed under it or its grace period was over.  This is less than "Same
\* guarantees as critnib_get()": an insert may fill a slot that was passed before
\* the entry in the next one is removed; when two removals empty the subtree
\* find_predecessor is in, the search gives up although entries to its left were
\* there throughout; and one removal between its two loads of a child is fatal.
FindBounded ==
  [][\A r \in Readers :
       /\ Returns(r) /\ q[r].dir # "eq"
            => LET within(m) == Entries(m, q[r].dir, q[r].bound)
               IN  /\ q[r].k # NULL => \E m \in window[r] : /\ q[r].key \in within(m)
                                                            /\ m[q[r].key] = q[r].value
                   /\ q[r].wrs1 = removes \/ window[r] = {map}
                        => \A k \in Keys : (\A m \in window[r] : k \in within(m))
                             => q[r].k # NULL /\ ~Nearer(q[r].dir, k, q[r].key)
       /\ Faults(r) => window[r] # {map} \/ Stale(r)]_vars

\* "Same guarantees as critnib_get()", says the comment above critnib_find_le,
\* and those are that "the result of get() or find_le() is a value that was
\* current at any point between the call start and end": at some point of the
\* call the entry returned was the nearest one, or there was none to return.
FindCurrent ==
  [][\A r \in Readers : Returns(r) /\ q[r].dir # "eq"
       => Result(r)[1] \in {Answer(m, q[r].dir, q[r].bound)[1] : m \in window[r]}]_vars

Below(S) == {node[n].child[j] : n \in S \cap NodeIds, j \in Nibs}
InTree == LET reach[i \in 0..Slices] == IF i = 0 THEN {root}
                                        ELSE reach[i - 1] \cup Below(reach[i - 1])
          IN  reach[Slices] \ {NULL}
Chain(first, next, len) ==
  LET at[i \in 0..len] == IF i = 0 THEN first
                          ELSE IF at[i - 1] = NULL THEN NULL ELSE next[at[i - 1]]
  IN  {at[i] : i \in 0..len} \ {NULL}
Pooled == Chain(pool.node, [n \in NodeIds |-> node[n].child[0]], MaxNodes)
            \cup Chain(pool.leaf, [k \in LeafIds |-> leaf[k].value], MaxLeaves)
Pending == (UNION {{pend[i].node, pend[i].leaf} : i \in DOMAIN pend}) \ {NULL}
InHand == CASE w.pc = "place" -> {w.k} [] w.pc = "link" -> {w.k, w.m} [] OTHER -> {}
HandedOut == (1..pool.freshNode - 1) \cup (MaxNodes + 1..pool.freshLeaf - 1)

\* No leaf and no node is lost or in two places: what the slabs handed out is
\* in the tree, waits out its DELETED_LIFE removals, is in the pool, or in the
\* hands of the call that holds the mutex; a node that is removed stays in the
\* tree until its only child has taken its place.
ElementsKept ==
  LET places == <<InTree, Pending, Pooled, InHand>>
  IN  /\ UNION {places[i] : i \in 1..4} = HandedOut
      /\ \A i, j \in 1..4 : i # j => places[i] \cap places[j] = {}
=============================================================================
