------------------------------ MODULE Tachanka ------------------------------
(***************************************************************************)
(* The tracker of tachanka.c and the ranking of ranking.cpp, as the PEBS   *)
(* thread drives them: it is the only thread that changes them (the        *)
(* OFFLOAD_RANKING_OPS_TO_BACKGROUD_THREAD build), so every function of    *)
(* the two files is one operator from a tracker to a tracker.              *)
(*                                                                         *)
(* A tracker tk is a record:                                               *)
(*   types   hash_to_type: the hash of a call stack |-> its struct ttype   *)
(*   blocks  addr_to_block: an address |-> its struct tblock               *)
(*   agg     ranking->entries: a hotness |-> the size of the entry of that *)
(*           hotness, 0 when the tree has none (an entry of size 0 is      *)
(*           never put into the tree)                                      *)
(*   fault   "assert" once an enabled assert() failed, which ends the      *)
(*           process, "underflow" once ranking_remove_internal logged the  *)
(*           fatal "tried to remove more than added" (it carries on)       *)
(*                                                                         *)
(* A hotness is one of a few levels and what a touch makes of it is left   *)
(* open: the floating point of ranking_touch_entry_internal decides it.    *)
(***************************************************************************)
EXTENDS Integers, FiniteSets, FiniteSetsExt, Functions

CONSTANTS Hotness,          \* the values ttype.f takes
          InitialHotness,   \* EXPONENTIAL_COEFFS_NUMBER * HOTNESS_INITIAL_SINGLE_VALUE
          SizeModulus       \* size_t: sizes wrap modulo SizeModulus

ASSUME HotnessAssumption == IsFiniteSet(Hotness) /\ InitialHotness \in Hotness
ASSUME ModulusAssumption == SizeModulus \in Nat \ {0}

NoFunction == [x \in {} |-> x]
Put(f, x, y) == [z \in DOMAIN f \cup {x} |-> IF z = x THEN y ELSE f[z]]
Without(f, x) == [z \in DOMAIN f \ {x} |-> f[z]]

\* tachanka_init and ranking_create: empty critnibs, an empty tree.
EmptyTracker == [types |-> NoFunction, blocks |-> NoFunction,
                 agg |-> [f \in Hotness |-> 0], fault |-> "none"]

NewType == [num |-> 0, total |-> 0, dram |-> 0, f |-> InitialHotness]
TypeOf(tk, hash) == IF hash \in DOMAIN tk.types THEN tk.types[hash] ELSE NewType
Block(hash, size, isHot) == [size |-> size, type |-> hash, isHot |-> isHot]

\* The increments of register_block and the SUBs of unregister_block.
Counted(t, bl) == [num |-> t.num + 1, total |-> t.total + bl.size,
                   dram |-> IF bl.isHot THEN t.dram + bl.size ELSE t.dram,
                   f |-> t.f]
Uncounted(t, bl) == [num |-> t.num - 1, total |-> t.total - bl.size,
                     dram |-> IF bl.isHot THEN t.dram - bl.size ELSE t.dram,
                     f |-> t.f]

\* The keys critnib_find_le(addr_to_block, addr) chooses the largest of.
KeysLe(tk, addr) == {a \in DOMAIN tk.blocks : a =< addr}

-----------------------------------------------------------------------------
\* Mutants: plausible mistakes in the code, used to show what the
\* properties of HotnessPipeline detect.

\* An attempt to handle EEXIST: overwrite the old block, count nothing.
RegisterBlockOverwrites(tk, hash, addr, size, isHot) ==
  LET old == TypeOf(tk, hash)
      t == IF addr \in DOMAIN tk.blocks THEN old
           ELSE Counted(old, Block(hash, size, isHot))
  IN  [tk EXCEPT !.types = Put(@, hash, t),
                 !.blocks = Put(@, addr, Block(hash, size, isHot))]

\* ranking_remove is forgotten.
UnregisterBlockUnranked(tk, addr) ==
  IF addr \notin DOMAIN tk.blocks THEN tk
  ELSE LET bl == tk.blocks[addr]
       IN  [tk EXCEPT !.types = Put(@, bl.type, Uncounted(@[bl.type], bl)),
                      !.blocks = Without(@, addr)]

\* A touch puts back the type's total_size, not what was taken out.
RankingTouchTotal(tk, hash, f) ==
  LET t == tk.types[hash]
      removed == Min({t.total, tk.agg[t.f]})
  IN  IF tk.agg[t.f] = 0 /\ t.total # 0
      THEN [tk EXCEPT !.fault = "assert"]
      ELSE [tk EXCEPT !.types[hash].f = f,
                      !.agg = [[@ EXCEPT ![t.f] = @ - removed]
                                 EXCEPT ![f] = (@ + t.total) % SizeModulus]]

-----------------------------------------------------------------------------
\* register_block.  A new type starts at the initial hotness.  The counters
\* are raised before critnib_insert is known to have succeeded: at an address
\* that is registered already (EEXIST) the old block stays, under its old
\* type, and the new one leaks.
RegisterBlock(tk, hash, addr, size, isHot) ==
  LET bl == Block(hash, size, isHot)
  IN  [tk EXCEPT !.types = Put(@, hash, Counted(TypeOf(tk, hash), bl)),
                 !.blocks = IF addr \in DOMAIN @ THEN @ ELSE Put(@, addr, bl)]

\* ranking_add_internal.
RankingAdd(tk, f, size) == [tk EXCEPT !.agg[f] = (@ + size) % SizeModulus]

\* register_block_in_ranking: the size goes to the hotness of whichever
\* block critnib_find_le finds.
RegisterBlockInRanking(tk, addr, size) ==
  IF KeysLe(tk, addr) = {} THEN tk
  ELSE LET bl == tk.blocks[Max(KeysLe(tk, addr))]
       IN  RankingAdd(tk, tk.types[bl.type].f, size)

\* ranking_remove_internal: size_t arithmetic, after a log when it wraps.
RankingRemove(tk, f, size) ==
  IF size = 0 \/ tk.agg[f] = 0 THEN tk
  ELSE [tk EXCEPT !.agg[f] = (@ - size) % SizeModulus,
                  !.fault = IF size > tk.agg[f] THEN "underflow" ELSE @]

\* unregister_block.
UnregisterBlock(tk, addr) ==
  IF addr \notin DOMAIN tk.blocks THEN tk
  ELSE LET bl == tk.blocks[addr]
           less == [tk EXCEPT !.types = Put(@, bl.type, Uncounted(@[bl.type], bl)),
                              !.blocks = Without(@, addr)]
       IN  RankingRemove(less, tk.types[bl.type].f, bl.size)

\* ranking_remove_internal_relaxed removes as much of a type's size as its
\* hotness has; it asserts that a type without an entry has no size.
RelaxedSize(tk, t) == Min({t.total, tk.agg[t.f]})
RelaxedAssertFails(tk, t) == tk.agg[t.f] = 0 /\ t.total # 0

\* ranking_touch_internal: take the type's size out at the old hotness, update
\* f (ranking_touch_entry_internal), put back what was taken out.
RankingTouch(tk, hash, f) ==
  LET t == tk.types[hash]
      removed == RelaxedSize(tk, t)
  IN  IF RelaxedAssertFails(tk, t)
      THEN [tk EXCEPT !.fault = "assert"]
      ELSE RankingAdd([tk EXCEPT !.types = Put(@, hash, [t EXCEPT !.f = f]),
                                 !.agg[t.f] = @ - removed],
                      f, removed)

\* touch: an address outside every registered block is ignored, and so is
\* one in a block of a type of total size 0.
Touch(tk, addr, f) ==
  LET found == KeysLe(tk, addr)
      key == Max(found)
  IN  IF \/ found = {}
         \/ addr >= key + tk.blocks[key].size
         \/ tk.types[tk.blocks[key].type].total = 0
      THEN tk
      ELSE RankingTouch(tk, tk.blocks[key].type, f)

-----------------------------------------------------------------------------
\* What the counters of a tracker are compared with.

BlocksOf(tk, hash) == {a \in DOMAIN tk.blocks : tk.blocks[a].type = hash}
BlockSizes(tk) == [a \in DOMAIN tk.blocks |-> tk.blocks[a].size]
SizeOf(tk, B) == SumFunctionOnSet(BlockSizes(tk), B)
RankedSize(tk) == SumFunctionOnSet(tk.agg, Hotness)
HotBlocksOf(tk, hash) == {a \in BlocksOf(tk, hash) : tk.blocks[a].isHot}
=============================================================================
