------------------------------ MODULE WreTree ------------------------------
(***************************************************************************)
(* The weighted tree of wre_avl_tree.c in which ranking.cpp keeps its      *)
(* entries: an AVL tree with the weight of every subtree, hotter entries   *)
(* on the left, searched for the entry that stands at a share of the total *)
(* weight and interpolated with a neighbour.  One thread uses the ranking, *)
(* so every call is one step.                                              *)
(*                                                                         *)
(* A node is named by the hotness of its entry, which is unique because    *)
(* the ranking adds up what is equally hot; the weight of an entry is      *)
(* never 0.  Ratios are exact fractions, where the code has doubles.       *)
(***************************************************************************)
EXTENDS Integers, FiniteSets, FiniteSetsExt

CONSTANTS Hotness,     \* the hotness values that occur
          MaxSize,     \* the largest size added or removed at once
          MaxWeight,   \* bound on the weight of an entry
          Ratios       \* ratios asked for, as <<numerator, denominator>>

ASSUME HotnessAssumption == Hotness \subseteq Nat \ {0}
ASSUME WeightAssumption == MaxSize \in Nat /\ MaxWeight \in Nat
ASSUME RatioAssumption == \A r \in Ratios : r[1] \in 0..r[2] /\ r[2] > 0

VARIABLE tree          \* rootNode, the nodes, and whether every assertion held

NULL == 0
NoNode == [left |-> NULL, right |-> NULL, parent |-> NULL, which |-> "root",
           height |-> 0, weight |-> 0, own |-> 0]

\* wre_create
Init == tree = [root |-> NULL, node |-> [h \in Hotness |-> NoNode], ok |-> TRUE]

is_lower_check(a, b) == a > b      \* is_hotter_agg_hot

Depth(tr, x) == IF x = NULL THEN 0 ELSE tr.node[x].height + 1
Weight(tr, x) == IF x = NULL THEN 0 ELSE tr.node[x].weight
Lean(tr, x, side, other) == Depth(tr, tr.node[x][side]) - Depth(tr, tr.node[x][other])

\* *get_root_placeholder(tree, node) = x
Place(tr, which, parent, x) ==
  IF which = "root" THEN [tr EXCEPT !.root = x] ELSE [tr EXCEPT !.node[parent][which] = x]

\* update_node_subtree_metadata
Update(tr, x) ==
  LET n == tr.node[x]
  IN  [tr EXCEPT !.node[x].height = Max({Depth(tr, n.left), Depth(tr, n.right)}),
                 !.node[x].weight = Weight(tr, n.left) + Weight(tr, n.right) + n.own]

\* rotate_left (side is "right") and rotate_right (side is "left").
Rotate(tr, x, side, other) ==
  LET z == tr.node[x][side]
      t == tr.node[z][other]
      moved == [tr EXCEPT !.node[x][side] = t, !.node[z][other] = x,
                          !.node[x].parent = z, !.node[z].parent = tr.node[x].parent,
                          !.node[z].which = tr.node[x].which, !.node[x].which = other]
      joined == IF t = NULL THEN moved
                ELSE [moved EXCEPT !.node[t].parent = x, !.node[t].which = side]
  IN  Update(Update(Place(joined, tr.node[x].which, tr.node[x].parent, z), x), z)

-----------------------------------------------------------------------------
\* Mutants: plausible mistakes in the code.

\* The subtree that moves up to the place of the replacer keeps its side.
DetachKeepsWhich(tr, r) ==
  LET p == tr.node[r].parent
      right == tr.node[r].right
      gap == [tr EXCEPT !.node[p][tr.node[r].which] = right]
  IN  IF right = NULL THEN gap ELSE [gap EXCEPT !.node[right].parent = p]

\* The right subtree of the node that takes the place of another is dropped.
DetachDropsRight(tr, r) == [tr EXCEPT !.node[tr.node[r].parent][tr.node[r].which] = NULL]

\* The share is not scaled to the right subtree.
ScaleRightForgotten(n, d, hi, total) == <<n, d>>

-----------------------------------------------------------------------------
\* fix_rotate_left and fix_rotate_right, with their assertions.
FixRotate(tr, x, side, other) ==
  LET c == tr.node[x][side]
      lean == Lean(tr, c, side, other)
      asserted == [tr EXCEPT !.ok = @ /\ lean >= -1]
  IN  Rotate(IF lean < 0 THEN Rotate(asserted, c, other, side) ELSE asserted, x, side, other)

\* balance_upwards
RECURSIVE BalanceUpwards(_, _)
BalanceUpwards(tr, x) ==
  LET p == tr.node[x].parent
      lean == Lean(tr, p, "right", "left")
      asserted == [tr EXCEPT !.ok = @ /\ lean \in -3..3]
  IN  IF p = NULL THEN tr
      ELSE BalanceUpwards(IF lean > 1 THEN FixRotate(asserted, p, "right", "left")
                          ELSE IF lean < -1 THEN FixRotate(asserted, p, "left", "right")
                          ELSE Update(asserted, p), p)

Towards(tr, x, h) == IF is_lower_check(x, h) THEN "right" ELSE "left"

\* find_node: the nodes named h are those that the search reaches.
RECURSIVE FindNode(_, _, _)
FindNode(tr, x, h) == IF x \in {NULL, h} THEN x ELSE FindNode(tr, tr.node[x][Towards(tr, x, h)], h)

RECURSIVE Parent(_, _, _)
Parent(tr, x, h) ==
  LET next == tr.node[x][Towards(tr, x, h)] IN IF next = NULL THEN x ELSE Parent(tr, next, h)

wre_put(tr, h, w) ==
  LET p == IF tr.root = NULL THEN NULL ELSE Parent(tr, tr.root, h)
      which == IF p = NULL THEN "root" ELSE Towards(tr, p, h)
      new == [NoNode EXCEPT !.parent = p, !.which = which, !.weight = w, !.own = w]
  IN  BalanceUpwards(Place([tr EXCEPT !.node[h] = new], which, p, h), h)

RECURSIVE Extreme(_, _, _)
Extreme(tr, x, side) == IF tr.node[x][side] = NULL THEN x ELSE Extreme(tr, tr.node[x][side], side)

First(candidates) == candidates[Min({i \in DOMAIN candidates : candidates[i] # NULL})]
Reparent(tr, x, p) == IF x = NULL THEN tr ELSE [tr EXCEPT !.node[x].parent = p]

\* The node that replaces a removed one leaves its place to its right subtree.
Detach(tr, r) ==
  LET p == tr.node[r].parent
      right == tr.node[r].right
      gap == [tr EXCEPT !.node[p][tr.node[r].which] = right]
  IN  IF right = NULL THEN gap
      ELSE [gap EXCEPT !.node[right].parent = p, !.node[right].which = tr.node[r].which]

\* The replacer takes over parent, place and subtrees of c.
TakePlace(tr, c, r) ==
  LET n == tr.node[c]
      taken == [tr EXCEPT !.node[r].parent = n.parent, !.node[r].which = n.which,
                          !.node[r].left = n.left, !.node[r].right = n.right]
  IN  Place(Reparent(Reparent(taken, n.left, r), n.right, r), n.which, n.parent, r)

\* wre_remove: the tree without the node c, and the node where balancing begins.
Unlinked(tr, c) ==
  LET n == tr.node[c]
      other == IF n.which = "left" THEN "right" ELSE "left"
      child == IF n.left = NULL THEN n.right ELSE n.left
  IN  IF n.left = NULL /\ n.right = NULL
      THEN [tr |-> Place(tr, n.which, n.parent, NULL),
            from |-> IF n.which = "root" THEN NULL
                     ELSE First(<<tr.node[n.parent][other], n.parent>>)]
      ELSE IF n.left = NULL \/ n.right = NULL
      THEN [tr |-> TakePlace([tr EXCEPT !.node[c].left = NULL, !.node[c].right = NULL], c, child),
            from |-> child]
      ELSE LET r == Extreme(tr, n.right, "left")
               p == tr.node[r].parent
               detached == Detach(tr, r)
           IN  [tr |-> TakePlace(detached, c, r),
                from |-> First(<<tr.node[r].right, detached.node[p].right,
                                 detached.node[p].left, p>>)]

wre_remove(tr, h) ==
  IF tr.root = NULL \/ FindNode(tr, tr.root, h) = NULL THEN tr
  ELSE LET u == Unlinked(tr, h)
           balanced == IF u.from = NULL THEN u.tr
                       ELSE BalanceUpwards(Update(u.tr, u.from), u.from)
       IN  [balanced EXCEPT !.node[h] = NoNode]

\* The size that wre_remove hands back with the entry of h.
Removed(tr, h) == IF tr.root # NULL /\ FindNode(tr, tr.root, h) = h THEN tr.node[h].own ELSE 0

-----------------------------------------------------------------------------
\* ranking_add_internal, and ranking_remove_internal, which is never asked for
\* more than there is (HotnessPipeline).
AddSize(h, s) ==
  /\ Removed(tree, h) + s =< MaxWeight
  /\ tree' = wre_put(wre_remove(tree, h), h, Removed(tree, h) + s)

RemoveSize(h, s) ==
  /\ s =< Removed(tree, h)
  /\ LET rest == wre_remove(tree, h)
         left == Removed(tree, h) - s
     IN  tree' = IF left = 0 THEN rest ELSE wre_put(rest, h, left)

Next == \E h \in Hotness, s \in 1..MaxSize : AddSize(h, s) \/ RemoveSize(h, s)

Spec == Init /\ [][Next]_tree

-----------------------------------------------------------------------------
\* wre_find_weighted_nodes_internal: the node at the share n/d of the weight
\* below x, and how far from its left end.
ScaleLeft(n, d, lo, total) == <<n * total, d * lo>>
ScaleRight(n, d, hi, total) == <<n * total - hi * d, d * (total - hi)>>

RECURSIVE FindWeighted(_, _, _, _)
FindWeighted(tr, x, n, d) ==
  LET lo == Weight(tr, tr.node[x].left)
      hi == lo + tr.node[x].own
      total == tr.node[x].weight
      descend(side, ratio) ==
        IF tr.node[x][side] = NULL THEN [best |-> x, n |-> 0, d |-> 1]
        ELSE FindWeighted(tr, tr.node[x][side], ratio[1], ratio[2])
  IN  IF n * total < lo * d THEN descend("left", ScaleLeft(n, d, lo, total))
      ELSE IF n * total > hi * d THEN descend("right", ScaleRight(n, d, hi, total))
      ELSE [best |-> x, n |-> n * total - lo * d, d |-> (hi - lo) * d]

\* wre_find_node_right (side is "right") and wre_find_node_left: up to a node
\* that has a sibling on the side.
RECURSIVE Climb(_, _, _, _)
Climb(tr, x, side, other) ==
  LET n == tr.node[x]
  IN  IF n.which = side \/ (n.which = other /\ tr.node[n.parent][side] = NULL)
      THEN Climb(tr, n.parent, side, other) ELSE x

Neighbour(tr, x, side, other) ==
  LET top == Climb(tr, x, side, other)
  IN  IF tr.node[x][side] # NULL THEN Extreme(tr, tr.node[x][side], other)
      ELSE IF tr.node[top].which = "root" THEN NULL
      ELSE Extreme(tr, tr.node[tr.node[top].parent][side], other)

\* wre_find_weighted_interpolated: the two entries to interpolate between.
Interpolated(tr, ratio) ==
  LET found == FindWeighted(tr, tr.root, ratio[1], ratio[2])
      right == Neighbour(tr, found.best, "right", "left")
      inside == found.n < found.d
  IN  [left |-> found.best,
       right |-> IF inside THEN right ELSE Neighbour(tr, found.best, "left", "right"),
       fallback |-> inside /\ right = NULL,
       asserted |-> inside \/ right = NULL]

-----------------------------------------------------------------------------
RECURSIVE Below(_, _)
Below(tr, x) == IF x = NULL THEN {}
                ELSE {x} \cup Below(tr, tr.node[x].left) \cup Below(tr, tr.node[x].right)

Present == Below(tree, tree.root)
Total == MapThenSumSet(LAMBDA h : tree.node[h].own, Present)
Hotter(h) == {g \in Present : g > h}
Before(h) == MapThenSumSet(LAMBDA g : tree.node[g].own, Hotter(h))

\* The assertions of wre_calculate_subtree_size and of the rotations: links,
\* heights and weights agree, and no node leans by more than one, on which
\* wre_remove relies when it takes the only child of a node for a leaf.
TreeSound ==
  /\ tree.ok
  /\ tree.root # NULL => tree.node[tree.root].which = "root" /\ tree.node[tree.root].parent = NULL
  /\ \A h \in Present :
        /\ Lean(tree, h, "right", "left") \in -1..1
        /\ Update(tree, h) = tree
        /\ \A side \in {"left", "right"} : LET c == tree.node[h][side] IN
              c # NULL => /\ tree.node[c].which = side /\ tree.node[c].parent = h
                          /\ \A g \in Below(tree, c) : (g > h) = (side = "left")

\* The tree is the bag that the ranking needs: nothing is lost and nothing is
\* counted twice, whatever was rotated and replaced.
Bag == INSTANCE RankingBag
         WITH size <- [h \in Hotness |-> IF h \in Present THEN tree.node[h].own ELSE 0]
BagSpec == Bag!Spec

\* The entry found for a ratio is the one whose part of the weight, counted
\* from the hottest entry, the ratio falls in.
FindCovers ==
  tree.root # NULL =>
    \A r \in Ratios :
       LET best == FindWeighted(tree, tree.root, r[1], r[2]).best
       IN  /\ Before(best) * r[2] =< r[1] * Total
           /\ r[1] * Total =< (Before(best) + tree.node[best].own) * r[2]

\* Past the end of an entry's part there is no entry to its right: the assertion
\* of wre_find_weighted_interpolated.  It fails at the end of a part.
RightNodeAbsent ==
  tree.root # NULL => \A r \in Ratios : Interpolated(tree, r).asserted
=============================================================================
