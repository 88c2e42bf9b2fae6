------------------------------ MODULE WavlTree ------------------------------
(***************************************************************************)
(* The intrusive weak AVL tree of lib/wavltree.  A tree is a record: the   *)
(* root, the Links of every node (parent, children, rank) and the data of  *)
(* the elements that the three hooks of the Linked trait maintain.  The    *)
(* hooks are parameters, as they are in the code; a node is named by its   *)
(* key.  Every operation is an operator from trees to trees; the loops of  *)
(* the code are recursive operators.                                       *)
(*                                                                         *)
(* Only the parity of a rank exists in release builds, and all decisions   *)
(* read it alone.  The rank itself, which debug builds keep, is in the     *)
(* model so that the rank rule can be stated.  An unwrap of a missing node *)
(* is an access outside the domain of link, which TLC reports.             *)
(***************************************************************************)
EXTENDS Integers

CONSTANTS
    Key,                       \* the keys, positive integers
    AfterInsert(_, _),         \* Linked::after_insert(tree, node)
    AfterRemove(_, _),         \* Linked::after_remove(tree, parent)
    AfterRotate(_, _, _, _, _, _)
                               \* Linked::after_rotate(tree, node, parent,
                               \*    sibling, lr_child, side)

None == 0

opposite(side) == IF side = "left" THEN "right" ELSE "left"

\* Links::new: a leaf of rank 0
NewLinks == [up |-> None, left |-> None, right |-> None, rank |-> 0]

is_leaf(t, n) == t.link[n].left = None /\ t.link[n].right = None

is_linked(t, n) == \/ t.link[n].up # None
                   \/ ~is_leaf(t, n)

rank_parity(t, n) == t.link[n].rank % 2 = 1

\* promote, demote, double_promote and double_demote
Rerank(t, n, by) == [t EXCEPT !.link[n].rank = @ + by]

\* replace_parent of a link that may be missing
ReplaceParent(t, n, p) ==
    IF n = None THEN t ELSE [t EXCEPT !.link[n].up = p]

\* make c the child of p on a side, and p the parent of c
ReplaceChild(t, p, side, c) ==
    ReplaceParent([t EXCEPT !.link[p][side] = c], c, p)

\* make c the child of p (or the root) where old was
ReplaceIn(t, p, old, c) ==
    IF p = None
    THEN ReplaceParent([t EXCEPT !.root = c], c, None)
    ELSE ReplaceChild(t, p, IF t.link[p].left = old THEN "left" ELSE "right", c)

-----------------------------------------------------------------------------
(* utils.rs *)

\* the side of the sibling, for a node that may be missing
sibling_side(t, n, p) == IF t.link[p].left = n THEN "right" ELSE "left"

get_sibling(t, n, p) == t.link[p][sibling_side(t, n, p)]

\* a missing node has rank -1
get_link_parity(t, n) == n = None \/ rank_parity(t, n)

node_is_2_child(t, n, p) == rank_parity(t, n) = rank_parity(t, p)

RECURSIVE find_minimum(_, _)
find_minimum(t, n) ==
    IF t.link[n].left = None THEN n ELSE find_minimum(t, t.link[n].left)

RECURSIVE Ascend(_, _)
Ascend(t, n) ==
    LET p == t.link[n].up
    IN  IF p = None \/ t.link[p].right # n THEN p ELSE Ascend(t, p)

\* the in-order successor
next(t, n) ==
    IF t.link[n].right # None THEN find_minimum(t, t.link[n].right)
                              ELSE Ascend(t, n)

-----------------------------------------------------------------------------
(* Searching *)

RECURSIVE LowerBound(_, _, _, _)
LowerBound(t, bound, n, result) ==
    IF n = None THEN result
    ELSE IF bound <= n THEN LowerBound(t, bound, t.link[n].left, n)
                       ELSE LowerBound(t, bound, t.link[n].right, result)

\* with Bound::Included
find_lower_bound(t, bound) == LowerBound(t, bound, t.root, None)

RECURSIVE UpperBound(_, _, _, _)
UpperBound(t, bound, n, result) ==
    IF n = None THEN result
    ELSE IF bound < n THEN UpperBound(t, bound, t.link[n].left, result)
                      ELSE UpperBound(t, bound, t.link[n].right, n)

\* with Bound::Included; Bound::Excluded(k) is the one of k - 1
find_upper_bound(t, bound) == UpperBound(t, bound, t.root, None)

RECURSIVE Descend(_, _, _, _)
Descend(t, key, n, parent) ==
    IF n = None \/ n = key THEN <<n, parent>>
    ELSE Descend(t, key, t.link[n][IF key < n THEN "left" ELSE "right"], n)

\* the node with the key, or None, and the last node before it
find_internal(t, key) == Descend(t, key, t.root, None)

RECURSIVE IterFrom(_, _, _)
IterFrom(t, head, tail) ==
    IF head = None THEN {}
    ELSE {head} \cup IF head = tail THEN {}
                     ELSE IterFrom(t, next(t, head), tail)

\* the elements that iterating range(from..to) yields
range(t, from, to) ==
    IterFrom(t, find_lower_bound(t, from), find_upper_bound(t, to - 1))

-----------------------------------------------------------------------------
(* Rotations *)

rotate_at(t, x, side) ==
    LET y   == t.link[x][side]
        z   == t.link[x].up
        p_z == t.link[z].up
        t1  == AfterRotate(t, x, z, get_sibling(t, x, z), y, side)
        t2  == ReplaceIn(t1, p_z, z, x)
        t3  == ReplaceChild(t2, x, side, z)
    IN  ReplaceChild(t3, z, opposite(side), y)

double_rotate_at(t, y, side) ==
    LET x   == t.link[y].up
        z   == t.link[x].up
        p_z == t.link[z].up
        t1  == AfterRotate(t, y, x, get_sibling(t, y, x),
                           t.link[y][opposite(side)], opposite(side))
        t2  == AfterRotate(t1, y, z, get_sibling(t, x, z),
                           t.link[y][side], side)
        t3  == ReplaceIn(t2, p_z, z, y)
        \* move_subtrees(lt, gt)
        lt  == IF side = "left" THEN z ELSE x
        gt  == IF side = "left" THEN x ELSE z
        t4  == ReplaceChild(t3, lt, "right", t3.link[y].left)
        t5  == ReplaceChild(t4, gt, "left", t4.link[y].right)
        t6  == ReplaceChild(t5, y, "left", lt)
    IN  ReplaceChild(t6, y, "right", gt)

-----------------------------------------------------------------------------
(* Insertion *)

\* x is 0-child of a 0,2 parent: one rotation restores the rank rule
RotateAfterInsert(t, x, side) ==
    LET y == t.link[x][side]
        z == t.link[x].up
    IN  IF y # None /\ rank_parity(t, y) # rank_parity(t, x)
        THEN Rerank(Rerank(Rerank(double_rotate_at(t, y, side), y, 1), x, -1), z, -1)
        ELSE Rerank(rotate_at(t, x, side), z, -1)

\* promote a 0,1 parent and climb, until the parent is not 0,1
RECURSIVE PromoteAndClimb(_, _)
PromoteAndClimb(t, x) ==
    LET t1  == Rerank(t, x, 1)
        p   == t.link[x].up
        N   == rank_parity(t1, x)
        P   == rank_parity(t1, p)
        S   == get_link_parity(t1, get_sibling(t1, x, p))
    IN  CASE p = None       -> t1
          [] N = P /\ N # S -> PromoteAndClimb(t1, p)
          [] N = P /\ N = S -> RotateAfterInsert(t1, x, sibling_side(t1, x, p))
          [] OTHER          -> t1

balance_after_insert(t, x) == PromoteAndClimb(t, t.link[x].up)

\* The element's data is there already.  Of size only is_empty is read, and
\* CursorMut::remove, unlike WAVLTree::remove, never counts down: is_empty
\* turns false with the first insertion and stays so.
insert(t, n) ==
    LET parent   == find_internal(t, n)[2]
        was_leaf == parent # None /\ is_leaf(t, parent)
        t1       == IF parent = None
                    THEN [t EXCEPT !.root = n]
                    ELSE ReplaceChild(t, parent, IF n < parent THEN "left" ELSE "right", n)
        t2       == AfterInsert(t1, n)
        t3       == [t2 EXCEPT !.is_empty = FALSE]
    IN  IF was_leaf THEN balance_after_insert(t3, n) ELSE t3

-----------------------------------------------------------------------------
(* Removal *)

\* Both children of y are 2-children.
is_22_node(t, y) ==
    IF rank_parity(t, y)
    THEN /\ get_link_parity(t, t.link[y].left)
         /\ get_link_parity(t, t.link[y].right)
    ELSE \A side \in {"left", "right"} :
            /\ t.link[y][side] # None
            /\ ~rank_parity(t, t.link[y][side])

RotateAfterRemove(t, x, z) ==
    LET side == sibling_side(t, x, z)
        y    == t.link[z][side]
        v    == t.link[y][opposite(side)]
        w    == t.link[y][side]
        t1   == Rerank(Rerank(rotate_at(t, y, opposite(side)), y, 1), z, -1)
    IN  IF get_link_parity(t, w) # rank_parity(t, y)
        THEN IF is_leaf(t1, z) THEN Rerank(t1, z, -1) ELSE t1
        ELSE Rerank(Rerank(Rerank(double_rotate_at(t, v, opposite(side)), v, 2), y, -1), z, -2)

\* x, which may be missing, is a 3-child of z
RECURSIVE rebalance_after_remove_3_child(_, _, _)
rebalance_after_remove_3_child(t, x, z) ==
    LET y     == get_sibling(t, x, z)
        p_z   == t.link[z].up
        creates_3_node == p_z # None /\ node_is_2_child(t, z, p_z)
        Climb(t1) == IF creates_3_node
                     THEN rebalance_after_remove_3_child(t1, z, p_z)
                     ELSE t1
    IN  CASE get_link_parity(t, y) = rank_parity(t, z)
                -> Climb(Rerank(t, z, -1))
          [] get_link_parity(t, y) # rank_parity(t, z) /\ is_22_node(t, y)
                -> Climb(Rerank(Rerank(t, y, -1), z, -1))
          [] OTHER -> RotateAfterRemove(t, x, z)

\* Mutant: the parent, whose child may now be a 3-child, is left alone.
rebalance_after_remove_2_2_leaf_only(t, x) ==
    IF ~rank_parity(t, x) \/ ~is_leaf(t, x) THEN t ELSE Rerank(t, x, -1)

rebalance_after_remove_2_2_leaf(t, x) ==
    LET p  == t.link[x].up
        t1 == Rerank(t, x, -1)
    IN  IF ~rank_parity(t, x) \/ ~is_leaf(t, x) THEN t
        ELSE IF p # None /\ node_is_2_child(t, x, p)
             THEN rebalance_after_remove_3_child(t1, x, p)
             ELSE t1

\* Mutant: the parent of old is not told.
swap_in_node_at_below(t, old, new) ==
    LET t1 == ReplaceParent(t, new, t.link[old].up)
        t2 == ReplaceChild(t1, new, "left", t.link[old].left)
        t3 == ReplaceChild(t2, new, "right", t.link[old].right)
    IN  [t3 EXCEPT !.link[new].rank = t.link[old].rank]

\* put new where old is, with old's children and rank
swap_in_node_at(t, old, new) ==
    LET t1 == ReplaceIn(t, t.link[old].up, old, new)
        t2 == ReplaceChild(t1, new, "left", t.link[old].left)
        t3 == ReplaceChild(t2, new, "right", t.link[old].right)
    IN  [t3 EXCEPT !.link[new].rank = t.link[old].rank]

\* y is spliced out, and takes the place of the node if it is another one
remove_internal(t, node) ==
    LET links  == t.link[node]
        y      == IF links.left # None /\ links.right # None
                  THEN find_minimum(t, links.right) ELSE node
        p_y    == t.link[y].up
        x      == IF t.link[y].left # None THEN t.link[y].left ELSE t.link[y].right
        is_2_child == p_y # None /\ node_is_2_child(t, y, p_y)
        t1     == ReplaceIn(t, p_y, y, x)
        t2     == IF y = node THEN t1 ELSE swap_in_node_at(t1, node, y)
        p      == IF p_y = node THEN y ELSE p_y
        t3     == AfterRemove(t2, links.up)
        t4     == CASE p = None   -> t3
                    [] p # None /\ is_2_child
                                  -> rebalance_after_remove_3_child(t3, x, p)
                    [] p # None /\ ~is_2_child /\ x = None /\ is_leaf(t3, p)
                                  -> rebalance_after_remove_2_2_leaf(t3, p)
                    [] OTHER      -> t3
    IN  [t4 EXCEPT !.link[node] = NewLinks]

-----------------------------------------------------------------------------
(* What a tree is, for the properties *)

nodes(t) == {n \in Key : n = t.root \/ is_linked(t, n)}

RECURSIVE subtree(_, _)
subtree(t, n) ==
    IF n = None THEN {}
    ELSE {n} \cup subtree(t, t.link[n].left) \cup subtree(t, t.link[n].right)

rank(t, n) == IF n = None THEN -1 ELSE t.link[n].rank

=============================================================================
