----------------------------- MODULE RegionTree -----------------------------
(***************************************************************************)
(* The virtual memory regions of the kernel's AddressSpace                 *)
(* (sys/kernel/src/mem/address_space.rs): a weak AVL tree of regions in    *)
(* which every node also knows the range and the largest gap of its        *)
(* subtree (address_space_region.rs), and the search for a free spot that  *)
(* these two fields drive.  Addresses are page numbers.  What the regions  *)
(* map is the subject of module AddressSpace.                              *)
(***************************************************************************)
EXTENDS Integers, Sequences, FiniteSets, FiniteSetsExt, SequencesExt

CONSTANTS
    FirstPage,      \* max_range: the first page of the address space ...
    LastPage,       \* ... and the last
    Sizes,      \* the sizes of the mappings that are asked for, in pages
    Aligns,     \* their alignments, powers of two
    Reserved    \* the regions that reserve_wired_regions makes at boot,
                \* a sequence of <<start, end>>

Page == FirstPage..LastPage

ASSUME RegionAssumption ==
    /\ FirstPage \in Nat \ {0} /\ LastPage \in Nat
    /\ Sizes \subseteq Nat \ {0}
    /\ Aligns \subseteq Nat \ {0}
    /\ \A i \in DOMAIN Reserved :
          /\ FirstPage <= Reserved[i][1]
          /\ Reserved[i][1] < Reserved[i][2]
          /\ Reserved[i][2] <= LastPage
          /\ \A j \in DOMAIN Reserved :
                i # j => \/ Reserved[i][2] <= Reserved[j][1]
                         \/ Reserved[j][2] <= Reserved[i][1]

VARIABLES
    tree,       \* AddressSpace::regions
    mmaps,      \* the ranges of the Mmap handles that exist
    exact       \* history: no region with two children was ever removed

vars == <<tree, mmaps, exact>>

-----------------------------------------------------------------------------
(* The augmented data, address_space_region.rs.  The start of a region is  *)
(* its key; [start, end) is its range, [lo, hi) its max_range.             *)

NoData == [end |-> 0, lo |-> 0, hi |-> 0, max_gap |-> 0]

\* AddressSpaceRegion::new_zeroed, new_phys and new_wired
NewRegion(start, end) == [end |-> end, lo |-> start, hi |-> end, max_gap |-> 0]

gap(left_end, right_start) ==
    IF right_start > left_end THEN right_start - left_end ELSE 0

\* recompute a node from its children
update(t, n, left, right) ==
    LET d  == t.data[n]
        l  == IF left = 0 THEN [lo |-> n, gap |-> 0]
              ELSE [lo  |-> t.data[left].lo,
                    gap |-> Max({gap(t.data[left].hi, n), t.data[left].max_gap})]
        r  == IF right = 0 THEN [hi |-> d.end, gap |-> 0]
              ELSE [hi  |-> t.data[right].hi,
                    gap |-> Max({gap(d.end, t.data[right].lo), t.data[right].max_gap})]
    IN  [t EXCEPT !.data[n] = [end |-> d.end, lo |-> l.lo, hi |-> r.hi,
                               max_gap |-> Max({l.gap, r.gap})]]

RECURSIVE propagate_to_root(_, _)
propagate_to_root(t, n) ==
    IF n = 0 THEN t
    ELSE propagate_to_root(update(t, n, t.link[n].left, t.link[n].right), t.link[n].up)

after_insert(t, n) == propagate_to_root(t, t.link[n].up)

after_remove(t, parent) == propagate_to_root(t, parent)

\* Mutant: the node that is rotated down keeps its old data.
after_rotate_above(t, n, parent, sibling, lr_child, side) ==
    [t EXCEPT !.data[n] = [t.data[parent] EXCEPT !.end = t.data[n].end]]

after_rotate(t, n, parent, sibling, lr_child, side) ==
    LET t1 == [t EXCEPT !.data[n] =
                  [t.data[parent] EXCEPT !.end = t.data[n].end]]
    IN  IF side = "left" THEN update(t1, parent, sibling, lr_child)
                         ELSE update(t1, parent, lr_child, sibling)

W == INSTANCE WavlTree WITH
        Key         <- Page,
        AfterInsert <- after_insert,
        AfterRemove <- after_remove,
        AfterRotate <- after_rotate

-----------------------------------------------------------------------------
(* AddressSpace::find_spot *)

AlignUp(a, align) == ((a + align - 1) \div align) * align
AlignDown(a, align) == (a \div align) * align

\* Mutant: the last spot of a gap is not counted.
spots_in_range_but_last(size, align, from, to) ==
    LET start == AlignUp(from, align)
        end   == AlignDown(to, align)
    IN  IF start < end /\ end - start >= size
        THEN (end - start - size) \div align
        ELSE 0

spots_in_range(size, align, from, to) ==
    LET start == AlignUp(from, align)
        end   == AlignDown(to, align)
    IN  IF start < end /\ end - start >= size
        THEN (end - start - size) \div align + 1
        ELSE 0

\* A search so far: the index still to go, the spots seen, the spot found
\* (0 while there is none).
Look(s, size, align, from, to) ==
    LET count == spots_in_range(size, align, from, to)
    IN  IF s.spot # 0 THEN s
        ELSE IF s.index < count
             THEN [s EXCEPT !.spot = AlignUp(from, align) + s.index * align,
                            !.count = @ + count]
             ELSE [s EXCEPT !.index = @ - count, !.count = @ + count]

\* The walk over the tree: down to the left, over the gaps on both sides of
\* the node, down to the right, and up again.
RECURSIVE Walk(_, _, _, _, _, _)
Walk(t, n, visited, s, size, align) ==
    LET d     == t.data[n]
        left  == t.link[n].left
        right == t.link[n].right
        Unvisited(c) == c # 0 /\ t.data[c].max_gap >= size /\ t.data[c].hi > visited
        s1    == IF left = 0 THEN s ELSE Look(s, size, align, t.data[left].hi, n)
        s2    == IF right = 0 THEN s1 ELSE Look(s1, size, align, d.end, t.data[right].lo)
        Up(s_) == Walk(t, t.link[n].up, d.hi, s_, size, align)
    IN  IF n = 0 \/ s.spot # 0 THEN s
        ELSE IF d.max_gap < size THEN Up(s)
        ELSE IF Unvisited(left) THEN Walk(t, left, visited, s, size, align)
        ELSE IF s2.spot = 0 /\ Unvisited(right)
             THEN Walk(t, right, visited, s2, size, align)
        ELSE Up(s2)

find_spot_at_index(t, index, size, align) ==
    LET s0 == [index |-> index, count |-> 0, spot |-> 0]
        s1 == IF t.is_empty THEN Look(s0, size, align, FirstPage, LastPage) ELSE s0
        s2 == IF t.root = 0 THEN s1
              ELSE Look(s1, size, align, FirstPage, t.data[t.root].lo)
        s3 == Walk(t, t.root, 0, s2, size, align)
    IN  IF t.root = 0 THEN s3
        ELSE Look(s3, size, align, t.data[t.root].hi, LastPage)

\* All outcomes of find_spot over the random index: a first index that is too
\* large is drawn again below the number of spots that the walk has counted.
find_spot(t, size, align) ==
    LET count == find_spot_at_index(t, 2 * LastPage * LastPage, size, align).count
    IN  {find_spot_at_index(t, i, size, align).spot : i \in 0..count - 1}

-----------------------------------------------------------------------------
(* The operations, each under the lock around the AddressSpace *)

Insert(t, start, end) ==
    W!insert([t EXCEPT !.data[start] = NewRegion(start, end)], start)

Init ==
    /\ tree = FoldLeft(LAMBDA t, r : Insert(t, r[1], r[2]),
                       [root |-> 0, is_empty |-> TRUE,
                        link |-> [p \in Page |-> W!NewLinks],
                        data |-> [p \in Page |-> NoData]],
                       Reserved)
    /\ mmaps = {}
    /\ exact = TRUE

\* Mmap::new_zeroed and Mmap::new_phys: find a spot, insert the region.  The
\* insertion of a key that is there panics: the step does not happen.
map(layout_size, align) ==
    LET size == AlignUp(layout_size, align)     \* pad_to_align
    IN  \E spot \in find_spot(tree, size, align) :
            /\ spot # 0
            /\ spot \notin W!nodes(tree)
            /\ tree' = Insert(tree, spot, spot + size)
            /\ mmaps' = mmaps \cup {<<spot, spot + size>>}
            /\ UNCHANGED exact

\* Mmap::drop: the range must be covered by regions exactly, or the unwrap
\* panics; then the region at its start is removed.
unmap(m) ==
    LET bytes_seen == MapThenSumSet(LAMBDA n : tree.data[n].end - n,
                                    W!range(tree, m[1], m[2]))
        node       == W!find_internal(tree, m[1])[1]
    IN  /\ bytes_seen = m[2] - m[1]
        /\ tree' = [W!remove_internal(tree, node) EXCEPT !.data[node] = NoData]
        /\ mmaps' = mmaps \ {m}
        /\ exact' = (exact /\ \/ tree.link[node].left = 0
                              \/ tree.link[node].right = 0)

Next ==
    \/ \E size \in Sizes, align \in Aligns : map(size, align)
    \/ \E m \in mmaps : unmap(m)

Spec == Init /\ [][Next]_vars

-----------------------------------------------------------------------------

Ranges == mmaps \cup ToSet(Reserved)

Free(from, to) == \A r \in Ranges : to <= r[1] \/ r[2] <= from

\* The rank rule of weak AVL trees, which assert_valid states: every rank
\* difference is 1 or 2, counting a missing child as rank -1, and every leaf
\* has rank 0.  No sequence of insertions and removals breaks it.
RankRule ==
    \A n \in W!nodes(tree) :
        /\ \A side \in {"left", "right"} :
              W!rank(tree, n) - W!rank(tree, tree.link[n][side]) \in {1, 2}
        /\ W!is_leaf(tree, n) => W!rank(tree, n) = 0

\* The tree is the set of the regions that were mapped and not unmapped, linked
\* both ways and in the order of the addresses: every Mmap finds its region
\* when it is dropped, and a page fault finds the region around an address.
RegionsFound ==
    /\ W!subtree(tree, tree.root) = {r[1] : r \in Ranges}
    /\ W!nodes(tree) = {r[1] : r \in Ranges}
    /\ \A r \in Ranges : /\ tree.data[r[1]].end = r[2]
                         /\ W!find_internal(tree, r[1])[1] = r[1]
    /\ \A n \in W!nodes(tree) : \A side \in {"left", "right"} :
          \A c \in W!subtree(tree, tree.link[n][side]) : (side = "left") <=> (c < n)
    /\ \A n \in W!nodes(tree) : \A side \in {"left", "right"} :
          tree.link[n][side] # 0 => tree.link[tree.link[n][side]].up = n

\* Until a region with two children is removed, max_range and max_gap of every
\* region are those of its subtree, through all rotations.
SubtreesExact ==
    exact => \A n \in W!nodes(tree) :
        LET sub == W!subtree(tree, n)
            end(m) == tree.data[m].end
            gaps == {0} \cup {k - end(m) : <<m, k>> \in
                        {<<m, k>> \in sub \X sub :
                            m < k /\ \A j \in sub : j <= m \/ k <= j}}
        IN  /\ tree.data[n].lo = Min(sub)
            /\ tree.data[n].hi = Max({end(m) : m \in sub})
            /\ tree.data[n].max_gap = Max(gaps)

\* Until then find_spot returns every aligned free range of the size, and
\* nothing else: a mapping never overlaps another, it fails only when there is
\* no room, and the second draw of the random index always hits a spot.
SpotsAreFree ==
    exact => \A s \in Sizes, align \in Aligns :
        LET size == AlignUp(s, align)
        IN  find_spot(tree, size, align) =
                {p \in Page : p % align = 0 /\ p + size <= LastPage /\ Free(p, p + size)}

\* No two mappings overlap.
RegionsDisjoint ==
    \A r, s \in Ranges : r # s => r[2] <= s[1] \/ s[2] <= r[1]

=============================================================================
