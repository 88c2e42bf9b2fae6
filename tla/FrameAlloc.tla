----------------------------- MODULE FrameAlloc -----------------------------
(***************************************************************************)
(* The physical frame allocator of the kernel                              *)
(* (sys/kernel/src/mem/frame_alloc): buddy arenas shared by all CPUs, one  *)
(* cache of free frames per CPU, and the reference count of every frame.   *)
(* An allocator is a record and every operation an operator from           *)
(* allocators to allocators; module AddressSpace composes them with the    *)
(* users of the frames.  Addresses are frame numbers.                      *)
(***************************************************************************)
EXTENDS Integers, Sequences, FiniteSets, FiniteSetsExt, SequencesExt

CONSTANTS
    Cpus,
    MAX_ORDER,          \* the number of buddy free lists of an arena
    FramesPerBookPage,  \* the frames whose FrameInfo fit into one page
    MaxWaste,           \* MAX_WASTED_ARENA_BYTES, as frames in holes
    MemoryRegions       \* the lists of free memory regions that the loader may
                        \* pass, sequences of <<start, end>>

ASSUME FrameAssumption ==
    /\ MAX_ORDER \in Nat \ {0}
    /\ FramesPerBookPage \in Nat \ {0}
    /\ MaxWaste \in Nat
    /\ \A rs \in MemoryRegions : \A i \in DOMAIN rs :
          /\ 0 < rs[i][1] /\ rs[i][1] < rs[i][2]
          /\ \A j \in DOMAIN rs :
                i # j => rs[i][2] <= rs[j][1] \/ rs[j][2] <= rs[i][1]

CeilDiv(a, b) == (a + b - 1) \div b

PowersOfTwo(n) == {2^k : k \in 0..n}

\* The exponents that occur are those of numbers below 2^12.
Log2(n) == CHOOSE k \in 0..12 : 2^k <= n /\ n < 2^(k + 1)

NextPowerOfTwo(n) == 2^(CHOOSE k \in 0..12 : 2^k >= n /\ (k = 0 \/ 2^(k - 1) < n))

-----------------------------------------------------------------------------
(* Arena selection: regions with small holes between them share an arena,  *)
(* and the last frames of the largest one hold the bookkeeping.            *)

\* Pop a region, then more as long as the holes they leave are affordable.
Absorb(free_regions, wasted) ==
    LET n == Len(free_regions)
        a[k \in 0..n - 1] ==
            IF k = 0
            THEN [hull |-> free_regions[n], taken |-> {free_regions[n]},
                  wasted |-> wasted, full |-> FALSE]
            ELSE LET p    == a[k - 1]
                     r    == free_regions[n - k]
                     hole == IF p.hull[2] <= r[1] THEN r[1] - p.hull[2]
                                                  ELSE p.hull[1] - r[2]
                 IN  IF p.full \/ p.wasted + hole > MaxWaste
                     THEN [p EXCEPT !.full = TRUE]
                     ELSE [hull   |-> <<Min({p.hull[1], r[1]}), Max({p.hull[2], r[2]})>>,
                           taken  |-> p.taken \cup {r},
                           wasted |-> p.wasted + hole,
                           full   |-> FALSE]
    IN  a[n - 1]

\* The largest region, the last one of several.
Host(regions) ==
    CHOOSE h \in regions : \A r \in regions :
        \/ r[2] - r[1] < h[2] - h[1]
        \/ r[2] - r[1] = h[2] - h[1] /\ r[1] <= h[1]

\* ArenaSelections::next, over and over: the arenas, each with its hull, the
\* regions to allocate from and the bookkeeping frames.  A selection that has
\* no room for its bookkeeping is skipped, and the waste it has added up is
\* not forgotten.
select_arenas(free_regions) ==
    LET n == Len(free_regions)
        s[k \in 0..n] ==    \* with k regions left
            IF k = n THEN [left |-> n, wasted |-> 0, arenas |-> <<>>]
            ELSE LET p == s[k + 1]
                     a == Absorb(SubSeq(free_regions, 1, p.left), p.wasted)
                     h == Host(a.taken)
                     need == CeilDiv(a.hull[2] - a.hull[1], FramesPerBookPage)
                     rest == (a.taken \ {h}) \cup
                                 {r \in {<<h[1], h[2] - need>>} : r[1] < r[2]}
                 IN  IF p.left = 0 THEN p
                     ELSE IF h[2] - h[1] < need
                     THEN [p EXCEPT !.left = @ - Cardinality(a.taken),
                                    !.wasted = a.wasted]
                     ELSE [left   |-> p.left - Cardinality(a.taken),
                           wasted |-> 0,
                           arenas |-> Append(p.arenas,
                                [hull |-> a.hull, allocatable |-> rest,
                                 bookkeeping |-> <<h[2] - need, h[2]>>])]
    IN  s[0].arenas

-----------------------------------------------------------------------------
(* Arena *)

\* The blocks that a region is cut into: as large as the alignment of their
\* address, the rest of the region and the number of free lists allow.
blocks(region) ==
    LET b[addr \in region[1]..region[2]] ==
            IF addr = region[2] THEN {}
            ELSE LET remaining == region[2] - addr
                     size == Max({p \in PowersOfTwo(MAX_ORDER - 1) :
                                    addr % p = 0 /\ p <= remaining})
                 IN  {<<addr, Log2(size)>>} \cup b[addr + size]
    IN  b[region[1]]

from_selection(selection) ==
    LET bs == UNION {blocks(r) : r \in selection.allocatable}
    IN  [selection  |-> selection,
         free_lists |-> [o \in 0..MAX_ORDER - 1 |->
                            SetToSortSeq({b[1] : b \in {b \in bs : b[2] = o}}, <)],
         max_order  |-> Max({0} \cup {b[2] : b \in bs})]

\* Mutant: the upper halves are placed as if every split were the last one.
TakeBlock_misplaced(arena, min_order) ==
    LET orders == {o \in min_order..arena.max_order : arena.free_lists[o] # <<>>}
        found  == Min(orders)
        frame  == Last(arena.free_lists[found])
    IN  IF orders = {} THEN [arena |-> arena, frame |-> 0, buddies |-> {}]
        ELSE [arena   |-> [arena EXCEPT !.free_lists =
                              [o \in DOMAIN @ |->
                                  CASE o = found -> Front(@[o])
                                    [] o \in min_order..found - 1
                                                 -> Append(@[o], frame + 2^min_order)
                                    [] OTHER     -> @[o]]],
              frame   |-> frame,
              buddies |-> {frame + 2^min_order : o \in min_order..found - 1}]

\* Pop a block of the smallest order that will do, and split it: every upper
\* half goes to the list of its order.  Frame 0 when there is none.
TakeBlock(arena, min_order) ==
    LET orders == {o \in min_order..arena.max_order : arena.free_lists[o] # <<>>}
        found  == Min(orders)
        frame  == Last(arena.free_lists[found])
    IN  IF orders = {} THEN [arena |-> arena, frame |-> 0, buddies |-> {}]
        ELSE [arena   |-> [arena EXCEPT !.free_lists =
                              [o \in DOMAIN @ |->
                                  CASE o = found -> Front(@[o])
                                    [] o \in min_order..found - 1
                                                 -> Append(@[o], frame + 2^o)
                                    [] OTHER     -> @[o]]],
              frame   |-> frame,
              buddies |-> {frame + 2^o : o \in min_order..found - 1}]

-----------------------------------------------------------------------------
(* The allocator: [arenas, cache, refcount] *)

Hull(arenas) == UNION {arenas[i].selection.hull[1]..arenas[i].selection.hull[2] - 1 :
                          i \in DOMAIN arenas}

\* FrameAllocator::new: all frames start wired, the first of every free block
\* is marked free.
new(memory_regions) ==
    LET selections == select_arenas(memory_regions)
        arenas == [i \in DOMAIN selections |-> from_selection(selections[i])]
        bases  == UNION {UNION {ToSet(arenas[i].free_lists[o]) : o \in 0..MAX_ORDER - 1} :
                            i \in DOMAIN arenas}
    IN  [arenas   |-> arenas,
         cache    |-> [c \in Cpus |-> <<>>],
         refcount |-> [f \in Hull(arenas) |-> IF f \in bases THEN 0 ELSE 1]]

MarkFree(refcount, frames) ==
    [f \in DOMAIN refcount |-> IF f \in frames THEN 0 ELSE refcount[f]]

\* Arena i has given the block t: the upper halves are marked free.
TakeFrom(fa, i, t) ==
    [fa    |-> [fa EXCEPT !.arenas[i] = t.arena, !.refcount = MarkFree(@, t.buddies)],
     frame |-> t.frame]

\* The first arena that has a block of the order gives it.
TakeGlobal(fa, min_order) ==
    LET able == {i \in DOMAIN fa.arenas : TakeBlock(fa.arenas[i], min_order).frame # 0}
        i    == Min(able)
    IN  IF able = {} THEN [fa |-> fa, frame |-> 0]
        ELSE TakeFrom(fa, i, TakeBlock(fa.arenas[i], min_order))

\* Frame::from_free_info: the first reference.
from_free_info(t) ==
    IF t.frame = 0 THEN t ELSE [t EXCEPT !.fa.refcount[t.frame] = 1]

\* FrameAllocator::alloc_one: from the cache of the CPU, else from an arena.
\* Frame 0 is an AllocError.
alloc_one(fa, cpu) ==
    from_free_info(IF fa.cache[cpu] # <<>>
                   THEN [fa    |-> [fa EXCEPT !.cache[cpu] = Tail(@)],
                         frame |-> Head(fa.cache[cpu])]
                   ELSE TakeGlobal(fa, 0))

\* GlobalFrameAllocator::allocate_contiguous: all frames of the block, which may
\* be larger than what was asked for.
allocate_contiguous(fa, frames_needed, align) ==
    LET size == Max({NextPowerOfTwo(frames_needed), align})
        t    == TakeGlobal(fa, Log2(size))
    IN  IF t.frame = 0 THEN [fa |-> fa, frames |-> <<>>]
        ELSE [fa     |-> [t.fa EXCEPT !.refcount =
                             MarkFree(@, t.frame..t.frame + size - 1)],
              frames |-> [i \in 1..size |-> t.frame + i - 1]]

\* Mutant: the frame that ends a run does not begin the next one.
find_contiguous_run_skip(list, frames_needed, align) ==
    LET Step(s, i) ==
            LET extends_run == i > 1 /\ list[i] = list[i - 1] + 1
            IN  IF s.run = frames_needed THEN s
                ELSE IF s.run > 0
                THEN [s EXCEPT !.run = IF extends_run THEN @ + 1 ELSE 0]
                ELSE IF list[i] % align = 0 THEN [start |-> i, run |-> 1]
                ELSE s
        s == FoldLeft(Step, [start |-> 0, run |-> 0], [i \in DOMAIN list |-> i])
    IN  IF s.run = frames_needed THEN s.start ELSE 0

\* The first position of frames_needed neighbours in the cache, the first of
\* them aligned; 0 when there is none.
find_contiguous_run(list, frames_needed, align) ==
    LET Step(s, i) ==
            LET extends_run == i > 1 /\ list[i] = list[i - 1] + 1
            IN  IF s.run = frames_needed THEN s
                ELSE IF s.run > 0 /\ extends_run THEN [s EXCEPT !.run = @ + 1]
                ELSE IF list[i] % align = 0 THEN [start |-> i, run |-> 1]
                ELSE [s EXCEPT !.run = 0]
        s == FoldLeft(Step, [start |-> 0, run |-> 0], [i \in DOMAIN list |-> i])
    IN  IF s.run = frames_needed THEN s.start ELSE 0

\* CpuLocalFrameCache::allocate_contiguous
TakeRun(fa, cpu, frames_needed, align) ==
    LET list  == fa.cache[cpu]
        start == IF Len(list) < frames_needed THEN 0
                 ELSE find_contiguous_run(list, frames_needed, align)
    IN  IF start = 0 THEN [fa |-> fa, frames |-> <<>>]
        ELSE [fa     |-> [fa EXCEPT !.cache[cpu] =
                             SubSeq(list, 1, start - 1) \o
                             SubSeq(list, start + frames_needed, Len(list))],
              frames |-> SubSeq(list, start, start + frames_needed - 1)]

\* FrameAllocator::alloc_contiguous: from the cache, else refill the cache from
\* an arena and try again.  No frames are an AllocError.
alloc_contiguous(fa, cpu, frames_needed, align) ==
    LET fast   == TakeRun(fa, cpu, frames_needed, align)
        refill == allocate_contiguous(fa, frames_needed, align)
        filled == [refill.fa EXCEPT !.cache[cpu] = @ \o refill.frames]
    IN  IF fast.frames # <<>> THEN fast
        ELSE IF refill.frames = <<>> THEN refill
        ELSE TakeRun(filled, cpu, frames_needed, align)

\* Frame::clone
clone(fa, frame) == [fa EXCEPT !.refcount[frame] = @ + 1]

\* Mutant: every reference that is dropped frees the frame.
drop_every(fa, cpu, frame) ==
    [fa EXCEPT !.refcount[frame] = @ - 1, !.cache[cpu] = Append(@, frame)]

\* Frame::drop: the last reference gives the frame to the cache of the CPU that
\* drops it.  No frame ever goes back to its arena.
drop(fa, cpu, frame) ==
    LET last == fa.refcount[frame] = 1
    IN  [fa EXCEPT !.refcount[frame] = @ - 1,
                   !.cache[cpu] = IF last THEN Append(@, frame) ELSE @]

DropAll(fa, cpu, frames) == FoldLeft(LAMBDA a, f : drop(a, cpu, f), fa, frames)

=============================================================================
