---------------------------- MODULE AddressSpace ----------------------------
(***************************************************************************)
(* The kernel address space in use: mappings are made, their pages are     *)
(* filled by page faults or committed ahead of time, code is made          *)
(* executable, mappings are dropped.  Every region has a virtual memory    *)
(* object (vmo.rs, provider.rs, frame_list.rs) that holds its frames; the  *)
(* page table (arch/riscv64/mem.rs) maps them and takes frames for its own *)
(* tables; module FrameAlloc hands all of them out.  The kernel heap       *)
(* (allocator.rs) is the other user of frames, on every CPU.               *)
(*                                                                         *)
(* All operations on the address space run under its lock, but not in one  *)
(* step: op is the operation of the lock holder, and the heap may grow on  *)
(* the other CPUs between two of its steps.  A page fault that finds the   *)
(* lock taken is given up (trap_handler.rs) and changes nothing.  Which    *)
(* free range find_spot picks is the subject of module RegionTree; here it *)
(* may be any.  The page table has two levels of tables below the root, as *)
(* Sv39 has.                                                               *)
(***************************************************************************)
EXTENDS FrameAlloc

CONSTANTS
    FirstPage,          \* the virtual pages of the address space:
    Pages,              \* where they begin and how many there are
    TableEntries,       \* PAGE_TABLE_ENTRIES
    FANOUT,             \* FRAME_LIST_NODE_FANOUT
    Sizes,              \* the sizes of the mappings, in pages
    HeapNeeds,          \* the sizes that the heap asks for, in pages
    MaxHeapChunks,      \* MAX_HEAP_CHUNKS
    SharedMemories,     \* two CPUs use the same linear memory at the same time
    MaxMmaps            \* bound: how many mappings are ever made

Page == FirstPage..FirstPage + Pages - 1

\* A table of level 0 covers TableEntries pages, one of level 1 as many tables
\* of level 0.
Covers(lvl) == TableEntries ^ (lvl + 1)
TableOf(page, lvl) == <<lvl, page \div Covers(lvl)>>
Table == {TableOf(p, lvl) : p \in Page, lvl \in {0, 1}}

ASSUME PageAssumption ==
    /\ FirstPage \in Nat /\ Pages \in Nat \ {0}
    /\ TableEntries \in Nat \ {0} /\ FANOUT \in Nat \ {0}
    /\ Sizes \subseteq Nat \ {0} /\ HeapNeeds \subseteq Nat \ {0}
    /\ MaxHeapChunks \in Nat /\ MaxMmaps \in Nat /\ SharedMemories \in BOOLEAN

VARIABLES
    fa,             \* the FrameAllocator
    heap,           \* KernelHeapSource::chunks, sets of frames
    zero,           \* the frame of THE_ZERO_FRAME, 0 until it is first needed
    regions,        \* AddressSpace::regions, by first page
    pte,            \* the leaf entries of the page table
    tables,         \* its tables, which are the wired_frames; 0 is none
    last_fault,     \* AddressSpace::last_fault
    op,             \* the operation of the holder of the lock
    mmaps,          \* how many mappings have been made
    panicked,       \* an assertion has failed, an unwrap has panicked, or a
                    \* freed region has been used: what follows is not modelled
    holed           \* history: what an unmap that stopped too early has left
                    \* behind, an "entry" or an empty "table"

vars == <<fa, heap, zero, regions, pte, tables, last_fault, op, mmaps, panicked, holed>>

\* The first page of the region, the page, and whether the region still exists.
NoFault == [region |-> 0, page |-> 0, state |-> "none"]

Idle == [kind |-> "idle"]

NoEntry == [frame |-> 0, flags |-> {}]

PagesOf(start) == start..regions[start].end - 1

\* upper_bound and the test that the region contains the page
RegionsAt(page) == {start \in DOMAIN regions : page \in PagesOf(start)}

Init ==
    /\ \E rs \in MemoryRegions : fa = new(rs)
    /\ heap = {}
    /\ zero = 0
    /\ regions = <<>>
    /\ pte = [p \in Page |-> NoEntry]
    /\ tables = [t \in Table |-> 0]
    /\ last_fault = NoFault
    /\ op = Idle
    /\ mmaps = 0
    /\ panicked = FALSE
    /\ holed = {}

-----------------------------------------------------------------------------
(* FrameList: the set of its frames, each with its offset and with the key *)
(* of the node that it is in.                                              *)

node_offset(offset) == (offset \div FANOUT) * FANOUT

Get(frames, offset) ==
    {e \in frames : e.key = node_offset(offset) /\ e.offset = offset}

\* insert: a node that is missing is made with the key of the frame instead of
\* its own.  The frame that was there is dropped by the caller.
insert(frames, offset, frame) ==
    LET found == \E e \in frames : e.key = node_offset(offset)
        key   == IF found THEN node_offset(offset) ELSE offset
    IN  (frames \ {e \in frames : e.key = key /\ found /\ e.offset = offset})
            \cup {[key |-> key, offset |-> offset, frame |-> frame]}

\* Entry::insert of a vacant entry
insert_vacant(frames, offset, frame) ==
    frames \cup {[key |-> node_offset(offset), offset |-> offset, frame |-> frame]}

\* The order in which free_frames and then the drop of the list let go.
InOrder(frames) ==
    LET less(d, e) == d.key < e.key \/ (d.key = e.key /\ d.offset < e.offset)
        sorted == SetToSortSeq(frames, less)
    IN  [i \in DOMAIN sorted |-> sorted[i].frame]

-----------------------------------------------------------------------------
(* PagedVmo.  The results: the frame (0 for an AllocError), whether an     *)
(* assertion failed, and the new allocator, zero frame and frame list.     *)

Result(frame, panic, fa_, zero_, frames) ==
    [frame |-> frame, panic |-> panic, fa |-> fa_, zero |-> zero_, frames |-> frames]

\* A resident frame must be shared, and that is the zero frame, for nothing
\* else ever is: it is replaced by a new frame of zeroes.
require_owned_frame(cpu, frames, offset) ==
    LET old    == Get(frames, offset)
        t      == alloc_one(fa, cpu)
        shared == \A e \in old : fa.refcount[e.frame] # 1
        dropped == DropAll(t.fa, cpu, InOrder(old))
    IN  IF ~shared THEN Result(0, TRUE, fa, zero, frames)
        ELSE IF t.frame = 0 THEN Result(0, FALSE, fa, zero, frames)
        ELSE Result(t.frame, FALSE, dropped, zero, insert(frames, offset, t.frame))

\* TheZeroFrame::get_frame for reading: the zero frame is allocated when it is
\* first needed, and that allocation must succeed.
require_read_frame(cpu, frames, offset) ==
    LET old == Get(frames, offset)
        t   == IF zero # 0 THEN [fa |-> fa, frame |-> zero] ELSE alloc_one(fa, cpu)
    IN  IF old # {}
        THEN Result((CHOOSE e \in old : TRUE).frame, FALSE, fa, zero, frames)
        ELSE IF t.frame = 0 THEN Result(0, TRUE, fa, zero, frames)
        ELSE Result(t.frame, FALSE, clone(t.fa, t.frame), t.frame,
                    insert_vacant(frames, offset, t.frame))

-----------------------------------------------------------------------------
(* Mappings *)

\* Mmap::new_zeroed.  The pages of a "lazy" mapping, a linear memory, are touched
\* in any order; a "new" one is for code: MmapVec::from_slice makes it "filled"
\* before anybody else knows its address, CodeObject::publish "published".
new_zeroed(start, size, stage) ==
    /\ op = Idle
    /\ mmaps < MaxMmaps
    /\ mmaps' = mmaps + 1
    /\ start..start + size - 1 \subseteq Page
    /\ \A p \in start..start + size - 1 : RegionsAt(p) = {}
    /\ regions' = [s \in DOMAIN regions \cup {start} |->
                      IF s = start
                      THEN [end |-> start + size, permissions |-> {"R", "W"},
                            frames |-> {}, stage |-> stage]
                      ELSE regions[s]]
    /\ UNCHANGED <<fa, heap, zero, pte, tables, last_fault, op, panicked, holed>>

Panic == /\ panicked' = TRUE
         /\ UNCHANGED <<fa, heap, zero, regions, pte, tables, last_fault, op, mmaps, holed>>

\* queue_map of the frame that the object has given.
QueueMap(start, flags, r) ==
    [result  |-> r,
     entry   |-> [frame |-> r.frame, flags |-> flags],
     regions |-> [regions EXCEPT ![start].frames = r.frames]]

Require(cpu, start, page, write) ==
    IF write THEN require_owned_frame(cpu, regions[start].frames, page - start)
             ELSE require_read_frame(cpu, regions[start].frames, page - start)

\* Mutant: a page that is only read keeps the write permission of its region.
RequireFrame_writable(cpu, start, page, write) ==
    QueueMap(start, regions[start].permissions, Require(cpu, start, page, write))

\* Mutant: a page that is written is mapped without the write permission.
RequireFrame_readonly(cpu, start, page, write) ==
    QueueMap(start, regions[start].permissions \ {"W"}, Require(cpu, start, page, write))

\* The frame for a page of a region, and the entry that is queued for it.
RequireFrame(cpu, start, page, write) ==
    QueueMap(start, regions[start].permissions \ IF write THEN {} ELSE {"W"},
             Require(cpu, start, page, write))

Access == [load |-> {"R"}, store |-> {"W"}, fetch |-> {"R", "X"}]

\* With shared memories the trap may have been raised before another CPU mapped
\* the page: a fault takes its time to get to the lock.
Raced(page) ==
    SharedMemories /\ \E start \in RegionsAt(page) : regions[start].stage = "lazy"

\* AddressSpace::page_fault, up to the queue_map of the page.  The last fault is
\* taken whatever happens next; one on the same page again is a "double fault".
\* If the region of the last fault is gone the code reads its freed memory: it
\* may serve the fault from there, which ends the behaviours of this module, or
\* find that it does not contain the page.
page_fault(cpu, page, access) ==
    /\ op = Idle
    /\ ~Access[access] \subseteq pte[page].flags \/ Raced(page)
    /\ \A start \in RegionsAt(page) : regions[start].stage # "new"
    /\ \/ /\ \/ last_fault.state = "gone"
             \/ last_fault.state = "live" /\ last_fault.page = page
          /\ Panic
       \/ /\ last_fault.state # "none" => last_fault.page # page
          /\ last_fault' = NoFault
          /\ UNCHANGED <<heap, pte, tables, mmaps, holed>>
          /\ IF \E start \in RegionsAt(page) :
                    Access[access] \subseteq regions[start].permissions
             THEN \E start \in RegionsAt(page) :
                    LET q == RequireFrame(cpu, start, page, access = "store")
                        r == q.result
                    IN  /\ panicked' = r.panic
                        /\ fa' = r.fa /\ zero' = r.zero
                        /\ regions' = q.regions
                        /\ op' = IF r.frame = 0 THEN Idle
                                 ELSE [kind |-> "fault", cpu |-> cpu, region |-> start,
                                       todo |-> <<>>, queue |-> <<<<page, q.entry>>>>]
             ELSE UNCHANGED <<fa, zero, regions, op, panicked>>

\* Mmap::commit of a whole mapping for writing, by MmapVec::from_slice.
commit(cpu, start) ==
    /\ op = Idle
    /\ regions[start].stage = "new"
    /\ op' = [kind |-> "commit", cpu |-> cpu, region |-> start, queue |-> <<>>,
              todo |-> [i \in 1..regions[start].end - start |-> start + i - 1]]
    /\ UNCHANGED <<fa, heap, zero, regions, pte, tables, last_fault, panicked, mmaps, holed>>

\* One page of AddressSpaceRegion::commit; the caller unwraps an AllocError.
commit_page ==
    /\ op.kind = "commit"
    /\ op.todo # <<>>
    /\ LET page == Head(op.todo)
           q    == RequireFrame(op.cpu, op.region, page, TRUE)
           r    == q.result
       IN  /\ panicked' = (r.frame = 0)
           /\ fa' = r.fa /\ zero' = r.zero
           /\ regions' = q.regions
           /\ op' = [op EXCEPT !.todo = Tail(@), !.queue = Append(@, <<page, q.entry>>)]
    /\ UNCHANGED <<heap, pte, tables, last_fault, mmaps, holed>>

\* Batch::flush, one page at a time.  map_contiguous goes down from the root; a
\* table that is missing is allocated and linked at once ...
Missing(page) == {lvl \in {0, 1} : tables[TableOf(page, lvl)] = 0}

AddTable ==
    /\ op.kind \in {"fault", "commit"}
    /\ op.todo = <<>>
    /\ LET page == Head(op.queue)[1]
           t    == alloc_one(fa, op.cpu)
       IN  /\ Missing(page) # {} /\ t.frame # 0
           /\ tables' = [tables EXCEPT ![TableOf(page, Max(Missing(page)))] = t.frame]
           /\ fa' = t.fa
    /\ UNCHANGED <<heap, zero, regions, pte, last_fault, op, mmaps, panicked, holed>>

\* ... and under the last one is the entry of the page.  On an AllocError the rest
\* of the batch is forgotten, the frames stay in the list and the tables in
\* place; a fault is reported, a commit panics.
flush_page ==
    /\ op.kind \in {"fault", "commit"}
    /\ op.todo = <<>>
    /\ LET page  == Head(op.queue)[1]
           fails == Missing(page) # {}
           done  == fails \/ Len(op.queue) = 1
       IN  /\ fails => alloc_one(fa, op.cpu).frame = 0
           /\ pte' = IF fails THEN pte ELSE [pte EXCEPT ![page] = Head(op.queue)[2]]
           /\ op' = IF done THEN Idle ELSE [op EXCEPT !.queue = Tail(@)]
           /\ regions' = IF done /\ op.kind = "commit"
                         THEN [regions EXCEPT ![op.region].stage = "filled"]
                         ELSE regions
           /\ panicked' = (fails /\ op.kind = "commit")
           /\ last_fault' = IF op.kind = "fault" /\ ~fails
                            THEN [region |-> op.region, page |-> page, state |-> "live"]
                            ELSE last_fault
    /\ UNCHANGED <<fa, heap, zero, tables, mmaps, holed>>

-----------------------------------------------------------------------------
(* Walks over the entries of a range.  An entry that is missing is counted *)
(* but the walk stays where it is.                                         *)

SetFlags(s, page, flags) == [s EXCEPT !.pte[page].flags = flags]

\* Mutant: only the table that held the entry is looked at.
FreeEmpty_parent(s, page) ==
    LET t     == TableOf(page, 0)
        empty == \A p \in Page : TableOf(p, 0) = t => s.pte[p] = NoEntry
    IN  [s EXCEPT !.tables[t] = IF empty THEN 0 ELSE @,
                  !.freed = IF empty /\ s.tables[t] # 0 THEN Append(@, s.tables[t]) ELSE @]

\* The way back up of unmap_inner: a table on the way to the page that has no
\* valid entry any more is let go, and then perhaps the one above it.
FreeEmpty(s, page) ==
    LET low    == TableOf(page, 0)
        high   == TableOf(page, 1)
        empty0 == \A p \in Page : TableOf(p, 0) = low => s.pte[p] = NoEntry
        empty1 == \A p \in Page : TableOf(p, 1) = high =>
                     s.tables[TableOf(p, 0)] = 0 \/ (empty0 /\ TableOf(p, 0) = low)
        go     == (IF empty0 THEN <<low>> ELSE <<>>) \o (IF empty1 THEN <<high>> ELSE <<>>)
        linked == SelectSeq(go, LAMBDA t : s.tables[t] # 0)
    IN  [s EXCEPT !.tables = [t \in Table |-> IF t \in ToSet(go) THEN 0 ELSE @[t]],
                  !.freed = @ \o [i \in DOMAIN linked |-> s.tables[linked[i]]]]

ClearEntry(s, page) == [s EXCEPT !.pte[page] = NoEntry]

Count(s, lvl) == [s EXCEPT !.remaining = Max({0, @ - (IF lvl = 0 THEN 1 ELSE Covers(lvl - 1))})]

\* One round of the walk of update_flags and of unmap, from the root: set the flags
\* of the entry or, for no flags, clear it; or count what is missing, by the size
\* of what an entry of its level maps.  The only caller of update_flags has all
\* its pages mapped.
Walk(s, flags) ==
    LET next == [s EXCEPT !.virt = @ + 1, !.remaining = @ - 1]
    IN  CASE s.remaining = 0
                -> s
          [] s.remaining > 0 /\ s.tables[TableOf(s.virt, 1)] = 0
                -> Count(s, 2)
          [] s.remaining > 0 /\ s.tables[TableOf(s.virt, 1)] # 0
                  /\ s.tables[TableOf(s.virt, 0)] = 0
                -> FreeEmpty(Count(s, 1), s.virt)
          [] s.remaining > 0 /\ s.tables[TableOf(s.virt, 0)] # 0
                  /\ s.pte[s.virt] = NoEntry
                -> FreeEmpty(Count(s, 0), s.virt)
          [] OTHER
                -> IF flags = {} THEN FreeEmpty(ClearEntry(next, s.virt), s.virt)
                                 ELSE SetFlags(next, s.virt, flags)

WalkRange(start, end, flags) ==
    FoldLeft(LAMBDA s, i : Walk(s, flags),
             [virt |-> start, remaining |-> end - start,
              pte |-> pte, tables |-> tables, freed |-> <<>>],
             [i \in 1..end - start |-> i])

\* Mmap::make_executable, by CodeObject::publish
make_executable(start) ==
    LET permissions == {"R", "X"}
    IN  /\ op = Idle
        /\ regions[start].stage = "filled"
        /\ regions' = [regions EXCEPT ![start].permissions = permissions,
                                      ![start].stage = "published"]
        /\ pte' = WalkRange(start, regions[start].end, permissions).pte
        /\ UNCHANGED <<fa, heap, zero, tables, last_fault, op, panicked, mmaps, holed>>

\* Mmap::drop, first part: the region leaves the tree and its frames are let
\* go.  A last_fault that points to it stays.
unmap(cpu, start) ==
    /\ op = Idle
    /\ regions[start].stage # "new"
    /\ fa' = DropAll(fa, cpu, InOrder(regions[start].frames))
    /\ regions' = [s \in DOMAIN regions \ {start} |-> regions[s]]
    /\ last_fault' = IF last_fault.state = "live" /\ last_fault.region = start
                     THEN [last_fault EXCEPT !.state = "gone"] ELSE last_fault
    /\ op' = [kind |-> "unmap", cpu |-> cpu, region |-> start, end |-> regions[start].end]
    /\ UNCHANGED <<heap, zero, pte, tables, panicked, mmaps, holed>>

\* The second part: the entries are cleared, and the translation caches of all
\* CPUs are flushed.  Where a page was missing the walk may have stopped before
\* it came to the rest.
unmap_entries ==
    LET s    == WalkRange(op.region, op.end, {})
        rest == s.virt + 1..op.end - 1
        bare(t) == /\ tables[t] # 0
                   /\ \A p \in Page : TableOf(p, 1) = t => tables[TableOf(p, 0)] = 0
    IN  /\ op.kind = "unmap"
        /\ pte' = s.pte
        /\ tables' = s.tables
        /\ fa' = DropAll(fa, op.cpu, s.freed)
        /\ holed' = holed
             \cup {"entry" : p \in {p \in rest : pte[p] # NoEntry}}
             \cup {"table" : p \in {p \in rest : /\ bare(TableOf(p, 1))
                                               /\ TableOf(p, 1) # TableOf(s.virt, 1)}}
        /\ op' = Idle
        /\ UNCHANGED <<heap, zero, regions, last_fault, mmaps, panicked>>

-----------------------------------------------------------------------------

\* KernelHeapSource::acquire, under the lock of the heap: frames for the heap,
\* never given back.  Between the two parts of unmap its CPU does not allocate.
acquire(cpu, needed) ==
    LET t == alloc_contiguous(fa, cpu, needed, 1)
    IN  /\ ~(op.kind = "unmap" /\ op.cpu = cpu)
        /\ Cardinality(heap) < MaxHeapChunks
        /\ t.frames # <<>>
        /\ fa' = t.fa
        /\ heap' = heap \cup {ToSet(t.frames)}
        /\ UNCHANGED <<zero, regions, pte, tables, last_fault, op, panicked, mmaps, holed>>

Next ==
    /\ ~panicked
    /\ \/ \E start \in Page, size \in Sizes, stage \in {"lazy", "new"} :
             new_zeroed(start, size, stage)
       \/ \E cpu \in Cpus, page \in Page, access \in DOMAIN Access :
             page_fault(cpu, page, access)
       \/ \E cpu \in Cpus, start \in DOMAIN regions : commit(cpu, start)
       \/ commit_page
       \/ AddTable
       \/ flush_page
       \/ \E start \in DOMAIN regions : make_executable(start)
       \/ \E cpu \in Cpus, start \in DOMAIN regions : unmap(cpu, start)
       \/ unmap_entries
       \/ \E cpu \in Cpus, needed \in HeapNeeds : acquire(cpu, needed)

Spec == Init /\ [][Next]_vars

-----------------------------------------------------------------------------

Allocatable == UNION {UNION {r[1]..r[2] - 1 : r \in fa.arenas[i].selection.allocatable} :
                         i \in DOMAIN fa.arenas}

Blocks == UNION {UNION {{<<b, b + 2^o>> : b \in ToSet(fa.arenas[i].free_lists[o])} :
                           o \in 0..MAX_ORDER - 1} : i \in DOMAIN fa.arenas}

Cached(f) == {<<c, i>> \in UNION {{c} \X DOMAIN fa.cache[c] : c \in Cpus} :
                 fa.cache[c][i] = f}

\* The references to a frame: of frame lists, of the page table, and the one
\* that THE_ZERO_FRAME keeps.
Holders(f) ==
    UNION {{<<"region", s, e.key, e.offset>> : e \in {e \in regions[s].frames : e.frame = f}} :
              s \in DOMAIN regions}
        \cup {"table"} \X {t \in Table : tables[t] = f}
        \cup {"zero"} \X ({zero} \cap {f})

\* Every frame is in one place: in one free block, once in one CPU's cache, in
\* one chunk of the heap, or held.  The reference count of a held frame is the
\* number of those who hold it, and a frame in a cache, or at the head of a
\* free block, has the reference count zero that from_free_info expects.
FramesAccounted ==
    LET blocks_ == Blocks
    IN  \A f \in Allocatable :
        LET holders == Holders(f)
            cached  == Cached(f)
        IN  /\ Cardinality({b \in blocks_ : f \in b[1]..b[2] - 1})
                + Cardinality(cached)
                + Cardinality({c \in heap : f \in c})
                + (IF holders = {} THEN 0 ELSE 1) = 1
            /\ holders # {} => fa.refcount[f] = Cardinality(holders)
            /\ cached # {} => fa.refcount[f] = 0
            /\ \A b \in blocks_ : b[1] = f => fa.refcount[f] = 0

\* Through all splits a free block of the buddy allocator is aligned to its
\* size and stays in one memory region, clear of the holes that its arena
\* spans and of the frames with the arena's bookkeeping.
BlocksSound ==
    \A b \in Blocks :
        /\ b[1] % (b[2] - b[1]) = 0
        /\ \E i \in DOMAIN fa.arenas :
              /\ \E r \in fa.arenas[i].selection.allocatable : r[1] <= b[1] /\ b[2] <= r[2]
              /\ LET book == fa.arenas[i].selection.bookkeeping
                 IN  b[2] <= book[1] \/ book[2] <= b[1]

\* When the cache has no run of the size and an arena has given a block, the
\* second look into the refilled cache finds a run: alloc_contiguous fails only
\* if no arena has a block.
RefillServes ==
    \A cpu \in Cpus, needed \in HeapNeeds, align \in {1, 2} :
        LET frames == alloc_contiguous(fa, cpu, needed, align).frames
        IN  allocate_contiguous(fa, needed, align).frames # <<>> =>
                /\ Len(frames) = needed
                /\ frames[1] % align = 0
                /\ \A i \in 1..needed : frames[i] = frames[1] + i - 1

\* A page that is mapped is a page of a region, and is mapped to the zero frame,
\* never writable, or to a frame that the region holds for it and that no other
\* page is mapped to.  While unmap has let go of the frames and not yet cleared
\* the entries, they can only be in the cache of the CPU that unmaps: nobody
\* else can be given one.
MappingsOwned ==
    "entry" \notin holed => \A p \in Page : pte[p] # NoEntry =>
        LET f == pte[p].frame
            unmapping == op.kind = "unmap" /\ p \in op.region..op.end - 1
            held == \E s \in RegionsAt(p) : \E e \in regions[s].frames :
                        e.frame = f /\ e.offset = p - s
        IN  /\ RegionsAt(p) # {} \/ unmapping
            /\ f = zero => "W" \notin pte[p].flags
            /\ f # zero => /\ \/ held
                              \/ unmapping /\ f \in ToSet(fa.cache[op.cpu])
                           /\ \A q \in Page \ {p} : pte[q].frame # f

\* When all mappings are gone all their frames and all page tables are: only
\* the heap and the zero frame are in use, whichever allocation failed on the
\* way, a table after the one above it included.  The exception is what lies
\* behind a missing page of a mapping, where unmap may stop (holed).
NothingLeaks ==
    op = Idle /\ DOMAIN regions = {} /\ holed = {} =>
        /\ \A p \in Page : pte[p] = NoEntry
        /\ \A f \in Allocatable : Holders(f) # {} => f = zero

\* A page that has been written to keeps its frame, and with it its contents,
\* until its mapping is dropped: no fault, commit or failed allocation maps
\* another frame in its place.
WrittenPageKept ==
    []["entry" \notin holed /\ op.kind # "unmap" =>
          \A p \in Page : pte[p].frame \notin {0, zero} => pte'[p].frame = pte[p].frame]_vars

\* "we need to check if by doing so the parent has become empty in which case we
\* also need to unmap the parent" (unmap): without mappings and entries there is
\* no table.
UnmapFreesTables ==
    op = Idle /\ DOMAIN regions = {} /\ (\A p \in Page : pte[p] = NoEntry) =>
        \A t \in Table : tables[t] = 0

\* unmap leaves no entry behind.
UnmapClears == op = Idle => \A p \in Page : pte[p] # NoEntry => RegionsAt(p) # {}

=============================================================================
