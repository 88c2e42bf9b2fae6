# TLA+ models of the k23 kernel

k23 is a microkernel for RISC-V whose user programs are WebAssembly modules. This
directory models the parts of it in which order matters: the async runtime
(`sys/async`: tasks, wakers, a work-stealing executor, a timer wheel), the path of
a device interrupt through the trap handler to the task that waits for it, the
reader-writer lock under it (`lib/spin`), and the memory of the kernel
(`sys/kernel/src/mem`: frames, regions, page faults, the page table, and
`lib/wavltree`). The models are checked on small instances; the safety of tasks,
of the executor, of the timer, of the lock and of the interrupt path is also proved
for instances of any size.

## The system

| Part | State | Operations | What is hard |
|---|---|---|---|
| Task state word, `task/state.rs` | flags, join waker state, reference count in one atomic word | one compare-and-swap per transition | wake-ups during a poll, completion while a joiner registers |
| Task, wakers, JoinHandle, `task.rs`, `task/join_handle.rs` | the word; the future or its output; the joiner's waker | poll, wake by value or reference, clone, drop, join, cancel | unsynchronised cells guarded only by the word; freeing exactly once |
| Executor, `executor.rs`, `executor/steal.rs` | a run queue and a counter per CPU, the injector, the sleepers | spawn, wake, tick, steal, sleep, wake one, close | counter and queue change in separate steps; lost wake-ups |
| Timer, `time/` | wheels of slots, Core::now, one alarm per CPU | sleep, register, cancel, turn, fire | interrupts inside the critical section; flags read without the lock |
| Interrupts, `irq.rs`, `trap_handler.rs`, `plic.rs`, `block_on.rs` | enabled and pending interrupts, a table of wait queues, SIE, the notified flag | next_event, trigger_irq, park, wake | the handler runs between any two steps of the thread, on the same locks |
| Reader-writer lock, `rw_lock.rs` | one word | read, write, upgrade, downgrade, drop | readers are counted before they are let in |
| Regions, `address_space.rs`, `lib/wavltree` | a weak AVL tree with subtree ranges and gaps | map, unmap, find_spot | rotations and removals must keep the subtree data |
| Frames, `frame_alloc/` | buddy lists, a cache per CPU, reference counts | alloc one or contiguous, clone, drop | each frame in one place, failures half-way |
| Mappings, `mmap.rs`, `vmo.rs`, `frame_list.rs`, `arch/riscv64/mem.rs` | frame lists, page table | page fault, commit, make_executable, unmap | copy-on-write of the zero frame, the last-fault shortcut, frames freed before entries |

A waker calls the task's word, which decides whether to enqueue the task on the
scheduler it is bound to; the executor polls it; a sleeping task is woken by the
timer or by an interrupt, from the trap handler, which then wakes one sleeping
worker. Page faults come through the same trap handler. `PROJECT.json` lists every
part, the lines each definition stands for, and the hazards of the code with the
properties that watch them.

## Modules

- **TaskState**: every transition of the state word as an operator. `f(s)` is
  the word written, `f_action(s)` what the caller is told to do.
- **Task**: one task with its workers (`wpc`), the holders of its wakers (`hpc`)
  and its JoinHandle (`jpc`). A step is one atomic operation on the word, or one
  access to a cell the word protects. Whoever awaits the JoinHandle is a thread or
  another task: a poll of it that returns Pending ends only later (`JoinerEndPoll`),
  and a task that is woken before that misses the wake-up. **TaskLifecycle** is the abstract task:
  queued, running, idle, complete; its output is taken at most once.
- **Executor**: workers, schedulers, injector, stealing, sleeping, a trap
  handler that wakes tasks, and on the CPUs in `Driving` a future that
  `Worker::run` drives beside its main loop and that spawns and wakes tasks. A task
  is reduced to its life cycle; its wakers wake by reference, since a `Waker::wake`
  does the same to an idle task and nothing to a running one.
- **Timer**: the wheels, the Sleep futures, and on each CPU a thread and a timer
  interrupt that may hit it at any step.
- **RwLock**: the lock word, one action per atomic operation. A client is one use
  of the lock, from the call to the drop of the guard; `held` is its guard, `step`
  what it does between two operations. **RwLockSpec** is the abstract lock, only
  `held`. `SpecAll` adds `downgrade_to_upgradeable`, a public operation that only the
  tests of RwLock and IrqRwLock call, in threads that take no read locks.
- **Irq**: one hart ("single-CPU at handoff is the current contract", `main.rs`).
  `thread` is the step of the thread, which polls tasks that call `next_event` in
  a loop, and parks; `trap` is the step of the handler. While SIE is set an
  interrupt may be taken between any two steps of the thread, also between the
  registration of a waker (`Await`) and the end of that poll (`EndPoll`). The `IrqRwLock`
  around the queues is an instance of RwLockSpec, whose implementation RwLock is:
  the two modules compose.
- **WavlTree**: the tree of `lib/wavltree` as operators from trees to trees, with
  the three hooks as parameters. **RegionTree** gives the hooks (subtree range and
  gap), the search for a free range that uses them, and `map` and `unmap`.
- **FrameAlloc**: the choice of arenas, the buddy lists, the caches and reference
  counts, as operators. **AddressSpace** composes it with the frame lists, the page
  table (two levels of tables below the root, each allocated in a step of its own),
  page faults, mappings and the heap. The operations of the address space
  run under its lock but in several steps (`op`), and the heap takes frames on
  the other CPUs in between.
- **MCTask**, **MCExecutor**, **MCTimer**, **MCIrq**, **MCRegionTree**,
  **MCAddressSpace**: the instances for TLC.
- **TaskProofs**, **ExecutorProofs**, **TimerProofs**, **RwLockProofs**, **IrqProofs**:
  the theorems. **ExecutorSteps**, **ExecutorPlaces** and **ExecutorSleep** hold lemmas
  of ExecutorProofs, one part of its invariant after the other.

Memory is sequentially consistent in all modules: the orderings of the atomic
operations are not modelled. `MpscQueue`, `WaitQueue`, `WaitCell`, the interrupt
controller behind its registers and the hardware clock are libraries or devices,
modelled from their use. Logging, spans, task ids, metadata and the `counters`
feature are left out. Which free range `find_spot` picks is decided by a random
number; AddressSpace takes any free range, RegionTree computes the set.

## Runs

| Run | Instance | Result |
|---|---|---|
| task | 2 workers, 2 holders | all hold |
| executor | 2 CPUs, 2 tasks, 1 trap handler | all hold |
| timer | 2 CPUs, 2 sleeps, 3 ticks | all hold |
| timer_live | 2 CPUs, 1 sleep, 6 ticks | holds |
| rwlock | 5 clients, a word of 32 values | all hold |
| irq | 2 tasks, 2 interrupts, 5 events | all hold |
| regions | 9 pages, 1 reserved | all hold |
| memory | 2 CPUs, 3 pages, 6 frames, 2 mappings | all hold |
| task_wake_by_val | as task | violated: a `Waker::wake` during a poll is lost |
| timer_nested | 1 CPU | violated: the alarm is off though a sleep is registered |
| regions_splice | as regions | violated: two mappings overlap |
| memory_unmap | as memory | violated: a page stays mapped after its mapping is gone |

**task.** `SingleRunner` (never linked into a queue twice, nor while being run),
`NeverDontPoll`, `RefsCountHolders` (freed exactly when the last reference goes),
`JoinWakerExclusive`, `ReregisterFindsWaker`, `StageProtocol`,
`WakeByRefNotLost`, `JoinResolves`, and the refinement `ImplementsLifecycle`.
`JoinResolves` has one way out, a joiner that is a task and is woken by value while it
is still being polled; TaskJoinTask below shows that it is needed.

**executor.** `QueuedCounts`, `BoundWhereQueued`, `OnePlace`, `NoStrandedTask`,
and `TasksFollowLifecycle`. `NoStrandedTask` speaks of starts in which the ids of
the workers match their CPUs, and leaves out (`excused`) what a driven future
spawned or woke and what a thief passed over because another thief was still holding the
queue; see "Further disagreements".

**timer.** `CancelFindsEntry`, `NotEarly`, `NotOverdue`, `ArmedUnlessNested`; in
**timer_live** `SleepWakes`. Both alarm properties leave out the case that
`timer_nested` shows.

**rwlock.** `WordTellsHolders` (the count is exact although readers are counted
before they are let in, and the bit a failed `try_upgradeable_read` leaves behind
is left under a holder that clears it), `Exclusion`, and the refinement
`ImplementsRwLockSpec`.

**irq.** `HandlerFindsQueuesFree` (the handler's `try_read` never fails, so no event
is dropped), `TrapNotNested`, `WakeRemembered` (from `wake_all` through the run
queue, the sleepers' permit, the notified flag and the IPI to the next poll: a
wake-up is lost in two windows only, `missed` between the registration of the waker
and the end of that poll, and `overslept` between `drain` and `wfi`),
`WaiterReachable` (the interrupt of a suspended task is unmasked), and the liveness
property `InterruptServes` (what the next interrupt of a parked hart brings about).

**regions.** `RankRule` and `RegionsFound` hold for all sequences of maps and
unmaps. `SubtreesExact` and `SpotsAreFree` hold until a region with two children
is removed; `regions_splice` shows what may happen then.

**memory.** `FramesAccounted` (each frame in one place, its reference count exact),
`BlocksSound`, `RefillServes` (the retry of `alloc_contiguous` finds what the
refill brought), `MappingsOwned` (the page table maps the zero frame read-only, or
a frame that the region holds for that page; also between the freeing of frames
and the clearing of entries), `NothingLeaks` (no frame and no page table is left when
the mappings are gone, although frames run out between a page and its tables, or
between an upper table and the one below it), and the action property
`WrittenPageKept`. They leave out what follows once `unmap`, which may stop early in
a mapping with missing pages, has left something behind (`holed`): an entry for
`MappingsOwned` and `WrittenPageKept`, an entry or an empty table for `NothingLeaks`.
`memory_unmap` and AddressSpaceTables show the two.

The four violated runs state what a comment or a doc of the code says; `findings`
in `PROJECT.json` quotes it.

### Further disagreements

Thirteen more configurations record places where the code and its comments or
assertions part. They are run by hand, `tlc -config X.cfg M`:

| Config, module | Violated | What happens |
|---|---|---|
| TaskJoinWaker, MCTask | `JoinWakerHasHandle` | a polled and dropped JoinHandle leaves a waker, against the assertion at `state.rs:487` |
| TaskJoinTask, MCTask | `JoinAlwaysResolves` | a joining task that is woken by value before its poll has ended never learns that the task is complete |
| ExecutorDriven, MCExecutor | `RunPollsSpawned` | a task spawned or woken by the driven future is not polled until an interrupt |
| ExecutorVictim, MCExecutor | `VictimIsOther` | worker ids do not match CPU order, and a worker steals from itself |
| ExecutorBusy, MCExecutor | `CanSleep` | a task enqueued while a thief holds the empty queue is passed over, and everyone sleeps until an interrupt |
| TimerWrap, MCTimer | `NextDeadlineAhead` | beyond the top wheel's rotation the next deadline lies in the past |
| RwLockDowngrade, RwLock | `Exclusion` | `downgrade_to_upgradeable` overwrites a reader that is about to leave |
| IrqPark, MCIrq | `ParkToken` | an interrupt between `drain` and `wfi` is served, and the hart sleeps until the next |
| IrqBorrow, MCIrq | `InterruptReachesTrigger` | an interrupt while `next_event` borrows the controller panics |
| IrqFirstPoll, MCIrq | `FirstPollDelivers` | an interrupt between the registration of the waker and the end of that poll wakes a task that is still POLLING, by value: it is not queued |
| IrqShared, MCIrq | `WaiterReachable` | of two tasks that wait for one interrupt, the first to be served masks it for the other |
| AddressSpaceTables, MCAddressSpace | `UnmapFreesTables` | an upper table whose lower table could not be allocated stays when `unmap` stops before it |
| AddressSpaceShared, MCAddressSpace | `WrittenPageKept` | a fault that raced with one of another CPU looks under a key that `FrameList::insert` did not use, and replaces a written page by the zero frame; it takes a linear memory used by two CPUs, which the kernel does not have |

### Bounds

Two workers let one pick the task up while another finishes with it, and two
holders let two wake-ups race. Two CPUs steal from each other, so a thief and the
owner meet in a queue; that two thieves meet at a third queue takes three CPUs,
which the proofs cover and the runs do not. The budgets `TickBudget`, `MaxStolen` and `Rounds` (256, 256 and 4 in the
code) are 1, so that every limit is reached. The timer has the two wheels of four
slots of the repository's loom build, and the clocks start just before the end of
a slot of the top wheel (2) and of its rotation (13 or 14), so that entries move
between wheels and wrap around. `MaxTicks` bounds the time watched.

The lock's word of 32 values makes `MAX_READERS` 3, so that five clients reach the
overflow. `MaxEvents` = 5 lets each of two tasks go round `next_event` twice and an
interrupt come at a bad time. Nine pages hold trees of up to eight regions, enough
for all rotations, double rotations and a successor from further down. Six
frames are fewer than two mappings, their page tables and a chunk of heap need, so
that every allocation fails somewhere; they lie in two memory regions that share an
arena, with a hole between them, and form blocks of orders 0 and 2, so that blocks
are split. `FANOUT` and `TableEntries` are 2 and mappings have up to three pages, so
that the third page of a mapping is in the second node of its frame list; the address
space is the pages 2 to 4, which lie under two tables of each level. `SharedMemories`
is FALSE: a page fault is not overtaken by one of another CPU on the same page.
`MaxMmaps` and
`MaxHeapChunks` bound how much is ever asked for.

### Fairness

Task: a worker that has the task keeps running, each poll returns, and the joiner
is polled after its waker was called, unless that call found it being polled still and
was dropped (`notified = "lost"`, which may or may not happen then: a thread in
`block_on` is not a task); this is what `Worker::main_loop` and `block_on` do. Holders of wakers owe nothing. Timer: the clock runs, a CPU takes a
due interrupt and finishes what it began; nobody has to poll or drop a sleep.
Irq: the hart executes, so the thread's and the handler's next step is taken
(weak fairness of each); the devices owe nothing. Executor defines `FairSpec`, but
its run checks safety only.

Deadlock is not checked where the system may come to rest: a task that is freed,
CPUs that sleep, a clock at its bound, a full address space. It is checked for the
lock.

## Proofs

**Task.** For all finite sets of workers and holders (assumption `FiniteActors`),
TLAPS checks the task's type invariant and its safety invariants (`TypeCorrect`,
`RefCounting`, `OneRunner`, `DequeuedIsPollable`, `StageSafe`, `JoinWakerSafe`,
`ReregisterSafe`, `WakeByRefSafe`) and that every behaviour of Task is one of
TaskLifecycle (`Refinement`). The invariants are not inductive
alone. `IInv` adds to them what ties the flags to the program counters:

- `RunInv`: POLLING is set exactly while a worker polls, and a complete task is in
  no queue;
- `WakeInv`: an unserved `wake_by_ref` leaves WOKEN set, and WOKEN means that the
  task will be polled;
- `StageInv`: which stage the cell is in, from the flags;
- `JoinInv`: the join waker is Registering exactly while the JoinHandle writes it,
  and at most one worker takes it.

Lemmas state what each transition does to each field; then one lemma per part of
`IInv` shows, action by action, that every step preserves that part. The refinement
uses `IInv` to map every step to a step of the life cycle or to a stutter.

**Executor.** For any number of CPUs, any finite sets of tasks and trap handlers and
any budgets (assumption `Bounds`): `TypesHold`, `CountersExact`, `BindingHolds`,
`TasksInOnePlace`, `TasksLiveTheirLives`, and, where no worker drives a future that
spawns or wakes tasks of its own (`Driving = {}`, an assumption of that theorem only;
the kernel drives `pending()`),
`NoTaskStranded`. With such a future and three CPUs a worker that is asleep in the
model's sense may put a task into its own queue while the others have already looked
there, which is the disagreement that ExecutorDriven shows. `ExecutorInv` is

- `TypeOK` and `Own`: what an actor has in its hands, and the locals of `try_steal`
  (how many victims are left, how many tasks it may still take), fit its place;
- `Binding`, `Places`, `QueuedCounts`: a task is in one place, bound to the scheduler
  that has it, and counted while it is between queue and counter. These three need
  each other: a stolen task is neither bound nor queued until it is counted again;
- `Consumers`, `Sleepers`, `InOrder`: a queue has at most one consumer, the wait queue
  holds exactly the sleepers that were not notified, and the workers register in the
  order of their ids;
- `Coverage`: a queue that has a task not excused is covered: somebody is awake, or
  some thief in its first round will still look at that queue. This is the argument
  against lost wake-ups, and needs all of the others: a thief that reads a counter
  as zero is right unless the one who enqueues is awake.

The lemmas about finite sets that the parts need (`SetFacts`, `Segments`) are proved in
ExecutorProofs from the library's theorems.

**Timer.** For any sets of CPUs and Sleeps, any number of wheels, and any clock and
durations (assumption `TimerBounds`): `TypesHold`, `CancelFinds`, `NeverEarly`,
`NeverOverdue` and `AlarmSet`, one for each invariant of the run `timer`. `IInv` is,
besides the types,

- `Placed`: a linked entry is not due, and its slot is the one that `Core::cancel`
  would compute now. The wheel was chosen from an earlier `Core::now`, so this is a
  statement about the whole time in between. Lemma `WheelIndex`: a deadline belongs
  into exactly one wheel, that of the highest digit (to the base of `SLOTS`) in which
  it differs from now, or the top wheel for all beyond. Lemma `NextDeadline`: until the
  next deadline no linked entry changes its wheel, and at the next deadline only those
  of its slot may. A turn stops there and takes them out;
- `Locking`, `Owning`, `Turning`: who holds the lock, which thread has which Sleep, and
  that a turn keeps entries that are due apart from those that are not;
- `Entries`: `is_registered`, the WaitCell, the state of the Sleep and the wheels fit
  together, also while the two halves of `Entry::fire` are under way. This is what
  the unlocked reads of `is_registered` rely on;
- `Alarms`: every linked entry is awaited by an alarm, by a deadline that a handler is
  about to set, or by a holder of the lock that will yet ask for the next deadline;
  and a thread between `schedule_wakeup` and the end of its lock has an alarm for all.
  The second half is what makes a `try_turn` that fails harmless, and an interrupt
  on that very CPU is the one case it does not cover (`nested`).

`PowerLaws` states the laws of exponents for `SLOTS`, for which the provers have no
rules; they hold for every number of bits, and TLC evaluates them on the instances.

**RwLock.** For every finite set of clients (`ClientsAssumption`) and every word wide
enough to count them (`WordAssumption`): `WordAlwaysTells`, `MutualExclusion` and
`Implementation`, that every behaviour of `Spec` is one of RwLockSpec. `IInv` is
`WordTellsHolders` and `Exclusion` together, which need each other, with
`StepShape`, which guards go with an unfinished step. The arithmetic is in a few
lemmas on a word that is four times a count plus two bits; a lemma per kind of
change says how the set of counted clients grows or shrinks.

**Irq.** For any interrupts and any finite set of tasks (`IrqAssumption`,
`TasksAssumption`): `QueuesFree`, `NeverNested` and `WakeUpsKept`; and, if no two tasks
wait for the same interrupt (`OneTaskPerIrq`, an assumption of that theorem only),
`Reachable`. `IInv` has three parts:

- `Control`: SIE is clear exactly in the critical section of `next_event` and in the
  handler, the queues exist before any interrupt is unmasked, and who holds the lock;
- `Waiting`: where a task stands in `next_event` tells whether its Wait exists, and a
  Wait has its queue;
- `Awake`: a woken task is queued or `missed`, and while one is queued the worker has a
  permit or will be told by `drain`; past `drain` the IPI is pending or `overslept`.

`WakeUpsKept` therefore says that the two windows are the only ones, for any number of
tasks. That they exist is shown by IrqFirstPoll and IrqPark.

Only model-checked: the liveness properties (the prover does not do fairness);
WavlTree and RegionTree, whose operators are
recursive, which is beyond the prover; FrameAlloc and AddressSpace.

## Not modelled

- The WebAssembly compiler and runtime, loaders, parsers, unwinding, device
  registers and the shell: input and output, pure translation, or code that runs
  once on one CPU. They are most of the repository, so the definitions here stand
  for about a twenty-fourth of its lines.
- User address spaces, `map_specific` and `AddressSpace::protect`, which nothing calls;
  physical mappings, which have no frames to account for; superpages. The
  translation caches are flushed with the lock held and are not state of the model.
- Barrier, ReentrantMutex and Mutex of `lib/spin`; CPU-local storage, used by Executor
  as the ordered set of CPUs; the sharded slab, used only by tracing.
- The completion of a future that `Worker::run` drives, after which that CPU has no
  worker: the kernel drives `pending()`, only its test runner a future that ends.
- What follows when a page fault is served from the freed memory of the region of
  the last fault, which `unmap` does not reset: behaviours end there (`panicked`).
- The conversion of a Duration to ticks, which rounds down or fails, before
  `Timer.Sleep`.
- The contents of frames and pages, and weak memory orderings.
- Liveness of the executor (two idle workers may steal from each other in turn, and a
  closed executor whose tasks keep waking themselves goes on): `FairSpec` is there,
  but no run checks it.
