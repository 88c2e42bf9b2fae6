------------------------------ MODULE Executor ------------------------------
(***************************************************************************)
(* The work-stealing executor (sys/async/src/executor.rs, executor/        *)
(* steal.rs): one Worker with its Scheduler per CPU, the Injector for tasks *)
(* spawned before a CPU has a scheduler, the queue of sleeping workers, and *)
(* the trap handler that wakes tasks and one sleeping worker               *)
(* (sys/kernel/src/arch/riscv64/trap_handler.rs).                          *)
(*                                                                         *)
(* A task is what module TaskLifecycle says of it; its state word is the   *)
(* subject of module Task.  A step is one atomic operation on a counter, a *)
(* queue or the sleepers.  MpscQueue and WaitQueue are libraries: a queue  *)
(* is a sequence with at most one consumer, and an enqueue that another    *)
(* thread sees half done makes that thread spin, so it is one step here.   *)
(***************************************************************************)
EXTENDS Integers, Sequences, FiniteSets

CONSTANTS
  NumCpus,      \* CPUs 0 .. NumCpus-1, in the order CpuLocal::iter visits them
  Tasks,
  Irqs,         \* trap handlers that may run at the same time
  Driving,      \* the CPUs whose Worker::run drives a future that spawns
                \* or wakes tasks (the kernel drives a pending one)
  TickBudget,   \* polls per tick_n (256 in the code)
  MaxStolen,    \* MAX_STOLEN_PER_TICK (256 in the code)
  Rounds        \* ROUNDS (4 in the code)

Cpus == 0 .. NumCpus - 1
Injector == NumCpus
Queues == 0 .. NumCpus
Actors == Cpus \cup Irqs
None == -1

ASSUME Bounds ==
  /\ NumCpus \in Nat \ {0} /\ Driving \subseteq Cpus
  /\ TickBudget \in Nat \ {0} /\ MaxStolen \in Nat \ {0} /\ Rounds \in Nat \ {0}
  /\ Irqs \cap Cpus = {} /\ None \notin Irqs /\ None \notin Tasks
  /\ IsFiniteSet(Irqs) /\ IsFiniteSet(Tasks)

VARIABLES
  pc,         \* per actor: what it does next
  online,     \* the CPUs that have a Scheduler (Executor::schedulers)
  id,         \* Worker::id
  cur,        \* per CPU: the task it took from its queue
  polled,     \* per CPU: Tick::polled
  theft,      \* per CPU: the locals of try_steal
  sched,      \* per actor: the Scheduler::schedule call it is in
  queue,      \* run_queue of each scheduler and of the injector
  queued,     \* the `queued' counter beside each of them
  consumer,   \* who holds the Consumer of each queue
  bound,      \* Header::scheduler
  task,       \* the task's life cycle
  sleepers,   \* Executor::sleepers
  notified,   \* per CPU: how its wait() was ended
  excused     \* history: the queued tasks NoStrandedTask makes no promise about

vars == <<pc, online, id, cur, polled, theft, sched, queue, queued, consumer,
          bound, task, sleepers, notified, excused>>

CpuPC == {"new", "register", "run", "tick", "uncount", "poll", "check", "inject",
          "inject_len", "round", "victim", "victim_len", "steal", "take",
          "release", "wait", "asleep", "done", "count", "enqueue"}
IrqPC == {"idle", "handler", "count", "enqueue"}

NoTheft == [round |-> 0, num |-> 0, src |-> None, next |-> 0, left |-> 0,
            limit |-> 0, stolen |-> 0, task |-> None]
NoSched == [task |-> None, dest |-> None, ret |-> "none"]

Init ==
  /\ pc = [a \in Actors |-> IF a \in Cpus THEN "new" ELSE "idle"]
  /\ online = {}
  /\ id = [c \in Cpus |-> None]
  /\ cur = [c \in Cpus |-> None]
  /\ polled = [c \in Cpus |-> 0]
  /\ theft = [c \in Cpus |-> NoTheft]
  /\ sched = [a \in Actors |-> NoSched]
  /\ queue = [q \in Queues |-> <<>>]
  /\ queued = [q \in Queues |-> 0]
  /\ consumer = [q \in Queues |-> None]
  /\ bound = [t \in Tasks |-> None]
  /\ task = [t \in Tasks |-> "unspawned"]
  /\ sleepers = [permit |-> FALSE, waiters |-> <<>>, closed |-> FALSE]
  /\ notified = [c \in Cpus |-> "no"]
  /\ excused = {}

-----------------------------------------------------------------------------
(* Scheduler::schedule and Injector::push_task: count, then enqueue. *)

Goto(a, from, to) ==
  /\ pc[a] = from
  /\ pc' = [pc EXCEPT ![a] = to]

\* The actor calls schedule(t) on queue q and goes on at `ret' afterwards.
CallSchedule(a, t, q, ret) ==
  /\ sched' = [sched EXCEPT ![a] = [task |-> t, dest |-> q, ret |-> ret]]
  /\ pc' = [pc EXCEPT ![a] = "count"]

\* Mutant: the task is enqueued but not counted.
Count_skipped(a) ==
  /\ Goto(a, "count", "enqueue")
  /\ UNCHANGED <<online, id, cur, polled, theft, sched, queue, queued, consumer,
                 bound, task, sleepers, notified, excused>>

Count(a) ==
  /\ Goto(a, "count", "enqueue")
  /\ queued' = [queued EXCEPT ![sched[a].dest] = @ + 1]
  /\ UNCHANGED <<online, id, cur, polled, theft, sched, queue, consumer, bound,
                 task, sleepers, notified, excused>>

Enqueue(a) ==
  /\ Goto(a, "enqueue", sched[a].ret)
  /\ queue' = [queue EXCEPT ![sched[a].dest] = Append(@, sched[a].task)]
  /\ sched' = [sched EXCEPT ![a] = NoSched]
  /\ UNCHANGED <<online, id, cur, polled, theft, queued, consumer, bound, task,
                 sleepers, notified, excused>>

\* The closure of Executor::build_task, called on CPU c.
Spawn(c, t, ret) ==
  /\ task[t] = "unspawned"
  /\ ~sleepers.closed
  /\ task' = [task EXCEPT ![t] = "queued"]
  /\ bound' = IF c \in online THEN [bound EXCEPT ![t] = c] ELSE bound
  /\ CallSchedule(c, t, IF c \in online THEN c ELSE Injector, ret)

\* Mutant: a task that is being polled is enqueued right away.
WakeTask_running(a, t, ret) ==
  /\ task[t] \in {"idle", "running"}
  /\ task' = [task EXCEPT ![t] = "queued"]
  /\ CallSchedule(a, t, bound[t], ret)

\* Mutant: a completed task is enqueued again.
WakeTask_completed(a, t, ret) ==
  /\ task[t] \in {"idle", "done"}
  /\ task' = [task EXCEPT ![t] = "queued"]
  /\ CallSchedule(a, t, bound[t], ret)

\* Waker::wake_by_ref by actor a: an idle task goes to the scheduler it is bound
\* to, a running one is queued again at the end of its poll.  Waker::wake, which the
\* timer and trigger_irq call, does the same to an idle task and nothing to a
\* running one: that is a step that changes nothing.
WakeTask(a, t, ret) ==
  \/ /\ task[t] = "idle"
     /\ task' = [task EXCEPT ![t] = "queued"]
     /\ CallSchedule(a, t, bound[t], ret)
  \/ /\ task[t] = "running"
     /\ task' = [task EXCEPT ![t] = "rewoken"]
     /\ UNCHANGED <<sched, pc>>

-----------------------------------------------------------------------------
(* Starting up. *)

\* The CPU spawns a task before it has a Worker.
SpawnEarly(c, t) ==
  /\ pc[c] = "new"
  /\ Spawn(c, t, "new")
  /\ UNCHANGED <<online, id, cur, polled, theft, queue, queued, consumer,
                 sleepers, notified, excused>>

\* Worker::new: the id is the number of schedulers that exist by now ...
WorkerId(c) ==
  /\ Goto(c, "new", "register")
  /\ id' = [id EXCEPT ![c] = Cardinality(online)]
  /\ UNCHANGED <<online, cur, polled, theft, sched, queue, queued, consumer,
                 bound, task, sleepers, notified, excused>>

\* ... and then this CPU's scheduler is created.
Register(c) ==
  /\ Goto(c, "register", "run")
  /\ online' = online \cup {c}
  /\ UNCHANGED <<id, cur, polled, theft, sched, queue, queued, consumer, bound,
                 task, sleepers, notified, excused>>

\* Worker::run.
Run(c) ==
  /\ Goto(c, "run", IF sleepers.closed THEN "done" ELSE "tick")
  /\ UNCHANGED <<online, id, cur, polled, theft, sched, queue, queued, consumer,
                 bound, task, sleepers, notified, excused>>

-----------------------------------------------------------------------------
(* Scheduler::tick_n. *)

\* The loop condition and try_dequeue.
Tick(c) ==
  /\ pc[c] = "tick"
  /\ IF polled[c] < TickBudget /\ consumer[c] = None /\ queue[c] # <<>>
     THEN /\ cur' = [cur EXCEPT ![c] = Head(queue[c])]
          /\ queue' = [queue EXCEPT ![c] = Tail(@)]
          /\ excused' = excused \ {Head(queue[c])}
          /\ pc' = [pc EXCEPT ![c] = "uncount"]
     ELSE /\ pc' = [pc EXCEPT ![c] = "check"]
          /\ UNCHANGED <<cur, queue, excused>>
  /\ UNCHANGED <<online, id, polled, theft, sched, queued, consumer, bound, task,
                 sleepers, notified>>

\* queued.fetch_sub, then Task::poll begins.
Uncount(c) ==
  /\ Goto(c, "uncount", "poll")
  /\ queued' = [queued EXCEPT ![c] = @ - 1]
  /\ task' = [task EXCEPT ![cur[c]] = "running"]
  /\ UNCHANGED <<online, id, cur, polled, theft, sched, queue, consumer, bound,
                 sleepers, notified, excused>>

\* What the future may do while it is polled: spawn, wake, close the executor.
PollSpawn(c, t) ==
  /\ pc[c] = "poll"
  /\ Spawn(c, t, "poll")
  /\ UNCHANGED <<online, id, cur, polled, theft, queue, queued, consumer,
                 sleepers, notified, excused>>

PollWake(c, t) ==
  /\ pc[c] = "poll"
  /\ WakeTask(c, t, "poll")
  /\ UNCHANGED <<online, id, cur, polled, theft, queue, queued, consumer, bound,
                 sleepers, notified, excused>>

\* Executor::close: every worker that waits gets Err(Closed).
PollClose(c) ==
  /\ pc[c] = "poll"
  /\ ~sleepers.closed
  /\ sleepers' = [permit |-> FALSE, waiters |-> <<>>, closed |-> TRUE]
  /\ notified' = [d \in Cpus |-> IF \E k \in DOMAIN sleepers.waiters : sleepers.waiters[k] = d
                                THEN "closed" ELSE notified[d]]
  /\ UNCHANGED <<pc, online, id, cur, polled, theft, sched, queue, queued,
                 consumer, bound, task, excused>>

\* Task::poll returns: PollResult::Ready, Pending or PendingSchedule.
PollReady(c) ==
  /\ Goto(c, "poll", "tick")
  /\ task' = [task EXCEPT ![cur[c]] = "done"]
  /\ cur' = [cur EXCEPT ![c] = None]
  /\ polled' = [polled EXCEPT ![c] = @ + 1]
  /\ UNCHANGED <<online, id, theft, sched, queue, queued, consumer, bound,
                 sleepers, notified, excused>>

PollPending(c) ==
  /\ pc[c] = "poll"
  /\ polled' = [polled EXCEPT ![c] = @ + 1]
  /\ cur' = [cur EXCEPT ![c] = None]
  /\ \/ /\ task[cur[c]] = "running"
        /\ task' = [task EXCEPT ![cur[c]] = "idle"]
        /\ pc' = [pc EXCEPT ![c] = "tick"]
        /\ UNCHANGED sched
     \/ /\ task[cur[c]] = "rewoken"
        /\ task' = [task EXCEPT ![cur[c]] = "queued"]
        /\ CallSchedule(c, cur[c], c, "tick")
  /\ UNCHANGED <<online, id, theft, queue, queued, consumer, bound, sleepers,
                 notified, excused>>

\* Mutant: tasks that arrived during the tick are not noticed.
Check_empty(c) ==
  /\ Goto(c, "check", "inject")
  /\ polled' = [polled EXCEPT ![c] = 0]
  /\ UNCHANGED <<online, id, cur, theft, sched, queue, queued, consumer, bound,
                 task, sleepers, notified, excused>>

\* The end of tick_n and of Worker::tick: with tasks remaining the main loop ticks
\* again, otherwise the worker tries to steal.
Check(c) ==
  /\ Goto(c, "check", IF queued[c] > 0 THEN "tick" ELSE "inject")
  /\ polled' = [polled EXCEPT ![c] = 0]
  /\ UNCHANGED <<online, id, cur, theft, sched, queue, queued, consumer, bound,
                 task, sleepers, notified, excused>>

-----------------------------------------------------------------------------
(* Worker::try_steal and Stealer. *)

\* The worker goes on in try_steal with the locals w.
Goes(c, to, w) ==
  /\ pc' = [pc EXCEPT ![c] = to]
  /\ theft' = [theft EXCEPT ![c] = w]

\* The end of try_steal: what was not stolen makes the worker sleep.
StealFailed(c) == Goes(c, "wait", NoTheft)

LastRound(c) == theft[c].round = Rounds

\* try_steal goes on without the injector: after the first attempt with the rounds
\* over the other workers, after the second it has failed.
InjectorFailed(c) ==
  IF LastRound(c) THEN StealFailed(c)
  ELSE Goes(c, "round", [theft[c] EXCEPT !.src = None])

\* What is in queue q while a thief whose dequeue or load found it empty has not yet
\* dropped its Consumer: nobody takes it, and to anyone else the queue is busy.
PassedOver(q) ==
  {t \in Tasks : /\ consumer[q] # None
                 /\ pc[consumer[q]] = "release" /\ theft[consumer[q]].stolen = 0
                 /\ \E k \in DOMAIN queue[q] : queue[q][k] = t}

\* Injector::try_steal, up to try_consume.
TryInjector(c) ==
  /\ pc[c] = "inject"
  /\ \/ /\ consumer[Injector] = None
        /\ consumer' = [consumer EXCEPT ![Injector] = c]
        /\ Goes(c, "inject_len", [theft[c] EXCEPT !.src = Injector])
        /\ UNCHANGED excused
     \/ /\ consumer[Injector] # None
        /\ InjectorFailed(c)
        /\ excused' = excused \cup PassedOver(Injector)
        /\ UNCHANGED consumer
  /\ UNCHANGED <<online, id, cur, polled, sched, queue, queued, bound, task,
                 sleepers, notified>>

\* Stealer::new and the limit of spawn_n; without tasks the Consumer is dropped.
InjectorLen(c) ==
  /\ pc[c] = "inject_len"
  /\ \/ /\ queued[Injector] > 0
        /\ Goes(c, "steal", [theft[c] EXCEPT !.limit = MaxStolen])
     \/ /\ queued[Injector] = 0
        /\ Goes(c, "release", theft[c])
  /\ UNCHANGED <<online, id, cur, polled, sched, queue, queued, consumer, bound,
                 task, sleepers, notified, excused>>

\* try_steal before the rounds: num_workers is read once.
CountWorkers(c) ==
  /\ pc[c] = "round" /\ theft[c].num = 0
  /\ IF Cardinality(online) <= 1 THEN StealFailed(c)
     ELSE Goes(c, "round", [theft[c] EXCEPT !.num = Cardinality(online)])
  /\ UNCHANGED <<online, id, cur, polled, sched, queue, queued, consumer, bound,
                 task, sleepers, notified, excused>>

\* Each round starts from a random worker; after the last one comes the injector
\* again.
Round(c) ==
  /\ pc[c] = "round" /\ theft[c].num > 0
  /\ IF LastRound(c)
     THEN Goes(c, "inject", theft[c])
     ELSE \E start \in 0 .. theft[c].num - 1 :
            Goes(c, "victim", [theft[c] EXCEPT !.next = start, !.left = theft[c].num])
  /\ UNCHANGED <<online, id, cur, polled, sched, queue, queued, consumer, bound,
                 task, sleepers, notified, excused>>

\* schedulers.iter().nth(i): the i-th CPU that has a scheduler.
Nth(i) == CHOOSE c \in online : Cardinality({d \in online : d < c}) = i

\* The fields of theft[c] for the next victim, or the next round.
Advance(c) ==
  Goes(c, "victim", [theft[c] EXCEPT !.next = (@ + 1) % theft[c].num,
                                     !.left = @ - 1, !.src = None])

NextRound(c) ==
  Goes(c, "round", [NoTheft EXCEPT !.round = theft[c].round + 1,
                                   !.num = theft[c].num])

\* Queue v has a consumer: a thief, or its own worker in try_dequeue.
MaybeBusy(v) == consumer[v] # None \/ pc[v] = "tick"

\* One iteration of try_steal_one_round, up to try_consume of the victim's queue.
Victim(c) ==
  /\ pc[c] = "victim"
  /\ LET v == Nth(theft[c].next)
     IN  \/ /\ theft[c].left = 0
            /\ NextRound(c)
            /\ UNCHANGED <<consumer, excused>>
         \/ /\ theft[c].left > 0 /\ theft[c].next = id[c]
            /\ Advance(c)
            /\ UNCHANGED <<consumer, excused>>
         \/ /\ theft[c].left > 0 /\ theft[c].next # id[c]
            /\ MaybeBusy(v)
            /\ Advance(c)
            /\ excused' = excused \cup PassedOver(v)
            /\ UNCHANGED consumer
         \/ /\ theft[c].left > 0 /\ theft[c].next # id[c]
            /\ consumer[v] = None
            /\ consumer' = [consumer EXCEPT ![v] = c]
            /\ Goes(c, "victim_len", [theft[c] EXCEPT !.src = v])
            /\ UNCHANGED excused
  /\ UNCHANGED <<online, id, cur, polled, sched, queue, queued, bound, task,
                 sleepers, notified>>

\* Stealer::new for a victim, and the limit of spawn_half.
VictimLen(c) ==
  /\ pc[c] = "victim_len"
  /\ LET v == theft[c].src
     IN  \/ /\ queued[v] > 0
            /\ Goes(c, "steal", [theft[c] EXCEPT !.limit = (queued[v] + 1) \div 2])
         \/ /\ queued[v] = 0
            /\ Goes(c, "release", theft[c])
  /\ UNCHANGED <<online, id, cur, polled, sched, queue, queued, consumer, bound,
                 task, sleepers, notified, excused>>

\* The loop of spawn_n, up to Consumer::dequeue in spawn_one.
Steal(c) ==
  /\ pc[c] = "steal"
  /\ LET q == theft[c].src
     IN  IF theft[c].stolen <= theft[c].limit /\ queue[q] # <<>>
         THEN /\ Goes(c, "take", [theft[c] EXCEPT !.task = Head(queue[q])])
              /\ queue' = [queue EXCEPT ![q] = Tail(@)]
              /\ excused' = excused \ {Head(queue[q])}
         ELSE /\ Goes(c, "release", theft[c])
              /\ UNCHANGED <<queue, excused>>
  /\ UNCHANGED <<online, id, cur, polled, sched, queued, consumer, bound, task,
                 sleepers, notified>>

\* The Consumer is dropped, by Stealer::new (limit 0) or with the Stealer.  A Stealer
\* that stole nothing ends the attempt: the whole try_steal for the injector, the
\* round for a victim.
Release(c) ==
  /\ pc[c] = "release"
  /\ consumer' = [consumer EXCEPT ![theft[c].src] = None]
  /\ \/ /\ theft[c].stolen > 0
        /\ Goes(c, "tick", NoTheft)
     \/ /\ theft[c].stolen = 0 /\ theft[c].src = Injector
        /\ IF theft[c].limit > 0 THEN StealFailed(c) ELSE InjectorFailed(c)
     \/ /\ theft[c].stolen = 0 /\ theft[c].src # Injector
        /\ IF theft[c].limit > 0 THEN NextRound(c) ELSE Advance(c)
  /\ UNCHANGED <<online, id, cur, polled, sched, queue, queued, bound, task,
                 sleepers, notified, excused>>

\* Mutant: the victim's counter is left alone.
Take_uncounted(c) ==
  /\ pc[c] = "take"
  /\ bound' = [bound EXCEPT ![theft[c].task] = c]
  /\ CallSchedule(c, theft[c].task, c, "steal")
  /\ theft' = [theft EXCEPT ![c].task = None, ![c].stolen = @ + 1]
  /\ UNCHANGED <<online, id, cur, polled, queue, queued, consumer, task, sleepers,
                 notified, excused>>

\* Mutant: the stolen task stays bound to its old scheduler.
Take_unbound(c) ==
  /\ pc[c] = "take"
  /\ queued' = [queued EXCEPT ![theft[c].src] = @ - 1]
  /\ CallSchedule(c, theft[c].task, c, "steal")
  /\ theft' = [theft EXCEPT ![c].task = None, ![c].stolen = @ + 1]
  /\ UNCHANGED <<online, id, cur, polled, queue, consumer, bound, task, sleepers,
                 notified, excused>>

\* The rest of spawn_one: the victim's counter, bind_scheduler, schedule.
Take(c) ==
  /\ pc[c] = "take"
  /\ queued' = [queued EXCEPT ![theft[c].src] = @ - 1]
  /\ bound' = [bound EXCEPT ![theft[c].task] = c]
  /\ CallSchedule(c, theft[c].task, c, "steal")
  /\ theft' = [theft EXCEPT ![c].task = None, ![c].stolen = @ + 1]
  /\ UNCHANGED <<online, id, cur, polled, queue, consumer, task, sleepers,
                 notified, excused>>

-----------------------------------------------------------------------------
(* Sleeping and waking: WaitQueue::wait, wake, and the trap handler. *)

Wait(c) ==
  /\ pc[c] = "wait"
  /\ \/ /\ sleepers.closed
        /\ pc' = [pc EXCEPT ![c] = "done"]
        /\ UNCHANGED sleepers
     \/ /\ ~sleepers.closed /\ sleepers.permit
        /\ pc' = [pc EXCEPT ![c] = "tick"]
        /\ sleepers' = [sleepers EXCEPT !.permit = FALSE]
     \/ /\ ~sleepers.closed /\ ~sleepers.permit
        /\ pc' = [pc EXCEPT ![c] = "asleep"]
        /\ sleepers' = [sleepers EXCEPT !.waiters = Append(@, c)]
  /\ UNCHANGED <<online, id, cur, polled, theft, sched, queue, queued, consumer,
                 bound, task, notified, excused>>

WakeUp(c) ==
  /\ notified[c] # "no"
  /\ Goto(c, "asleep", IF notified[c] = "closed" THEN "done" ELSE "tick")
  /\ notified' = [notified EXCEPT ![c] = "no"]
  /\ UNCHANGED <<online, id, cur, polled, theft, sched, queue, queued, consumer,
                 bound, task, sleepers, excused>>

\* The future given to Worker::run is polled again, spawns a task on this CPU and
\* returns Pending; main_loop still waits.
DriveSpawn(c, t) ==
  /\ c \in Driving
  /\ pc[c] = "asleep"
  /\ Spawn(c, t, "asleep")
  /\ excused' = excused \cup {t}
  /\ UNCHANGED <<online, id, cur, polled, theft, queue, queued, consumer,
                 sleepers, notified>>

\* The same future wakes a task: one that was idle gets onto the queue of its
\* scheduler and nobody is told.
DriveWake(c, t) ==
  /\ c \in Driving
  /\ pc[c] = "asleep"
  /\ WakeTask(c, t, "asleep")
  /\ excused' = IF task[t] = "idle" THEN excused \cup {t} ELSE excused
  /\ UNCHANGED <<online, id, cur, polled, theft, queue, queued, consumer, bound,
                 sleepers, notified>>

Interrupt(i) ==
  /\ Goto(i, "idle", "handler")
  /\ UNCHANGED <<online, id, cur, polled, theft, sched, queue, queued, consumer,
                 bound, task, sleepers, notified, excused>>

\* irq::trigger_irq or Timer::try_turn wakes a task.
IrqWake(i, t) ==
  /\ pc[i] = "handler"
  /\ WakeTask(i, t, "handler")
  /\ UNCHANGED <<online, id, cur, polled, theft, queue, queued, consumer, bound,
                 sleepers, notified, excused>>

\* Executor::wake_one, and the handler returns.
WakeOne(i) ==
  /\ Goto(i, "handler", "idle")
  /\ \/ /\ sleepers.waiters # <<>>
        /\ sleepers' = [sleepers EXCEPT !.waiters = Tail(@)]
        /\ notified' = [notified EXCEPT ![Head(sleepers.waiters)] = "woken"]
     \/ /\ sleepers.waiters = <<>>
        /\ sleepers' = [sleepers EXCEPT !.permit = ~sleepers.closed]
        /\ UNCHANGED notified
  /\ UNCHANGED <<online, id, cur, polled, theft, sched, queue, queued, consumer,
                 bound, task, excused>>

-----------------------------------------------------------------------------
CpuProgress(c) ==
  \/ Count(c) \/ Enqueue(c) \/ WorkerId(c) \/ Register(c) \/ Run(c)
  \/ Tick(c) \/ Uncount(c) \/ PollReady(c) \/ PollPending(c) \/ Check(c)
  \/ TryInjector(c) \/ InjectorLen(c) \/ CountWorkers(c) \/ Round(c) \/ Victim(c)
  \/ VictimLen(c) \/ Steal(c) \/ Take(c) \/ Release(c) \/ Wait(c) \/ WakeUp(c)

CpuChoice(c) ==
  \/ PollClose(c)
  \/ \E t \in Tasks : SpawnEarly(c, t) \/ PollSpawn(c, t) \/ PollWake(c, t)
                      \/ DriveSpawn(c, t) \/ DriveWake(c, t)

IrqProgress(i) == Count(i) \/ Enqueue(i) \/ WakeOne(i)

Next ==
  \/ \E c \in Cpus : CpuProgress(c) \/ CpuChoice(c)
  \/ \E i \in Irqs : \/ IrqProgress(i) \/ Interrupt(i)
                     \/ \E t \in Tasks : IrqWake(i, t)

\* Every CPU keeps executing its worker, polls return and trap handlers finish;
\* no interrupt, wake-up or spawn is ever owed.
Spec == Init /\ [][Next]_vars
Fairness ==
  /\ \A c \in Cpus : WF_vars(CpuProgress(c))
  /\ \A i \in Irqs : WF_vars(IrqProgress(i))
FairSpec == Spec /\ Fairness

-----------------------------------------------------------------------------
(* Safety. *)

TheftType ==
  [round : 0 .. Rounds, num : 0 .. NumCpus, src : Queues \cup {None},
   next : 0 .. NumCpus, left : 0 .. NumCpus, limit : Nat, stolen : Nat,
   task : Tasks \cup {None}]

TypeOK ==
  /\ pc \in [Actors -> CpuPC \cup IrqPC]
  /\ online \subseteq Cpus
  /\ id \in [Cpus -> Cpus \cup {None}]
  /\ cur \in [Cpus -> Tasks \cup {None}]
  /\ polled \in [Cpus -> 0 .. TickBudget]
  /\ theft \in [Cpus -> TheftType]
  /\ sched \in [Actors -> [task : Tasks \cup {None}, dest : Queues \cup {None},
                           ret : CpuPC \cup IrqPC \cup {"none"}]]
  /\ queue \in [Queues -> Seq(Tasks)]
  /\ queued \in [Queues -> Nat]
  /\ consumer \in [Queues -> Cpus \cup {None}]
  /\ bound \in [Tasks -> Cpus \cup {None}]
  /\ task \in [Tasks -> {"unspawned", "queued", "running", "rewoken", "idle", "done"}]
  /\ sleepers \in [permit : BOOLEAN, waiters : Seq(Cpus), closed : BOOLEAN]
  /\ notified \in [Cpus -> {"no", "woken", "closed"}]
  /\ excused \subseteq Tasks

\* Each `queued' counter is the length of its queue, plus the tasks counted but not
\* yet enqueued, plus those dequeued but not yet uncounted: it is an upper bound of
\* the length, it never wraps below zero, and a worker that reads 0 in tick_n has
\* nothing in its queue.
QueuedCounts ==
  \A q \in Queues :
    queued[q] = Len(queue[q])
              + Cardinality({a \in Actors : pc[a] = "enqueue" /\ sched[a].dest = q})
              + Cardinality({c \in Cpus : pc[c] = "uncount" /\ c = q})
              + Cardinality({c \in Cpus : pc[c] = "take" /\ theft[c].src = q})

\* A task waits in the queue of the scheduler it is bound to, and a task that can be
\* woken is bound to one: TaskRef::schedule never finds None ("task doesn't have an
\* associated scheduler, this is a bug!").
BoundWhereQueued ==
  /\ \A c \in Cpus : \A k \in 1 .. Len(queue[c]) : bound[queue[c][k]] = c
  /\ \A t \in Tasks : task[t] \in {"running", "rewoken", "idle"} => bound[t] # None
  /\ \A c \in Cpus : cur[c] # None => bound[cur[c]] = c

\* Where a task is: in a queue, in a worker's hands, or being moved.
Held(t) ==
  Cardinality({p \in UNION {{q} \X DOMAIN queue[q] : q \in Queues} :
                 queue[p[1]][p[2]] = t})
  + Cardinality({c \in Cpus : cur[c] = t})
  + Cardinality({c \in Cpus : theft[c].task = t})
  + Cardinality({a \in Actors : sched[a].task = t})

\* No task is lost and none is duplicated, however it is woken, stolen and moved:
\* a queued or running task is in exactly one place, any other in none.
OnePlace ==
  \A t \in Tasks :
    Held(t) = IF task[t] \in {"queued", "running", "rewoken"} THEN 1 ELSE 0

\* Every worker is parked or gone and no trap handler runs.
AtRest ==
  /\ \A c \in Cpus : pc[c] = "done" \/ (pc[c] = "asleep" /\ notified[c] = "no")
  /\ \A i \in Irqs : pc[i] = "idle"

\* The ids Worker::new gave out are the positions in CpuLocal::iter.
IdsMatch == \A c \in Cpus : id[c] = c

\* No lost wake-up: Worker::tick lets a CPU sleep when it has "no remaining woken
\* tasks" and stole none, and a trap handler calls wake_one after its wake-ups;
\* together they never let all CPUs sleep while a task is queued, provided every
\* worker looks at all the others, and but for what a driven future spawned or woke and
\* what a thief passed over because the queue looked busy.
NoStrandedTask ==
  AtRest /\ ~sleepers.closed /\ IdsMatch =>
    \A q \in Queues : \A k \in DOMAIN queue[q] : queue[q][k] \in excused

\* block_on: "Drive a worker future (e.g. `Worker::run`) to also poll spawned
\* tasks."  With nobody running, no spawned task is left in a queue.
RunPollsSpawned ==
  AtRest /\ ~sleepers.closed => \A q \in Queues : queue[q] = <<>>

\* Worker::tick: "if we have no remaining woken tasks, and we didn't steal any new
\* tasks, this core can sleep until an interrupt occurs."
CanSleep == AtRest /\ ~sleepers.closed /\ IdsMatch => \A q \in Queues : queue[q] = <<>>

\* try_steal_one_round: "Don't steal from ourselves! We know we don't have work."
VictimIsOther == \A c \in Cpus : theft[c].src # c

-----------------------------------------------------------------------------
(* Each task lives the life of module TaskLifecycle. *)

PhaseOf(t) ==
  CASE task[t] \in {"unspawned", "queued"} -> "queued"
    [] task[t] \in {"running", "rewoken"} -> "running"
    [] task[t] = "idle" -> "idle"
    [] OTHER -> "complete"

OutputOf(t) == IF task[t] = "done" THEN "ready" ELSE "none"

Life(t) == INSTANCE TaskLifecycle
             WITH phase <- PhaseOf(t),
                  output <- OutputOf(t)

\* Whatever is spawned, woken and stolen, every task is polled only when it is
\* queued, by one worker at a time, and never after it completed.
TasksFollowLifecycle ==
  [][\A t \in Tasks : [Life(t)!Next]_<<PhaseOf(t), OutputOf(t)>>]_vars
=============================================================================
