--------------------------- MODULE ExecutorPlaces ---------------------------
(***************************************************************************)
(* The executor's inductive invariant, second part: every active task is   *)
(* in one place, it is bound to the scheduler that has it, and the counter *)
(* of a queue is the number of tasks in it and on the way.                 *)
(***************************************************************************)
EXTENDS ExecutorSteps

InQueue(q, t) == \E j \in DOMAIN queue[q] : queue[q][j] = t

\* The places a task can be in: a queue, the hands of a worker that polls it or of one
\* that stole it, a call of schedule.
Kinds == {"queue", "cur", "theft", "sched"}
Spots == Queues \cup Actors

Has(k, x, t) ==
  \/ k = "queue" /\ x \in Queues /\ InQueue(x, t)
  \/ k = "cur" /\ x \in Cpus /\ cur[x] = t
  \/ k = "theft" /\ x \in Cpus /\ theft[x].task = t
  \/ k = "sched" /\ x \in Actors /\ sched[x].task = t

\* The life cycle of a task in such a place.
Phases(k, x) == IF k = "cur" /\ pc[x] # "uncount" THEN {"running", "rewoken"} ELSE {"queued"}

NoDup(q) == \A i, j \in DOMAIN queue[q] : queue[q][i] = queue[q][j] => i = j

\* An active task is in one place, and its life cycle is the one of that place.
Places ==
  /\ \A t \in Tasks : \A k, l \in Kinds : \A x, y \in Spots :
        Has(k, x, t) /\ Has(l, y, t) => k = l /\ x = y
  /\ \A q \in Queues : NoDup(q)
  /\ \A t \in Tasks : \A k \in Kinds : \A x \in Spots : Has(k, x, t) => task[t] \in Phases(k, x)
  /\ \A t \in Tasks : task[t] \in {"queued", "running", "rewoken"} =>
        \E k \in Kinds : \E x \in Spots : Has(k, x, t)

\* An actor that moves no task: it changes nothing of what is queued, held or bound.
Quiet(a) ==
  /\ UNCHANGED <<cur, sched, queue, task, bound>> /\ online \subseteq online'
  /\ \A b \in Actors \ {a} : pc'[b] = pc[b]
  /\ \A d \in Cpus : theft'[d].task = theft[d].task /\ (d # a => theft'[d] = theft[d])
  /\ pc[a] \notin {"uncount", "take"} /\ pc'[a] \notin {"uncount", "take"}

-----------------------------------------------------------------------------
(* Queues. *)

\* Enqueueing a task that is not there.
LEMMA Appended ==
  ASSUME NEW q \in Queues, NEW t0 \in Tasks, queue \in [Queues -> Seq(Tasks)],
         queue' = [queue EXCEPT ![q] = Append(queue[q], t0)]
  PROVE  /\ \A r \in Queues, t \in Tasks : InQueue(r, t)' <=> InQueue(r, t) \/ (r = q /\ t = t0)
         /\ \A r \in Queues \ {q} : queue'[r] = queue[r]
         /\ Len(queue[q]) \in Nat /\ Len(queue'[q]) = Len(queue[q]) + 1
         /\ ~InQueue(q, t0) /\ (\A r \in Queues : NoDup(r)) => \A r \in Queues : NoDup(r)'
  <1>1. queue[q] \in Seq(Tasks) /\ queue'[q] = Append(queue[q], t0)
        /\ \A r \in Queues \ {q} : queue'[r] = queue[r]
    BY Zenon
  <1> DEFINE n == Len(queue[q])
  <1>2. /\ n \in Nat /\ DOMAIN queue[q] = 1 .. n /\ DOMAIN queue'[q] = 1 .. n + 1
        /\ queue'[q][n + 1] = t0 /\ \A j \in 1 .. n : queue'[q][j] = queue[q][j]
        /\ Len(queue'[q]) = n + 1
    BY <1>1
  <1>3. 1 .. n + 1 = (1 .. n) \cup {n + 1} /\ n + 1 \notin 1 .. n  BY <1>2
  <1> HIDE DEF n
  <1>4. \A t \in Tasks : InQueue(q, t)' <=> InQueue(q, t) \/ t = t0
    BY <1>2, <1>3, Zenon DEF InQueue
  <1>5. \A r \in Queues \ {q}, t \in Tasks : InQueue(r, t)' <=> InQueue(r, t)
    BY <1>1, Zenon DEF InQueue
  <1>6. ASSUME ~InQueue(q, t0), \A r \in Queues : NoDup(r)
        PROVE  \A r \in Queues : NoDup(r)'
    <2>1. NoDup(q)'
      <3>1. \A i, j \in 1 .. n : queue[q][i] = queue[q][j] => i = j  BY <1>2, <1>6, Zenon DEF NoDup
      <3>2. \A i \in 1 .. n : queue[q][i] # t0  BY <1>2, <1>6, Zenon DEF InQueue
      <3> QED  BY <1>2, <1>3, <3>1, <3>2 DEF NoDup
    <2>2. \A r \in Queues \ {q} : NoDup(r)'  BY <1>1, <1>6, Zenon DEF NoDup
    <2> QED  BY <2>1, <2>2
  <1>7. n = Len(queue[q])  BY DEF n
  <1> QED  BY <1>1, <1>2, <1>4, <1>5, <1>6, <1>7, Zenon

\* Dequeueing the head.
LEMMA Dequeued ==
  ASSUME NEW q \in Queues, queue \in [Queues -> Seq(Tasks)], queue[q] # <<>>,
         \A r \in Queues : NoDup(r),
         queue' = [queue EXCEPT ![q] = Tail(queue[q])]
  PROVE  /\ Head(queue[q]) \in Tasks /\ InQueue(q, Head(queue[q]))
         /\ \A r \in Queues, t \in Tasks :
               InQueue(r, t)' <=> InQueue(r, t) /\ ~ (r = q /\ t = Head(queue[q]))
         /\ \A r \in Queues \ {q} : queue'[r] = queue[r]
         /\ Len(queue[q]) \in Nat /\ Len(queue'[q]) = Len(queue[q]) - 1
         /\ \A r \in Queues : NoDup(r)'
  <1>1. queue[q] \in Seq(Tasks) /\ queue'[q] = Tail(queue[q])
        /\ \A r \in Queues \ {q} : queue'[r] = queue[r]
    BY Zenon
  <1> DEFINE n == Len(queue[q])
  <1>2. /\ n \in Nat /\ n > 0 /\ DOMAIN queue[q] = 1 .. n /\ DOMAIN queue'[q] = 1 .. n - 1
        /\ Head(queue[q]) = queue[q][1] /\ queue[q][1] \in Tasks
        /\ \A j \in 1 .. n - 1 : queue'[q][j] = queue[q][j + 1]
        /\ Len(queue'[q]) = n - 1
    BY <1>1
  <1> HIDE DEF n
  <1>3. NoDup(q)  OBVIOUS
  <1>4. ASSUME NEW t \in Tasks
        PROVE  InQueue(q, t)' <=> InQueue(q, t) /\ t # Head(queue[q])
    <2>1. InQueue(q, t)' => \E j \in 1 .. n - 1 : queue[q][j + 1] = t
      BY <1>2 DEF InQueue
    <2>2. ASSUME NEW j \in 1 .. n - 1, queue[q][j + 1] = t
          PROVE  InQueue(q, t) /\ t # Head(queue[q])
      BY <1>2, <1>3, <2>2 DEF InQueue, NoDup
    <2>3. ASSUME InQueue(q, t), t # Head(queue[q])
          PROVE  InQueue(q, t)'
      <3>1. PICK j \in 1 .. n : queue[q][j] = t  BY <1>2, <2>3, Zenon DEF InQueue
      <3>2. j # 1  BY <1>2, <2>3, <3>1
      <3>3. j - 1 \in 1 .. n - 1 /\ (j - 1) + 1 = j  BY <1>2, <3>2
      <3>4. queue'[q][j - 1] = t  BY <1>2, <3>1, <3>3
      <3> QED  BY <1>2, <3>3, <3>4, Zenon DEF InQueue
    <2> QED  BY <2>1, <2>2, <2>3, Zenon
  <1>5. \A r \in Queues \ {q}, t \in Tasks : InQueue(r, t)' <=> InQueue(r, t)
    BY <1>1, Zenon DEF InQueue
  <1>6. NoDup(q)'
    BY <1>2, <1>3 DEF NoDup
  <1>7. \A r \in Queues \ {q} : NoDup(r)'  BY <1>1, Zenon DEF NoDup
  <1>8. InQueue(q, Head(queue[q])) /\ Head(queue[q]) \in Tasks
    <2>1. 1 \in 1 .. n  BY <1>2
    <2> QED  BY <1>2, <2>1, Zenon DEF InQueue
  <1>9. n = Len(queue[q])  BY DEF n
  <1> QED  BY <1>1, <1>2, <1>4, <1>5, <1>6, <1>7, <1>8, <1>9, Zenon

-----------------------------------------------------------------------------
(* Places. *)

\* One task moves to place (l, y), the others stay.
LEMMA PlacesMove ==
  ASSUME Places, NEW t0 \in Tasks, NEW l \in Kinds, NEW y \in Spots,
         \A t \in Tasks \ {t0} : \A k \in Kinds : \A x \in Spots : Has(k, x, t)' <=> Has(k, x, t),
         \A k \in Kinds : \A x \in Spots : Has(k, x, t0)' <=> k = l /\ x = y,
         \A t \in Tasks \ {t0} : task'[t] = task[t],
         task'[t0] \in Phases(l, y)',
         \A c \in Cpus : cur'[c] \in Tasks \ {t0} => (pc'[c] = "uncount" <=> pc[c] = "uncount"),
         \A q \in Queues : NoDup(q)'
  PROVE  Places'
  <1>1. ASSUME NEW t \in Tasks, NEW k \in Kinds, NEW m \in Kinds, NEW x \in Spots, NEW z \in Spots,
               Has(k, x, t)', Has(m, z, t)'
        PROVE  k = m /\ x = z
    <2>1. CASE t = t0  BY <1>1, <2>1, Zenon
    <2>2. CASE t # t0
      <3>1. Has(k, x, t) /\ Has(m, z, t)  BY <1>1, <2>2, Zenon
      <3> QED  BY <3>1, Zenon DEF Places
    <2> QED  BY <2>1, <2>2
  <1>2. ASSUME NEW t \in Tasks, NEW k \in Kinds, NEW x \in Spots, Has(k, x, t)'
        PROVE  task'[t] \in Phases(k, x)'
    <2>1. CASE t = t0  BY <1>2, <2>1, Zenon DEF Phases
    <2>2. CASE t # t0
      <3>1. Has(k, x, t) /\ task'[t] = task[t] /\ task[t] \in Phases(k, x)
        BY <1>2, <2>2, Zenon DEF Places
      <3>2. k = "cur" => x \in Cpus /\ cur'[x] \in Tasks \ {t0}
        BY <1>2, <2>2, Zenon DEF Has
      <3> QED  BY <3>1, <3>2, Zenon DEF Phases
    <2> QED  BY <2>1, <2>2
  <1>3. ASSUME NEW t \in Tasks, task'[t] \in {"queued", "running", "rewoken"}
        PROVE  \E k \in Kinds : \E x \in Spots : Has(k, x, t)'
    <2>1. CASE t = t0  BY <2>1, Zenon
    <2>2. CASE t # t0
      <3>1. PICK k \in Kinds, x \in Spots : Has(k, x, t)  BY <1>3, <2>2, Zenon DEF Places
      <3> QED  BY <2>2, <3>1, Zenon
    <2> QED  BY <2>1, <2>2
  <1> HIDE DEF Has, Phases, NoDup
  <1> QED  BY <1>1, <1>2, <1>3, Zenon DEF Places

\* One task leaves its place and is no longer active.
LEMMA PlacesGone ==
  ASSUME Places, NEW t0 \in Tasks,
         \A t \in Tasks \ {t0} : \A k \in Kinds : \A x \in Spots : Has(k, x, t)' <=> Has(k, x, t),
         \A k \in Kinds : \A x \in Spots : ~Has(k, x, t0)',
         \A t \in Tasks \ {t0} : task'[t] = task[t],
         task'[t0] \notin {"queued", "running", "rewoken"},
         \A c \in Cpus : cur'[c] \in Tasks \ {t0} => (pc'[c] = "uncount" <=> pc[c] = "uncount"),
         \A q \in Queues : NoDup(q)'
  PROVE  Places'
  <1>1. ASSUME NEW t \in Tasks, NEW k \in Kinds, NEW m \in Kinds, NEW x \in Spots, NEW z \in Spots,
               Has(k, x, t)', Has(m, z, t)'
        PROVE  k = m /\ x = z
    <2>1. CASE t = t0  BY <1>1, <2>1, Zenon
    <2>2. CASE t # t0
      <3>1. Has(k, x, t) /\ Has(m, z, t)  BY <1>1, <2>2, Zenon
      <3> QED  BY <3>1, Zenon DEF Places
    <2> QED  BY <2>1, <2>2
  <1>2. ASSUME NEW t \in Tasks, NEW k \in Kinds, NEW x \in Spots, Has(k, x, t)'
        PROVE  task'[t] \in Phases(k, x)'
    <2>0. t # t0 /\ Has(k, x, t)  BY <1>2, Zenon
    <2>1. t # t0 /\ Has(k, x, t) /\ task'[t] = task[t] /\ task[t] \in Phases(k, x)
      BY <2>0, Zenon DEF Places
    <2>2. k = "cur" => x \in Cpus /\ cur'[x] \in Tasks \ {t0}
      BY <1>2, <2>1, Zenon DEF Has
    <2> QED  BY <2>1, <2>2, Zenon DEF Phases
  <1>3. ASSUME NEW t \in Tasks, task'[t] \in {"queued", "running", "rewoken"}
        PROVE  \E k \in Kinds : \E x \in Spots : Has(k, x, t)'
    <2>1. t # t0  BY <1>3, Zenon
    <2>2. PICK k \in Kinds, x \in Spots : Has(k, x, t)  BY <1>3, <2>1, Zenon DEF Places
    <2> QED  BY <2>1, <2>2, Zenon
  <1> QED  BY <1>1, <1>2, <1>3, Zenon DEF Places

\* Nothing moves.
LEMMA PlacesSame ==
  ASSUME Places, UNCHANGED <<cur, sched, queue, task>>,
         \A d \in Cpus : theft'[d].task = theft[d].task,
         \A c \in Cpus : cur[c] \in Tasks => (pc'[c] = "uncount" <=> pc[c] = "uncount")
  PROVE  Places'
  <1>1. ASSUME NEW t, NEW k, NEW x
        PROVE  Has(k, x, t)' <=> Has(k, x, t)
    <2>1. InQueue(x, t)' <=> InQueue(x, t)  BY DEF InQueue
    <2> QED  BY <2>1 DEF Has
  <1>2. ASSUME NEW t \in Tasks, NEW k \in Kinds, NEW x \in Spots, Has(k, x, t)
        PROVE  Phases(k, x)' = Phases(k, x)
    BY <1>2, Zenon DEF Phases, Has
  <1>3. \A q \in Queues : NoDup(q)'  BY Zenon DEF Places, NoDup
  <1>4. task' = task  OBVIOUS
  <1>5. \A t \in Tasks : \A k, l \in Kinds : \A x, y \in Spots :
          Has(k, x, t)' /\ Has(l, y, t)' => k = l /\ x = y
    BY <1>1, Zenon DEF Places
  <1>6. ASSUME NEW t \in Tasks, NEW k \in Kinds, NEW x \in Spots, Has(k, x, t)'
        PROVE  task'[t] \in Phases(k, x)'
    <2>1. Has(k, x, t) /\ task[t] \in Phases(k, x)  BY <1>1, <1>6, Zenon DEF Places
    <2> QED  BY <1>2, <1>4, <2>1, Zenon
  <1>7. ASSUME NEW t \in Tasks, task'[t] \in {"queued", "running", "rewoken"}
        PROVE  \E k \in Kinds : \E x \in Spots : Has(k, x, t)'
    <2>1. PICK k \in Kinds, x \in Spots : Has(k, x, t)  BY <1>4, <1>7, Zenon DEF Places
    <2> QED  BY <1>1, <2>1, Zenon
  <1> QED  BY <1>3, <1>5, <1>6, <1>7, Zenon DEF Places

\* Actor a calls schedule for task t0, out of its hands or from nowhere.
CallMoves(a, t0) ==
  /\ sched'[a].task = t0 /\ sched[a].task = None
  /\ \A b \in Actors \ {a} : sched'[b] = sched[b] /\ pc'[b] = pc[b]
  /\ queue' = queue
  /\ \A d \in Cpus : cur'[d] = cur[d] \/ (cur[d] = t0 /\ cur'[d] = None)
  /\ \A d \in Cpus : theft'[d].task = theft[d].task \/ (theft[d].task = t0 /\ theft'[d].task = None)
  /\ \A k \in Kinds : \A x \in Spots : Has(k, x, t0) =>
        (k = "cur" /\ cur'[x] = None) \/ (k = "theft" /\ theft'[x].task = None)
  /\ task'[t0] = "queued" /\ \A t \in Tasks \ {t0} : task'[t] = task[t]
  /\ pc[a] # "uncount" /\ pc'[a] # "uncount"

\* Putting a task in nobody's hands into a call of schedule keeps every task in one place.
LEMMA PlacesCall ==
  ASSUME Places, NEW t0 \in Tasks, NEW a \in Actors, CallMoves(a, t0)
  PROVE  Places'
  <1> USE DEF CallMoves
  <1>0. None \notin Tasks /\ Actors \subseteq Spots  BY Numbers, Zenon DEF Spots
  <1>1. ASSUME NEW t \in Tasks \ {t0}, NEW k \in Kinds, NEW x \in Spots
        PROVE  Has(k, x, t)' <=> Has(k, x, t)
    <2>0. t # t0 /\ t # None  BY <1>0, Zenon
    <2>1. k = "queue" => (Has(k, x, t)' <=> Has(k, x, t))
      <3>1. InQueue(x, t)' <=> InQueue(x, t)  BY DEF InQueue
      <3> QED  BY <3>1 DEF Has
    <2>2. k = "cur" => (Has(k, x, t)' <=> Has(k, x, t))
      <3>1. x \in Cpus => (cur'[x] = t <=> cur[x] = t)  BY <2>0, Zenon
      <3> QED  BY <3>1 DEF Has
    <2>3. k = "theft" => (Has(k, x, t)' <=> Has(k, x, t))
      <3>1. x \in Cpus => (theft'[x].task = t <=> theft[x].task = t)  BY <2>0, Zenon
      <3> QED  BY <3>1 DEF Has
    <2>4. k = "sched" => (Has(k, x, t)' <=> Has(k, x, t))
      <3>1. x \in Actors => (sched'[x].task = t <=> sched[x].task = t)  BY <2>0, Zenon
      <3> QED  BY <3>1 DEF Has
    <2> QED  BY <2>1, <2>2, <2>3, <2>4, Zenon DEF Kinds
  <1>2. ASSUME NEW k \in Kinds, NEW x \in Spots
        PROVE  Has(k, x, t0)' <=> k = "sched" /\ x = a
    <2>1. k = "queue" => ~Has(k, x, t0)'
      <3>1. k = "queue" => ~Has(k, x, t0)  OBVIOUS
      <3> QED  BY <3>1, Zenon DEF Has, InQueue
    <2>2. k = "cur" => ~Has(k, x, t0)'
      <3>1. k = "cur" /\ Has(k, x, t0) => cur'[x] = None  OBVIOUS
      <3> QED  BY <1>0, <3>1, Zenon DEF Has
    <2>3. k = "theft" => ~Has(k, x, t0)'
      <3>1. k = "theft" /\ Has(k, x, t0) => theft'[x].task = None  OBVIOUS
      <3> QED  BY <1>0, <3>1, Zenon DEF Has
    <2>4. k = "sched" => (Has(k, x, t0)' <=> x = a)
      <3>1. k = "sched" => ~Has(k, x, t0)  OBVIOUS
      <3> QED  BY <3>1, Zenon DEF Has
    <2> QED  BY <2>1, <2>2, <2>3, <2>4, Zenon DEF Kinds
  <1>3. "sched" \in Kinds /\ a \in Spots /\ Phases("sched", a)' = {"queued"}
    BY <1>0 DEF Kinds, Phases
  <1>4. \A c \in Cpus : pc'[c] = "uncount" <=> pc[c] = "uncount"
    BY Numbers, Zenon
  <1>5. \A q \in Queues : NoDup(q)'  BY Zenon DEF Places, NoDup
  <1>6. task'[t0] \in Phases("sched", a)'  BY <1>3, Zenon
  <1>7. \A t \in Tasks \ {t0} : task'[t] = task[t]  OBVIOUS
  <1> QED  BY <1>1, <1>2, <1>3, <1>4, <1>5, <1>6, <1>7, PlacesMove

-----------------------------------------------------------------------------
(* The steps that move no task. *)

TickTakes(c) == polled[c] < TickBudget /\ consumer[c] = None /\ queue[c] # <<>>
StealTakes(c) == theft[c].stolen <= theft[c].limit /\ queue[theft[c].src] # <<>>

StaysQuiet(a) ==
  \/ Count(a)
  \/ a \in Irqs /\ (WakeOne(a) \/ Interrupt(a))
  \/ /\ a \in Cpus
     /\ \/ WorkerId(a) \/ Register(a) \/ Run(a) \/ Check(a) \/ Wait(a) \/ WakeUp(a) \/ PollClose(a)
        \/ TryInjector(a) \/ InjectorLen(a) \/ CountWorkers(a) \/ Round(a) \/ Victim(a)
        \/ VictimLen(a) \/ Release(a)
        \/ (Tick(a) /\ ~TickTakes(a)) \/ (Steal(a) /\ ~StealTakes(a))

\* The steps that move no task.
LEMMA QuietSteps ==
  ASSUME SetFacts, TypeOK, Own, NEW a \in Actors, StaysQuiet(a)
  PROVE  /\ Quiet(a)
         /\ ~Count(a) => queued' = queued /\ pc[a] # "enqueue" /\ pc'[a] # "enqueue"
  <1>1. pc \in [Actors -> CpuPC \cup IrqPC] /\ Irqs \cap Cpus = {}  BY TypeFields, Numbers, Zenon
  <1>2. CASE Count(a)
    <2>1. /\ UNCHANGED <<cur, sched, queue, task, bound, online, theft>>
          /\ pc[a] = "count" /\ pc' = [pc EXCEPT ![a] = "enqueue"]
      BY <1>2, Zenon DEF Count, Goto
    <2> QED  BY <1>1, <1>2, <2>1 DEF Quiet
  <1>3. CASE a \in Irqs /\ (WakeOne(a) \/ Interrupt(a))
    <2>1. /\ UNCHANGED <<cur, sched, queue, queued, task, bound, online, theft>>
          /\ \/ pc[a] = "handler" /\ pc' = [pc EXCEPT ![a] = "idle"]
             \/ pc[a] = "idle" /\ pc' = [pc EXCEPT ![a] = "handler"]
      BY <1>3, Zenon DEF WakeOne, Interrupt, Goto
    <2> QED  BY <1>1, <2>1 DEF Quiet
  <1>4. CASE a \in Cpus /\ (\/ WorkerId(a) \/ Register(a) \/ Run(a) \/ Check(a) \/ Wait(a) \/ WakeUp(a)
                            \/ Tick(a) /\ ~TickTakes(a))
    <2>1. /\ UNCHANGED <<cur, sched, queue, queued, task, bound, theft>> /\ online \subseteq online'
          /\ pc[a] \in {"new", "register", "run", "check", "wait", "asleep", "tick"}
          /\ \E to \in {"register", "run", "done", "tick", "inject", "asleep", "check"} :
               pc' = [pc EXCEPT ![a] = to]
      BY <1>4, Zenon DEF WorkerId, Register, Run, Check, Wait, WakeUp, Tick, TickTakes, Goto
    <2> QED  BY <1>1, <2>1 DEF Quiet
  <1>5. CASE a \in Cpus /\ PollClose(a)
    <2>1. UNCHANGED <<pc, cur, sched, queue, queued, task, bound, online, theft>> /\ pc[a] = "poll"
      BY <1>5, Zenon DEF PollClose
    <2> QED  BY <2>1 DEF Quiet
  <1>6. CASE a \in Cpus /\ (\/ TryInjector(a) \/ InjectorLen(a) \/ CountWorkers(a) \/ Round(a) \/ Victim(a)
                            \/ VictimLen(a) \/ Release(a) \/ (Steal(a) /\ ~StealTakes(a)))
    <2>0. a \in Cpus  BY <1>6
    <2>1. /\ UNCHANGED <<cur, sched, queue, queued, task, bound, online>>
          /\ pc[a] \in {"inject", "inject_len", "round", "victim", "victim_len", "release", "steal"}
      BY <1>6, Zenon DEF TryInjector, InjectorLen, CountWorkers, Round, Victim, VictimLen, Release,
                         Steal, StealTakes
    <2>2. theft[a].task = None
      <3>1. Locals(a)  BY <2>0, SelfFacts, Zenon
      <3>2. At(a) # "take"  BY <2>1 DEF At
      <3> QED  BY <3>1, <3>2, Zenon DEF Locals, Hand
    <2> DEFINE Step(to, t) == /\ \A b \in Actors \ {a} : pc'[b] = pc[b]
                              /\ \A d \in Cpus \ {a} : theft'[d] = theft[d]
                              /\ pc'[a] = to /\ theft'[a].task = t
    <2>3. \A to, r, n, s, x, l, m, k, t : Thief(a, to, r, n, s, x, l, m, k, t) => Step(to, t)
      BY Zenon DEF Thief
    <2>4. \A to, s : Kept(a, to, s) => Step(to, theft[a].task)  BY <2>3, Zenon DEF Kept
    <2>5. \A to : Cleared(a, to) => Step(to, None)  BY <2>3, Zenon DEF Cleared
    <2>6. /\ Stepped(a) => Step("victim", theft[a].task)
          /\ NewRound(a) => Step("round", None)
      BY <2>3, Zenon DEF Stepped, NewRound
    <2> HIDE DEF Step
    <2>7. \E to \in {"inject", "inject_len", "round", "victim", "victim_len", "release", "steal",
                     "tick", "wait"} : Step(to, None)
      <3>1. CASE TryInjector(a)
        BY <2>0, <2>2, <2>4, <2>5, <3>1, ThiefMoves, Zenon DEF TryInjectorMoves
      <3>2. CASE InjectorLen(a)
        BY <2>0, <2>2, <2>3, <2>4, <3>2, ThiefMoves, Zenon DEF InjectorLenMoves
      <3>3. CASE CountWorkers(a)
        BY <2>0, <2>2, <2>3, <2>5, <3>3, ThiefMoves, Zenon DEF CountWorkersMoves
      <3>4. CASE Round(a)
        BY <2>0, <2>2, <2>3, <2>4, <3>4, ThiefMoves, Zenon DEF RoundMoves
      <3>5. CASE Victim(a)
        BY <2>0, <2>2, <2>4, <2>6, <3>5, ThiefMoves, Zenon DEF VictimMoves
      <3>6. CASE VictimLen(a)
        BY <2>0, <2>2, <2>3, <2>4, <3>6, ThiefMoves, Zenon DEF VictimLenMoves
      <3>7. CASE Release(a)
        BY <2>0, <2>2, <2>4, <2>5, <2>6, <3>7, ThiefMoves, Zenon DEF ReleaseMoves
      <3>8. CASE Steal(a) /\ ~StealTakes(a)
        BY <2>0, <2>2, <2>4, <3>8, ThiefMoves, Zenon DEF StealMoves, StealTakes
      <3> QED  BY <1>6, <3>1, <3>2, <3>3, <3>4, <3>5, <3>6, <3>7, <3>8, Zenon
    <2>8. PICK to \in {"inject", "inject_len", "round", "victim", "victim_len", "release", "steal",
                      "tick", "wait"} : Step(to, None)
      BY <2>7
    <2>9. /\ \A b \in Actors \ {a} : pc'[b] = pc[b]
          /\ \A d \in Cpus : theft'[d].task = theft[d].task /\ (d # a => theft'[d] = theft[d])
          /\ pc'[a] = to
      BY <2>2, <2>8, Zenon DEF Step
    <2>10. /\ pc[a] \notin {"uncount", "take"} /\ pc'[a] \notin {"uncount", "take"}
           /\ pc[a] # "enqueue" /\ pc'[a] # "enqueue"
      BY <2>1, <2>9
    <2>11. UNCHANGED <<cur, sched, queue, task, bound>> /\ online \subseteq online' /\ queued' = queued
      BY <2>1, Zenon
    <2> QED  BY <2>9, <2>10, <2>11, Zenon DEF Quiet
  <1> QED  BY <1>2, <1>3, <1>4, <1>5, <1>6, Zenon DEF StaysQuiet

\* The steps: those that move no task, and the others.
LEMMA NextCases ==
  ASSUME Next
  PROVE  \/ \E a \in Actors : StaysQuiet(a) \/ Enqueue(a)
         \/ \E c \in Cpus : \/ Uncount(c) \/ PollReady(c) \/ PollPending(c) \/ Take(c)
                             \/ (Tick(c) /\ TickTakes(c)) \/ (Steal(c) /\ StealTakes(c))
         \/ \E c \in Cpus, t \in Tasks : \/ SpawnEarly(c, t) \/ PollSpawn(c, t) \/ DriveSpawn(c, t)
                                         \/ PollWake(c, t) \/ DriveWake(c, t)
         \/ \E i \in Irqs, t \in Tasks : IrqWake(i, t)
  <1>1. ASSUME NEW c \in Cpus, CpuProgress(c)
        PROVE  \/ StaysQuiet(c) \/ Enqueue(c) \/ Uncount(c) \/ PollReady(c) \/ PollPending(c) \/ Take(c)
               \/ (Tick(c) /\ TickTakes(c)) \/ (Steal(c) /\ StealTakes(c))
    BY <1>1 DEF CpuProgress, StaysQuiet
  <1>2. ASSUME NEW c \in Cpus, PollClose(c)  PROVE StaysQuiet(c)
    BY <1>2 DEF StaysQuiet
  <1>3. ASSUME NEW i \in Irqs, IrqProgress(i) \/ Interrupt(i)
        PROVE  StaysQuiet(i) \/ Enqueue(i)
    BY <1>3 DEF IrqProgress, StaysQuiet
  <1> QED  BY <1>1, <1>2, <1>3, Numbers, Zenon DEF Next, CpuChoice

-----------------------------------------------------------------------------
\* No step loses or duplicates a task.
LEMMA PlacesStep ==
  ASSUME SetFacts, TypeOK, Own, Binding, Places, Next
  PROVE  Places'
  <1>0. /\ cur \in [Cpus -> Tasks \cup {None}] /\ sched \in [Actors -> SchedType]
        /\ queue \in [Queues -> Seq(Tasks)] /\ None \notin Tasks /\ Cpus \subseteq Actors
        /\ task \in [Tasks -> {"unspawned", "queued", "running", "rewoken", "idle", "done"}]
        /\ pc \in [Actors -> CpuPC \cup IrqPC] /\ Cpus \subseteq Spots /\ Queues \subseteq Spots
        /\ Actors \subseteq Spots
    BY TypeFields, Numbers, Zenon DEF Spots
  <1>Quiet. ASSUME NEW a \in Actors, StaysQuiet(a)  PROVE Places'
    <2>1. Quiet(a)  BY <1>Quiet, QuietSteps, Zenon
    <2>2. \A c \in Cpus : cur[c] \in Tasks => (pc'[c] = "uncount" <=> pc[c] = "uncount")
      BY <1>0, <2>1, Zenon DEF Quiet
    <2> QED  BY <2>1, <2>2, PlacesSame, Zenon DEF Quiet
  <1>One. ASSUME NEW t \in Tasks, NEW k \in Kinds, NEW l \in Kinds, NEW x \in Spots, NEW y \in Spots,
                 Has(k, x, t), Has(l, y, t)
          PROVE  k = l /\ x = y
    BY <1>One, Zenon DEF Places
  <1>Nowhere. ASSUME NEW t \in Tasks, task[t] \notin {"queued", "running", "rewoken"}
              PROVE  \A k \in Kinds : \A x \in Spots : ~Has(k, x, t)
    <2>1. \A k, x : Phases(k, x) \subseteq {"queued", "running", "rewoken"}  BY DEF Phases
    <2> QED  BY <1>Nowhere, <2>1, Zenon DEF Places
  \* A new or an idle task is given to a scheduler.
  <1>Calling. ASSUME NEW a \in Actors, NEW t \in Tasks, task[t] \in {"unspawned", "idle"},
                     task' = [task EXCEPT ![t] = "queued"],
                     pc[a] \in {"new", "poll", "asleep", "handler"},
                     sched'[a].task = t, pc'[a] = "count",
                     \A b \in Actors \ {a} : pc'[b] = pc[b] /\ sched'[b] = sched[b],
                     UNCHANGED <<cur, theft, queue>>
              PROVE  Places'
    <2> USE <1>Calling
    <2>1. sched[a].task = None
      <3>1. Call(a) /\ pc[a] \notin {"count", "enqueue"}  BY Zenon DEF Own, Calls
      <3> QED  BY <3>1 DEF Call, NoSched
    <2>2. \A k \in Kinds : \A x \in Spots : ~Has(k, x, t)  BY <1>Nowhere
    <2>3. /\ task'[t] = "queued" /\ \A u \in Tasks \ {t} : task'[u] = task[u]
          /\ pc[a] # "uncount" /\ pc'[a] # "uncount"
      BY <1>0, Zenon
    <2>4. /\ queue' = queue /\ \A b \in Actors \ {a} : sched'[b] = sched[b] /\ pc'[b] = pc[b]
          /\ \A d \in Cpus : cur'[d] = cur[d] \/ (cur[d] = t /\ cur'[d] = None)
          /\ \A d \in Cpus : theft'[d].task = theft[d].task \/ (theft[d].task = t /\ theft'[d].task = None)
      BY Zenon
    <2>5. \A k \in Kinds : \A x \in Spots : Has(k, x, t) =>
            (k = "cur" /\ cur'[x] = None) \/ (k = "theft" /\ theft'[x].task = None)
      BY <2>2, Zenon
    <2>6. CallMoves(a, t)  BY <2>1, <2>3, <2>4, <2>5, Zenon DEF CallMoves
    <2> QED  BY <2>6, PlacesCall, Zenon
  <1>Spawn. ASSUME NEW c \in Cpus, NEW t \in Tasks,
                   SpawnEarly(c, t) \/ PollSpawn(c, t) \/ DriveSpawn(c, t)
            PROVE  Places'
    <2>0. c \in Cpus /\ c \in Actors /\ t \in Tasks  BY <1>Spawn, <1>0
    <2>1. /\ pc[c] \in {"new", "poll", "asleep"} /\ task[t] = "unspawned"
          /\ task' = [task EXCEPT ![t] = "queued"] /\ UNCHANGED <<cur, theft, queue>>
          /\ CallSchedule(c, t, IF c \in online THEN c ELSE Injector, pc[c])
      BY <1>Spawn, Zenon DEF SpawnEarly, PollSpawn, DriveSpawn, Spawn
    <2>2. /\ (IF c \in online THEN c ELSE Injector) \in Queues /\ pc[c] \in CpuPC \cup IrqPC
      BY <1>0, <2>0, Numbers, Zenon
    <2>3. /\ sched'[c].task = t /\ pc'[c] = "count"
          /\ \A b \in Actors \ {c} : pc'[b] = pc[b] /\ sched'[b] = sched[b]
      BY <2>0, <2>1, <2>2, CallDoes, Zenon
    <2> QED  BY <2>0, <2>1, <2>3, <1>Calling, Zenon
  <1>Wake. ASSUME NEW a \in Actors, NEW t \in Tasks, NEW ret \in {"poll", "asleep", "handler"},
                  pc[a] = ret, WakeTask(a, t, ret), UNCHANGED <<cur, theft, queue>>
           PROVE  Places'
    <2> USE <1>Wake
    <2>1. ret \in CpuPC \cup IrqPC  BY DEF CpuPC, IrqPC
    <2>2. CASE /\ task[t] = "idle" /\ task' = [task EXCEPT ![t] = "queued"]
               /\ pc'[a] = "count" /\ sched'[a].task = t
               /\ \A b \in Actors \ {a} : pc'[b] = pc[b] /\ sched'[b] = sched[b]
      BY <2>2, <1>Calling, Zenon
    <2>3. CASE /\ task[t] = "running" /\ task' = [task EXCEPT ![t] = "rewoken"]
               /\ pc' = pc /\ sched' = sched
      <3>1. PICK l \in Kinds, y \in Spots : Has(l, y, t)  BY <2>3, Zenon DEF Places
      <3>2. \A u, k, x : Has(k, x, u)' <=> Has(k, x, u)
        <4>1. \A u, x : InQueue(x, u)' <=> InQueue(x, u)  BY Zenon DEF InQueue
        <4> QED  BY <2>3, <4>1 DEF Has
      <3>3. Phases(l, y)' = {"running", "rewoken"}
        <4>1. task[t] \in Phases(l, y)  BY <3>1, Zenon DEF Places
        <4>2. l = "cur" /\ pc[y] # "uncount"  BY <2>3, <4>1 DEF Phases
        <4> QED  BY <2>3, <4>2, Zenon DEF Phases
      <3>4. \A k \in Kinds : \A x \in Spots : Has(k, x, t)' <=> k = l /\ x = y
        BY <3>1, <3>2, Zenon DEF Places
      <3>5. \A q \in Queues : NoDup(q)'  BY Zenon DEF Places, NoDup
      <3>6. /\ task'[t] \in Phases(l, y)' /\ \A u \in Tasks \ {t} : task'[u] = task[u]
        BY <1>0, <2>3, <3>3, Zenon
      <3> QED  BY <2>3, <3>2, <3>4, <3>5, <3>6, PlacesMove, Zenon
    <2> QED  BY <2>1, <2>2, <2>3, WakeDoes, Zenon
  <1>PollDone. ASSUME NEW c \in Cpus, pc[c] = "poll", pc'[c] # "uncount", cur' = [cur EXCEPT ![c] = None],
                      \A b \in Actors \ {c} : pc'[b] = pc[b],
                      NEW p \in {"idle", "done"}, task' = [task EXCEPT ![cur[c]] = p],
                      UNCHANGED <<sched, theft, queue>>
               PROVE  Places'
    <2> USE <1>PollDone
    <2>1. cur[c] \in Tasks
      <3>1. cur[c] # None  BY SelfFacts DEF Locals, Hand, At
      <3> QED  BY <1>0, <3>1
    <2>1a. PICK t0 \in Tasks : t0 = cur[c]  BY <2>1
    <2>2. /\ cur'[c] = None /\ \A d \in Cpus \ {c} : cur'[d] = cur[d]
          /\ task'[t0] = p /\ \A u \in Tasks \ {t0} : task'[u] = task[u]
      BY <1>0, <2>1a, Zenon
    <2>3. \A u, x : InQueue(x, u)' <=> InQueue(x, u)  BY Zenon DEF InQueue
    <2>4. Has("cur", c, t0) /\ "cur" \in Kinds  BY <2>1a DEF Has, Kinds
    <2>5. t0 \in Tasks  OBVIOUS
    <2>6. ASSUME NEW u \in Tasks \ {t0}, NEW k \in Kinds, NEW x \in Spots
          PROVE  Has(k, x, u)' <=> Has(k, x, u)
      <3>1. x \in Cpus => (cur'[x] = u <=> cur[x] = u)  BY <1>0, <2>1a, <2>2, Zenon
      <3> QED  BY <2>3, <3>1 DEF Has
    <2>7. ASSUME NEW k \in Kinds, NEW x \in Spots, Has(k, x, t0)'  PROVE FALSE
      <3>1. Has(k, x, t0) => k = "cur" /\ x = c  BY <1>0, <2>4, <2>5, <1>One
      <3>2. k # "cur" => Has(k, x, t0)  BY <2>3, <2>7 DEF Has
      <3>3. k = "cur" => x # c /\ Has(k, x, t0)
        <4>1. k = "cur" => x \in Cpus /\ cur'[x] = t0  BY <2>7 DEF Has
        <4>2. k = "cur" => x # c  BY <1>0, <2>2, <2>5, <4>1, Zenon
        <4> QED  BY <2>2, <4>1, <4>2 DEF Has
      <3> QED  BY <3>1, <3>2, <3>3
    <2>8. \A d \in Cpus : cur'[d] \in Tasks \ {t0} => (pc'[d] = "uncount" <=> pc[d] = "uncount")
      BY <1>0, <2>2, Zenon
    <2>9. \A q \in Queues : NoDup(q)'  BY Zenon DEF Places, NoDup
    <2>10. task'[t0] \notin {"queued", "running", "rewoken"}  BY <2>2
    <2> QED  BY <2>2, <2>5, <2>6, <2>7, <2>8, <2>9, <2>10, PlacesGone
  <1>PollReady. ASSUME NEW c \in Cpus, PollReady(c)  PROVE Places'
    <2>1. /\ pc[c] = "poll" /\ pc' = [pc EXCEPT ![c] = "tick"] /\ cur' = [cur EXCEPT ![c] = None]
          /\ task' = [task EXCEPT ![cur[c]] = "done"] /\ UNCHANGED <<sched, theft, queue>>
      BY <1>PollReady, Zenon DEF PollReady, Goto
    <2>2. pc'[c] = "tick" /\ \A b \in Actors \ {c} : pc'[b] = pc[b]  BY <1>0, <1>PollReady, <2>1, Zenon
    <2> QED  BY <1>PollReady, <2>1, <2>2, <1>PollDone, Zenon
  <1>PollPending. ASSUME NEW c \in Cpus, PollPending(c)  PROVE Places'
    <2>0. c \in Cpus /\ c \in Actors  BY <1>PollPending, <1>0
    <2> USE <2>0
    <2>1. /\ pc[c] = "poll" /\ cur' = [cur EXCEPT ![c] = None] /\ UNCHANGED <<theft, queue>>
          /\ \/ /\ pc' = [pc EXCEPT ![c] = "tick"] /\ sched' = sched
                /\ task' = [task EXCEPT ![cur[c]] = "idle"]
             \/ task' = [task EXCEPT ![cur[c]] = "queued"] /\ CallSchedule(c, cur[c], c, "tick")
      BY <1>PollPending, Zenon DEF PollPending
    <2>2. cur[c] \in Tasks /\ sched[c].task = None
      <3>1. cur[c] # None /\ Call(c)  BY <2>1, SelfFacts DEF Locals, Hand, At
      <3> QED  BY <1>0, <2>1, <3>1 DEF Call, NoSched
    <2>3. CASE pc' = [pc EXCEPT ![c] = "tick"] /\ sched' = sched /\ task' = [task EXCEPT ![cur[c]] = "idle"]
      <3>1. pc'[c] = "tick" /\ \A b \in Actors \ {c} : pc'[b] = pc[b]  BY <1>0, <2>3, Zenon
      <3> QED  BY <2>1, <2>3, <3>1, <1>PollDone, Zenon
    <2>4. CASE task' = [task EXCEPT ![cur[c]] = "queued"] /\ CallSchedule(c, cur[c], c, "tick")
      <3>0. PICK t0 \in Tasks : t0 = cur[c]  BY <2>2
      <3>1. /\ sched'[c].task = t0 /\ pc'[c] = "count"
            /\ \A b \in Actors \ {c} : pc'[b] = pc[b] /\ sched'[b] = sched[b]
        <4>1. c \in Queues /\ "tick" \in CpuPC \cup IrqPC  BY Numbers, Zenon DEF CpuPC
        <4> QED  BY <2>4, <3>0, <4>1, CallDoes, Zenon
      <3>2. /\ cur'[c] = None /\ \A d \in Cpus \ {c} : cur'[d] = cur[d]
            /\ task'[t0] = "queued" /\ \A u \in Tasks \ {t0} : task'[u] = task[u]
        BY <1>0, <2>1, <2>4, <3>0, Zenon
      <3>3. Has("cur", c, t0) /\ "cur" \in Kinds  BY <3>0 DEF Has, Kinds
      <3>4. t0 \in Tasks  OBVIOUS
      <3>5. \A k \in Kinds : \A x \in Spots : Has(k, x, t0) => k = "cur" /\ cur'[x] = None
        BY <1>0, <3>2, <3>3, <3>4, <1>One
      <3>6. \A d \in Cpus : cur'[d] = cur[d] \/ (cur[d] = t0 /\ cur'[d] = None)
        BY <3>0, <3>2, Zenon
      <3>7. pc[c] # "uncount" /\ pc'[c] # "uncount"  BY <2>1, <3>1
      <3>8. /\ queue' = queue /\ \A b \in Actors \ {c} : sched'[b] = sched[b] /\ pc'[b] = pc[b]
            /\ \A d \in Cpus : theft'[d].task = theft[d].task \/ (theft[d].task = t0 /\ theft'[d].task = None)
        BY <2>1, <3>1, Zenon
      <3>9. \A k \in Kinds : \A x \in Spots : Has(k, x, t0) =>
              (k = "cur" /\ cur'[x] = None) \/ (k = "theft" /\ theft'[x].task = None)
        BY <3>5, Zenon
      <3>10. CallMoves(c, t0)  BY <2>2, <3>1, <3>2, <3>6, <3>7, <3>8, <3>9, Zenon DEF CallMoves
      <3> QED  BY <3>4, <3>10, PlacesCall, Zenon
    <2> QED  BY <2>1, <2>3, <2>4, Zenon
  <1>Take. ASSUME NEW c \in Cpus, Take(c)  PROVE Places'
    <2>0. c \in Cpus /\ c \in Actors  BY <1>Take, <1>0
    <2> USE <2>0
    <2>1. /\ pc[c] = "take" /\ UNCHANGED <<cur, queue, task>>
          /\ CallSchedule(c, theft[c].task, c, "steal")
      BY <1>Take, Zenon DEF Take
    <2>1a. theft[c].task \in Tasks /\ sched[c].task = None
      <3>1. theft[c].task # None /\ Call(c)  BY <2>1, SelfFacts DEF Locals, Hand, At
      <3>2. theft[c].task \in Tasks \cup {None}  BY FieldTypes, Zenon
      <3> QED  BY <2>1, <3>1, <3>2 DEF Call, NoSched
    <2>1b. PICK t0 \in Tasks : t0 = theft[c].task  BY <2>1a
    <2>2. t0 \in Tasks /\ sched[c].task = None  BY <2>1a
    <2>3. /\ sched'[c].task = t0 /\ pc'[c] = "count"
          /\ \A b \in Actors \ {c} : pc'[b] = pc[b] /\ sched'[b] = sched[b]
      <3>1. c \in Queues /\ "steal" \in CpuPC \cup IrqPC  BY Numbers, Zenon DEF CpuPC
      <3> QED  BY <2>1, <2>1b, <2>2, <3>1, CallDoes, Zenon
    <2>4. theft'[c].task = None /\ \A d \in Cpus \ {c} : theft'[d] = theft[d]
      BY <1>Take, ThiefMoves, Zenon DEF TakeMoves, Thief
    <2>5. Has("theft", c, t0) /\ "theft" \in Kinds  BY <2>1b DEF Has, Kinds
    <2>6. \A k \in Kinds : \A x \in Spots : Has(k, x, t0) => k = "theft" /\ theft'[x].task = None
      BY <1>0, <2>2, <2>4, <2>5, <1>One
    <2>7. task[t0] = "queued"
      <3>1. task[t0] \in Phases("theft", c)  BY <1>0, <2>2, <2>5, Zenon DEF Places
      <3> QED  BY <3>1 DEF Phases
    <2>8. \A d \in Cpus : theft'[d].task = theft[d].task \/ (theft[d].task = t0 /\ theft'[d].task = None)
      BY <2>1b, <2>4, Zenon
    <2>9. pc[c] # "uncount" /\ pc'[c] # "uncount"  BY <2>1, <2>3
    <2>10. /\ queue' = queue /\ \A b \in Actors \ {c} : sched'[b] = sched[b] /\ pc'[b] = pc[b]
           /\ \A d \in Cpus : cur'[d] = cur[d] \/ (cur[d] = t0 /\ cur'[d] = None)
           /\ task'[t0] = "queued" /\ \A u \in Tasks \ {t0} : task'[u] = task[u]
      BY <2>1, <2>3, <2>7, Zenon
    <2>11. \A k \in Kinds : \A x \in Spots : Has(k, x, t0) =>
             (k = "cur" /\ cur'[x] = None) \/ (k = "theft" /\ theft'[x].task = None)
      BY <2>6, Zenon
    <2>12. CallMoves(c, t0)  BY <2>2, <2>3, <2>8, <2>9, <2>10, <2>11, Zenon DEF CallMoves
    <2> QED  BY <2>2, <2>12, PlacesCall, Zenon
  <1>Enqueue. ASSUME NEW a \in Actors, Enqueue(a)  PROVE Places'
    <2>0. a \in Actors  BY <1>Enqueue
    <2> USE <2>0
    <2>1. /\ pc[a] = "enqueue" /\ pc' = [pc EXCEPT ![a] = sched[a].ret] /\ UNCHANGED <<cur, theft, task>>
          /\ queue' = [queue EXCEPT ![sched[a].dest] = Append(queue[sched[a].dest], sched[a].task)]
          /\ sched' = [sched EXCEPT ![a] = NoSched]
      BY <1>Enqueue, Zenon DEF Enqueue, Goto
    <2>1a. sched[a].task \in Tasks /\ sched[a].dest \in Queues /\ sched[a].ret # "uncount"
      <3>1. Call(a)  BY Zenon DEF Own, Calls
      <3> QED  BY <2>1, <3>1 DEF Call
    <2>1b. PICK t0 \in Tasks, q \in Queues : t0 = sched[a].task /\ q = sched[a].dest  BY <2>1a
    <2>2. t0 \in Tasks /\ q \in Queues  OBVIOUS
    <2>3. /\ sched'[a].task = None /\ \A b \in Actors \ {a} : sched'[b] = sched[b]
          /\ \A b \in Actors : pc'[b] = "uncount" <=> pc[b] = "uncount"
      <3>1. NoSched.task = None  BY DEF NoSched
      <3> QED  BY <1>0, <2>1, <2>1a, <3>1, Zenon
    <2>4. Has("sched", a, t0) /\ "sched" \in Kinds /\ "queue" \in Kinds  BY <2>1b DEF Has, Kinds
    <2>5. ~InQueue(q, t0)
      <3>1. InQueue(q, t0) => Has("queue", q, t0)  BY <2>2 DEF Has
      <3> QED  BY <1>0, <2>2, <2>4, <3>1, <1>One
    <2>6. queue' = [queue EXCEPT ![q] = Append(queue[q], t0)]  BY <2>1, <2>1b, Zenon
    <2>7. /\ \A r \in Queues, t \in Tasks : InQueue(r, t)' <=> InQueue(r, t) \/ (r = q /\ t = t0)
          /\ \A r \in Queues : NoDup(r)'
      <3>1. \A r \in Queues : NoDup(r)  BY Zenon DEF Places
      <3> QED  BY <1>0, <2>2, <2>5, <2>6, <3>1, Appended, Zenon
    <2>8. ASSUME NEW u \in Tasks \ {t0}, NEW k \in Kinds, NEW x \in Spots
          PROVE  Has(k, x, u)' <=> Has(k, x, u)
      <3>1. x \in Queues => (InQueue(x, u)' <=> InQueue(x, u))  BY <2>7, Zenon
      <3>2. x \in Actors => (sched'[x].task = u <=> sched[x].task = u)  BY <1>0, <2>1b, <2>3, Zenon
      <3>3. cur' = cur /\ theft' = theft  BY <2>1
      <3> QED  BY <3>1, <3>2, <3>3 DEF Has
    <2>9. ASSUME NEW k \in Kinds, NEW x \in Spots
          PROVE  Has(k, x, t0)' <=> k = "queue" /\ x = q
      <3>1. Has(k, x, t0) => k = "sched" /\ x = a  BY <1>0, <2>2, <2>4, <1>One
      <3>2. k = "queue" => (Has(k, x, t0)' <=> x = q)
        <4>1. k = "queue" /\ x \in Queues => ~InQueue(x, t0)  BY <3>1 DEF Has
        <4> QED  BY <2>2, <2>7, <4>1 DEF Has
      <3>3. k \in {"cur", "theft"} => ~Has(k, x, t0)'
        <4>1. k \in {"cur", "theft"} => ~Has(k, x, t0)  BY <3>1
        <4>2. cur' = cur /\ theft' = theft  BY <2>1
        <4> QED  BY <4>1, <4>2 DEF Has
      <3>4. k = "sched" => ~Has(k, x, t0)'
        <4>1. k = "sched" /\ x # a => ~Has(k, x, t0)  BY <3>1
        <4>2. x \in Actors \ {a} => sched'[x].task = sched[x].task  BY <2>3, Zenon
        <4>3. sched'[a].task # t0  BY <1>0, <2>2, <2>3, Zenon
        <4> QED  BY <4>1, <4>2, <4>3 DEF Has
      <3> QED  BY <3>2, <3>3, <3>4 DEF Kinds
    <2>10. task'[t0] \in Phases("queue", q)'
      <3>1. task[t0] \in Phases("sched", a)  BY <1>0, <2>2, <2>4, Zenon DEF Places
      <3> QED  BY <2>1, <3>1 DEF Phases
    <2>11. \A u \in Tasks \ {t0} : task'[u] = task[u]  BY <2>1, Zenon
    <2>12. \A c \in Cpus : cur'[c] \in Tasks \ {t0} => (pc'[c] = "uncount" <=> pc[c] = "uncount")
      BY <1>0, <2>3, Zenon
    <2>13. q \in Spots  BY <1>0, <2>2, Zenon
    <2> QED  BY <2>2, <2>4, <2>7, <2>8, <2>9, <2>10, <2>11, <2>12, <2>13, PlacesMove
  \* The head of a queue goes to a worker that polls it, or to one that stole it.
  <1>Head. ASSUME NEW c \in Cpus, NEW q \in Queues, NEW l \in {"cur", "theft"}, queue[q] # <<>>,
                  queue' = [queue EXCEPT ![q] = Tail(queue[q])], UNCHANGED <<sched, task>>,
                  \A d \in Cpus \ {c} : cur'[d] = cur[d] /\ theft'[d] = theft[d],
                  \A b \in Actors \ {c} : pc'[b] = pc[b], pc[c] # "uncount",
                  cur[c] = None, theft[c].task = None,
                  IF l = "cur" THEN cur'[c] = Head(queue[q]) /\ theft'[c] = theft[c] /\ pc'[c] = "uncount"
                               ELSE cur'[c] = cur[c] /\ theft'[c].task = Head(queue[q]) /\ pc'[c] # "uncount"
           PROVE  Places'
    <2> USE <1>Head
    <2>0. Head(queue[q]) \in Tasks
      <3>1. queue[q] \in Seq(Tasks)  BY <1>0, Zenon
      <3> QED  BY <3>1
    <2>0a. PICK t0 \in Tasks : t0 = Head(queue[q])  BY <2>0
    <2>1. /\ t0 \in Tasks /\ InQueue(q, t0)
          /\ \A r \in Queues, t \in Tasks : InQueue(r, t)' <=> InQueue(r, t) /\ ~ (r = q /\ t = t0)
          /\ \A r \in Queues : NoDup(r)'
      <3>1. \A r \in Queues : NoDup(r)  BY Zenon DEF Places
      <3> QED  BY <1>0, <2>0a, <3>1, Dequeued, Zenon
    <2>2. /\ l = "cur" => cur'[c] = t0 /\ theft'[c] = theft[c] /\ pc'[c] = "uncount"
          /\ l = "theft" => cur'[c] = cur[c] /\ theft'[c].task = t0 /\ pc'[c] # "uncount"
      BY <2>0a, Zenon
    <2>3. Has("queue", q, t0) /\ "queue" \in Kinds /\ l \in Kinds  BY <2>1 DEF Has, Kinds
    <2>4. ASSUME NEW u \in Tasks \ {t0}, NEW k \in Kinds, NEW x \in Spots
          PROVE  Has(k, x, u)' <=> Has(k, x, u)
      <3>1. x \in Queues => (InQueue(x, u)' <=> InQueue(x, u))  BY <2>1, Zenon
      <3>2. x \in Cpus => (cur'[x] = u <=> cur[x] = u)  BY <1>0, <2>2, Zenon
      <3>3. x \in Cpus => (theft'[x].task = u <=> theft[x].task = u)  BY <1>0, <2>2, Zenon
      <3>4. sched' = sched  OBVIOUS
      <3> QED  BY <3>1, <3>2, <3>3, <3>4 DEF Has
    <2>5. ASSUME NEW k \in Kinds, NEW x \in Spots
          PROVE  Has(k, x, t0)' <=> k = l /\ x = c
      <3>1. Has(k, x, t0) => k = "queue" /\ x = q  BY <1>0, <2>1, <2>3, <1>One
      <3>2. k = "queue" => ~Has(k, x, t0)'
        <4>1. k = "queue" /\ x \in Queues \ {q} => ~InQueue(x, t0)  BY <3>1 DEF Has
        <4> QED  BY <2>1, <4>1 DEF Has
      <3>3. k = "sched" => ~Has(k, x, t0)'
        <4>1. k = "sched" => ~Has(k, x, t0)  BY <3>1
        <4>2. sched' = sched  OBVIOUS
        <4> QED  BY <4>1, <4>2 DEF Has
      <3>4. k = "cur" => (Has(k, x, t0)' <=> k = l /\ x = c)
        <4>1. k = "cur" => ~Has(k, x, t0)  BY <3>1
        <4>2. k = "cur" /\ x \in Cpus => cur[x] # t0  BY <4>1 DEF Has
        <4>3. k = "cur" /\ x \in Cpus \ {c} => cur'[x] # t0  BY <4>2, Zenon
        <4>4. k = "cur" => (cur'[c] = t0 <=> l = "cur")  BY <1>0, <2>1, <2>2, Zenon
        <4> QED  BY <4>3, <4>4 DEF Has
      <3>5. k = "theft" => (Has(k, x, t0)' <=> k = l /\ x = c)
        <4>1. k = "theft" => ~Has(k, x, t0)  BY <3>1
        <4>2. k = "theft" /\ x \in Cpus => theft[x].task # t0  BY <4>1 DEF Has
        <4>3. k = "theft" /\ x \in Cpus \ {c} => theft'[x].task # t0  BY <4>2, Zenon
        <4>4. k = "theft" => (theft'[c].task = t0 <=> l = "theft")  BY <1>0, <2>1, <2>2, Zenon
        <4> QED  BY <4>3, <4>4 DEF Has
      <3> QED  BY <3>2, <3>3, <3>4, <3>5 DEF Kinds
    <2>6. task'[t0] \in Phases(l, c)'
      <3>1. task[t0] \in Phases("queue", q)  BY <1>0, <2>1, <2>3, Zenon DEF Places
      <3> QED  BY <2>2, <3>1 DEF Phases
    <2>7. \A d \in Cpus : cur'[d] \in Tasks \ {t0} => (pc'[d] = "uncount" <=> pc[d] = "uncount")
      BY <1>0, <2>2, Zenon
    <2>8. \A u \in Tasks \ {t0} : task'[u] = task[u]  BY Zenon
    <2>9. c \in Spots  BY <1>0, Zenon
    <2> QED  BY <2>1, <2>3, <2>4, <2>5, <2>6, <2>7, <2>8, <2>9, PlacesMove
  <1>Tick. ASSUME NEW c \in Cpus, Tick(c), TickTakes(c)  PROVE Places'
    <2>0. c \in Cpus /\ c \in Actors /\ c \in Queues  BY <1>Tick, <1>0, Numbers, Zenon
    <2> USE <2>0
    <2>1. /\ pc[c] = "tick" /\ pc' = [pc EXCEPT ![c] = "uncount"] /\ UNCHANGED <<sched, task, theft>>
          /\ queue[c] # <<>> /\ queue' = [queue EXCEPT ![c] = Tail(queue[c])]
          /\ cur' = [cur EXCEPT ![c] = Head(queue[c])]
      BY <1>Tick, Zenon DEF Tick, TickTakes
    <2>2. cur[c] = None /\ theft[c].task = None
      <3>1. Locals(c) /\ At(c) = "tick"  BY <2>1, SelfFacts DEF At
      <3> QED  BY <3>1 DEF Locals, Hand
    <2>3. /\ pc'[c] = "uncount" /\ cur'[c] = Head(queue[c])
          /\ \A d \in Cpus \ {c} : cur'[d] = cur[d] /\ theft'[d] = theft[d]
          /\ \A b \in Actors \ {c} : pc'[b] = pc[b]
      BY <1>0, <2>1, Zenon
    <2>4. "cur" \in {"cur", "theft"} /\ theft'[c] = theft[c] /\ pc[c] # "uncount"  BY <2>1
    <2> QED  BY <2>1, <2>2, <2>3, <2>4, <1>Head, Zenon
  <1>Steal. ASSUME NEW c \in Cpus, Steal(c), StealTakes(c)  PROVE Places'
    <2>0. c \in Cpus /\ c \in Actors  BY <1>Steal, <1>0, Numbers, Zenon
    <2> USE <2>0
    <2>1. /\ pc[c] = "steal" /\ UNCHANGED <<sched, task, cur>> /\ queue[theft[c].src] # <<>>
          /\ queue' = [queue EXCEPT ![theft[c].src] = Tail(queue[theft[c].src])]
      BY <1>Steal, Zenon DEF Steal, StealTakes
    <2>2. cur[c] = None /\ theft[c].task = None /\ theft[c].src \in Queues
      <3>1. Locals(c) /\ At(c) = "steal"  BY <2>1, SelfFacts DEF At
      <3>2. cur[c] = None /\ theft[c].task = None  BY <3>1 DEF Locals, Hand
      <3>3. theft[c].src # None  BY <3>1 DEF Locals, Hand, Holding
      <3> QED  BY <3>2, <3>3, SelfFacts
    <2>3. PICK q \in Queues : q = theft[c].src  BY <2>2
    <2>4. /\ pc'[c] = "take" /\ theft'[c].task = Head(queue[q]) /\ cur'[c] = cur[c]
          /\ \A d \in Cpus \ {c} : cur'[d] = cur[d] /\ theft'[d] = theft[d]
          /\ \A b \in Actors \ {c} : pc'[b] = pc[b]
      BY <1>Steal, <2>1, <2>3, ThiefMoves, Zenon DEF StealMoves, StealTakes, Thief
    <2>5. "theft" \in {"cur", "theft"} /\ "theft" # "cur" /\ pc[c] # "uncount" /\ pc'[c] # "uncount"
      BY <2>1, <2>4
    <2> QED  BY <2>1, <2>2, <2>3, <2>4, <2>5, <1>Head, Zenon
  <1>Uncount. ASSUME NEW c \in Cpus, Uncount(c)  PROVE Places'
    <2>0. c \in Cpus /\ c \in Actors /\ c \in Spots  BY <1>Uncount, <1>0, Zenon
    <2> USE <2>0
    <2>1. /\ pc[c] = "uncount" /\ pc' = [pc EXCEPT ![c] = "poll"] /\ UNCHANGED <<cur, sched, theft, queue>>
          /\ task' = [task EXCEPT ![cur[c]] = "running"]
      BY <1>Uncount, Zenon DEF Uncount, Goto
    <2>2. cur[c] \in Tasks
      <3>1. cur[c] # None  BY <2>1, SelfFacts DEF Locals, Hand, At
      <3> QED  BY <1>0, <3>1
    <2>3. PICK t0 \in Tasks : t0 = cur[c]  BY <2>2
    <2>4. /\ task'[t0] = "running" /\ \A u \in Tasks \ {t0} : task'[u] = task[u]
          /\ pc'[c] = "poll" /\ \A b \in Actors \ {c} : pc'[b] = pc[b]
      BY <1>0, <2>1, <2>3, Zenon
    <2>5. \A u, k, x : Has(k, x, u)' <=> Has(k, x, u)
      <3>1. \A u, x : InQueue(x, u)' <=> InQueue(x, u)  BY <2>1, Zenon DEF InQueue
      <3>2. cur' = cur /\ theft' = theft /\ sched' = sched  BY <2>1, Zenon
      <3> QED  BY <3>1, <3>2 DEF Has
    <2>6. Has("cur", c, t0) /\ "cur" \in Kinds  BY <2>3 DEF Has, Kinds
    <2>7. \A k \in Kinds : \A x \in Spots : Has(k, x, t0)' <=> k = "cur" /\ x = c
      BY <2>5, <2>6, <1>One
    <2>8. \A q \in Queues : NoDup(q)'  BY <2>1, Zenon DEF Places, NoDup
    <2>9. task'[t0] \in Phases("cur", c)'  BY <2>4 DEF Phases
    <2>10. \A d \in Cpus : cur'[d] \in Tasks \ {t0} => (pc'[d] = "uncount" <=> pc[d] = "uncount")
      BY <1>0, <2>1, <2>3, <2>4, Zenon
    <2>11. \A t \in Tasks \ {t0} : \A k \in Kinds : \A x \in Spots : Has(k, x, t)' <=> Has(k, x, t)
      BY <2>5, Zenon
    <2> QED  BY <2>4, <2>6, <2>7, <2>8, <2>9, <2>10, <2>11, PlacesMove
  <1>PollWake. ASSUME NEW c \in Cpus, NEW t \in Tasks, PollWake(c, t)  PROVE Places'
    <2>1. pc[c] = "poll" /\ WakeTask(c, t, "poll") /\ UNCHANGED <<cur, theft, queue>>
      BY <1>PollWake, Zenon DEF PollWake
    <2>2. c \in Actors /\ "poll" \in {"poll", "asleep", "handler"}  BY <1>0, <1>PollWake
    <2> QED  BY <1>PollWake, <2>1, <2>2, <1>Wake, Zenon
  <1>DriveWake. ASSUME NEW c \in Cpus, NEW t \in Tasks, DriveWake(c, t)  PROVE Places'
    <2>1. pc[c] = "asleep" /\ WakeTask(c, t, "asleep") /\ UNCHANGED <<cur, theft, queue>>
      BY <1>DriveWake, Zenon DEF DriveWake
    <2>2. c \in Actors /\ "asleep" \in {"poll", "asleep", "handler"}  BY <1>0, <1>DriveWake
    <2> QED  BY <1>DriveWake, <2>1, <2>2, <1>Wake, Zenon
  <1>IrqWake. ASSUME NEW i \in Irqs, NEW t \in Tasks, IrqWake(i, t)  PROVE Places'
    <2>1. pc[i] = "handler" /\ WakeTask(i, t, "handler") /\ UNCHANGED <<cur, theft, queue>>
      BY <1>IrqWake, Zenon DEF IrqWake
    <2>2. i \in Actors /\ "handler" \in {"poll", "asleep", "handler"}  BY <1>IrqWake, Numbers
    <2> QED  BY <1>IrqWake, <2>1, <2>2, <1>Wake, Zenon
  <1> HIDE DEF Places
  <1> QED
    BY <1>Quiet, <1>Enqueue, <1>Uncount, <1>PollReady, <1>PollPending, <1>Take, <1>Tick, <1>Steal,
       <1>Spawn, <1>PollWake, <1>DriveWake, <1>IrqWake, NextCases, Zenon

-----------------------------------------------------------------------------
(* The counters. *)

Entering(q) == {a \in Actors : pc[a] = "enqueue" /\ sched[a].dest = q}
Leaving(q) == {c \in Cpus : pc[c] = "uncount" /\ c = q}
Stolen(q) == {c \in Cpus : pc[c] = "take" /\ theft[c].src = q}

\* The task actor a moves into or out of queue q.
Share(a, q) ==
  IF \/ pc[a] = "enqueue" /\ sched[a].dest = q
     \/ a \in Cpus /\ pc[a] = "uncount" /\ a = q
     \/ a \in Cpus /\ pc[a] = "take" /\ theft[a].src = q
  THEN 1 ELSE 0

In(a, S) == IF a \in S THEN 1 ELSE 0

\* Two sets of actors that differ at most in a.
LEMMA OneActor ==
  ASSUME SetFacts, NEW S \in SUBSET Actors, NEW T \in SUBSET Actors, NEW a \in Actors,
         \A b \in Actors \ {a} : b \in T <=> b \in S
  PROVE  /\ Cardinality(S) \in Nat /\ Cardinality(T) \in Nat
         /\ Cardinality(T) = Cardinality(S) + In(a, T) - In(a, S)
  <1>1. Cardinality(S) \in Nat /\ Cardinality(T) \in Nat  BY Zenon DEF SetFacts
  <1>2. (a \in S <=> a \in T) => T = S  OBVIOUS
  <1>3. ASSUME a \in S, a \notin T  PROVE Cardinality(T) = Cardinality(S) - 1
    <2>1. T = S \ {a}  BY <1>3, Zenon
    <2> QED  BY <1>3, <2>1, Zenon DEF SetFacts
  <1>4. ASSUME a \notin S, a \in T  PROVE Cardinality(T) = Cardinality(S) + 1
    <2>1. T = S \cup {a}  BY <1>4, Zenon
    <2> QED  BY <1>4, <2>1, Zenon DEF SetFacts
  <1> QED  BY <1>1, <1>2, <1>3, <1>4 DEF In

\* The counters follow what one actor does.
LEMMA CountsChange ==
  ASSUME SetFacts, TypeOK, QueuedCounts, NEW a \in Actors,
         \A b \in Actors \ {a} : pc'[b] = pc[b] /\ sched'[b] = sched[b],
         \A d \in Cpus \ {a} : theft'[d] = theft[d],
         \A q \in Queues : /\ Len(queue'[q]) \in Nat
                           /\ queued'[q] = queued[q] + (Len(queue'[q]) - Len(queue[q]))
                                                     + (Share(a, q)' - Share(a, q))
  PROVE  QueuedCounts'
  <1>1. ASSUME NEW q \in Queues
        PROVE  queued'[q] = Len(queue'[q]) + Cardinality(Entering(q)') + Cardinality(Leaving(q)')
                                           + Cardinality(Stolen(q)')
    <2>1. queued[q] = Len(queue[q]) + Cardinality(Entering(q)) + Cardinality(Leaving(q))
                                    + Cardinality(Stolen(q))
      BY Zenon DEF QueuedCounts, Entering, Leaving, Stolen
    <2>2. Len(queue[q]) \in Nat
      <3>1. queue[q] \in Seq(Tasks)  BY TypeFields, Zenon
      <3> QED  BY <3>1
    <2>3. /\ Entering(q) \in SUBSET Actors /\ Entering(q)' \in SUBSET Actors
          /\ Leaving(q) \in SUBSET Actors /\ Leaving(q)' \in SUBSET Actors
          /\ Stolen(q) \in SUBSET Actors /\ Stolen(q)' \in SUBSET Actors
      BY Numbers, Zenon DEF Entering, Leaving, Stolen
    <2>4. \A b \in Actors \ {a} : /\ b \in Entering(q)' <=> b \in Entering(q)
                                  /\ b \in Leaving(q)' <=> b \in Leaving(q)
                                  /\ b \in Stolen(q)' <=> b \in Stolen(q)
      BY Zenon DEF Entering, Leaving, Stolen
    <2>5. /\ a \in Entering(q) <=> pc[a] = "enqueue" /\ sched[a].dest = q
          /\ a \in Leaving(q) <=> a \in Cpus /\ pc[a] = "uncount" /\ a = q
          /\ a \in Stolen(q) <=> a \in Cpus /\ pc[a] = "take" /\ theft[a].src = q
      BY Zenon DEF Entering, Leaving, Stolen
    <2>6. /\ a \in Entering(q)' <=> pc'[a] = "enqueue" /\ sched'[a].dest = q
          /\ a \in Leaving(q)' <=> a \in Cpus /\ pc'[a] = "uncount" /\ a = q
          /\ a \in Stolen(q)' <=> a \in Cpus /\ pc'[a] = "take" /\ theft'[a].src = q
      BY Zenon DEF Entering, Leaving, Stolen
    <2>7. Share(a, q) = In(a, Entering(q)) + In(a, Leaving(q)) + In(a, Stolen(q))
      BY <2>5 DEF Share, In
    <2>8. Share(a, q)' = In(a, Entering(q)') + In(a, Leaving(q)') + In(a, Stolen(q)')
      BY <2>6 DEF Share, In
    <2>9. \A S : In(a, S) \in {0, 1}  BY DEF In
    <2>10. /\ Cardinality(Entering(q)) \in Nat /\ Cardinality(Entering(q)') \in Nat
           /\ Cardinality(Entering(q)') = Cardinality(Entering(q)) + In(a, Entering(q)') - In(a, Entering(q))
      BY <2>3, <2>4, OneActor, Zenon
    <2>11. /\ Cardinality(Leaving(q)) \in Nat /\ Cardinality(Leaving(q)') \in Nat
           /\ Cardinality(Leaving(q)') = Cardinality(Leaving(q)) + In(a, Leaving(q)') - In(a, Leaving(q))
      BY <2>3, <2>4, OneActor, Zenon
    <2>12. /\ Cardinality(Stolen(q)) \in Nat /\ Cardinality(Stolen(q)') \in Nat
           /\ Cardinality(Stolen(q)') = Cardinality(Stolen(q)) + In(a, Stolen(q)') - In(a, Stolen(q))
      BY <2>3, <2>4, OneActor, Zenon
    <2>13. /\ Len(queue'[q]) \in Nat
           /\ queued'[q] = queued[q] + (Len(queue'[q]) - Len(queue[q]))
                + ((In(a, Entering(q)') + In(a, Leaving(q)') + In(a, Stolen(q)'))
                   - (In(a, Entering(q)) + In(a, Leaving(q)) + In(a, Stolen(q))))
      BY <2>7, <2>8, Zenon
    <2>14. PICK n, n1, e, e1, l, l1, k, k1 \in Nat :
             /\ n = Len(queue[q]) /\ n1 = Len(queue'[q])
             /\ e = Cardinality(Entering(q)) /\ e1 = Cardinality(Entering(q)')
             /\ l = Cardinality(Leaving(q)) /\ l1 = Cardinality(Leaving(q)')
             /\ k = Cardinality(Stolen(q)) /\ k1 = Cardinality(Stolen(q)')
      BY <2>2, <2>10, <2>11, <2>12, <2>13, Zenon
    <2>15. PICK ie, ie1, il, il1, ik, ik1 \in {0, 1} :
             /\ ie = In(a, Entering(q)) /\ ie1 = In(a, Entering(q)')
             /\ il = In(a, Leaving(q)) /\ il1 = In(a, Leaving(q)')
             /\ ik = In(a, Stolen(q)) /\ ik1 = In(a, Stolen(q)')
      BY <2>9, Zenon
    <2>16. /\ e1 = e + ie1 - ie /\ l1 = l + il1 - il /\ k1 = k + ik1 - ik
           /\ queued[q] = n + e + l + k
           /\ queued'[q] = queued[q] + (n1 - n) + ((ie1 + il1 + ik1) - (ie + il + ik))
      BY <2>1, <2>10, <2>11, <2>12, <2>13, <2>14, <2>15, Zenon
    <2>17. queued'[q] = n1 + e1 + l1 + k1  BY <2>16
    <2> QED  BY <2>14, <2>17, Zenon
  <1> QED  BY <1>1, Zenon DEF QueuedCounts, Entering, Leaving, Stolen

\* Actor a adds m to the counter, n tasks to the queue q0 and k to its share.
CountsMove(a, q0, m, n, k) ==
  /\ \A b \in Actors \ {a} : pc'[b] = pc[b] /\ sched'[b] = sched[b]
  /\ \A d \in Cpus \ {a} : theft'[d] = theft[d]
  /\ Len(queue'[q0]) \in Nat /\ Len(queue'[q0]) = Len(queue[q0]) + n
  /\ \A r \in Queues \ {q0} : queue'[r] = queue[r]
  /\ queued'[q0] = queued[q0] + m
  /\ \A r \in Queues \ {q0} : queued'[r] = queued[r]
  /\ Share(a, q0)' = Share(a, q0) + k
  /\ \A r \in Queues \ {q0} : Share(a, r)' = Share(a, r)

\* Every step keeps the counters exact.
LEMMA CountsStep ==
  ASSUME SetFacts, TypeOK, Own, Binding, Places, QueuedCounts, Next
  PROVE  QueuedCounts'
  <1>0. /\ sched \in [Actors -> SchedType] /\ queue \in [Queues -> Seq(Tasks)] /\ Cpus \subseteq Actors
        /\ pc \in [Actors -> CpuPC \cup IrqPC] /\ queued \in [Queues -> Nat] /\ Cpus \subseteq Queues
    BY TypeFields, Numbers, Zenon
  <1>1. \A q \in Queues : Len(queue[q]) \in Nat /\ queued[q] \in Nat
    <2>1. \A q \in Queues : queue[q] \in Seq(Tasks) /\ queued[q] \in Nat  BY <1>0, Zenon
    <2> QED  BY <2>1
  <1>NoDups. \A q \in Queues : NoDup(q)  BY Zenon DEF Places
  <1>Change. ASSUME NEW a \in Actors, NEW q0 \in Queues, NEW m \in Int, NEW n \in Int, NEW k \in Int,
                    m = n + k, CountsMove(a, q0, m, n, k)
             PROVE  QueuedCounts'
    <2>1. ASSUME NEW q \in Queues
          PROVE  /\ Len(queue'[q]) \in Nat
                 /\ queued'[q] = queued[q] + (Len(queue'[q]) - Len(queue[q])) + (Share(a, q)' - Share(a, q))
      <3>1. PICK s \in {0, 1} : s = Share(a, q)  BY Zenon DEF Share
      <3>2. CASE q = q0
        <4>1. Share(a, q)' = s + k /\ queued'[q] = queued[q] + m /\ Len(queue'[q]) = Len(queue[q]) + n
          BY <1>Change, <3>1, <3>2, Zenon DEF CountsMove
        <4>2. Len(queue'[q]) \in Nat /\ Len(queue[q]) \in Nat /\ queued[q] \in Nat /\ m = n + k
          BY <1>1, <1>Change, <3>2, Zenon DEF CountsMove
        <4>3. PICK x, y \in Nat : x = Len(queue[q]) /\ y = queued[q]  BY <4>2
        <4>4. y + m = y + ((x + n) - x) + ((s + k) - s)  BY <4>2, <1>Change
        <4> QED  BY <3>1, <4>1, <4>2, <4>3, <4>4, Zenon
      <3>3. CASE q # q0
        <4>1. Share(a, q)' = s /\ queued'[q] = queued[q] /\ queue'[q] = queue[q]
          BY <1>Change, <3>1, <3>3, Zenon DEF CountsMove
        <4> QED  BY <1>1, <3>1, <4>1
      <3> QED  BY <3>2, <3>3, Zenon
    <2> QED  BY <1>Change, <2>1, CountsChange, Zenon DEF CountsMove
  <1>Still. ASSUME NEW a \in Actors,
                   \A b \in Actors \ {a} : pc'[b] = pc[b] /\ sched'[b] = sched[b],
                   \A d \in Cpus \ {a} : theft'[d] = theft[d],
                   pc[a] \notin {"enqueue", "uncount", "take"}, pc'[a] \notin {"enqueue", "uncount", "take"},
                   queue' = queue, queued' = queued
            PROVE  QueuedCounts'
    <2>1. \A q : Share(a, q) = 0 /\ Share(a, q)' = 0  BY <1>Still DEF Share
    <2>2. \A q \in Queues : /\ Len(queue'[q]) \in Nat
                            /\ queued'[q] = queued[q] + (Len(queue'[q]) - Len(queue[q]))
                                                      + (Share(a, q)' - Share(a, q))
      BY <1>1, <1>Still, <2>1
    <2> QED  BY <1>Still, <2>2, CountsChange, Zenon
  <1>Quiet. ASSUME NEW a \in Actors, StaysQuiet(a)  PROVE QueuedCounts'
    <2>0. a \in Actors  BY <1>Quiet
    <2> USE <2>0
    <2>1. Quiet(a) /\ (~Count(a) => queued' = queued /\ pc[a] # "enqueue" /\ pc'[a] # "enqueue")
      BY <1>Quiet, QuietSteps, Zenon
    <2>2. /\ \A b \in Actors \ {a} : pc'[b] = pc[b] /\ sched'[b] = sched[b]
          /\ \A d \in Cpus \ {a} : theft'[d] = theft[d]
          /\ queue' = queue /\ sched' = sched
      BY <2>1, Zenon DEF Quiet
    <2>3. CASE ~Count(a)
      <3>1. pc[a] \notin {"enqueue", "uncount", "take"} /\ pc'[a] \notin {"enqueue", "uncount", "take"}
        BY <2>1, <2>3 DEF Quiet
      <3> QED  BY <2>1, <2>2, <2>3, <3>1, <1>Still, Zenon
    <2>4. CASE Count(a)
      <3>1. /\ pc[a] = "count" /\ pc'[a] = "enqueue"
            /\ queued' = [queued EXCEPT ![sched[a].dest] = queued[sched[a].dest] + 1]
        BY <1>0, <2>4, Zenon DEF Count, Goto
      <3>2. sched[a].dest \in Queues
        <4>1. Call(a)  BY Zenon DEF Own, Calls
        <4> QED  BY <3>1, <4>1 DEF Call
      <3>3. PICK q0 \in Queues : q0 = sched[a].dest  BY <3>2
      <3>4. queued'[q0] = queued[q0] + 1 /\ \A r \in Queues \ {q0} : queued'[r] = queued[r]
        BY <1>0, <3>1, <3>3, Zenon
      <3>5. /\ Share(a, q0) = 0 /\ Share(a, q0)' = 1
            /\ \A r \in Queues \ {q0} : Share(a, r)' = Share(a, r)
        BY <2>2, <3>1, <3>3 DEF Share
      <3>6. /\ Share(a, q0)' = Share(a, q0) + 1 /\ Len(queue'[q0]) = Len(queue[q0]) + 0
            /\ Len(queue'[q0]) \in Nat
        BY <1>1, <2>2, <3>5
      <3>7. CountsMove(a, q0, 1, 0, 1)  BY <2>2, <3>4, <3>5, <3>6, Zenon DEF CountsMove
      <3> QED  BY <3>7, <1>Change
    <2> QED  BY <2>3, <2>4
  <1>Enqueue. ASSUME NEW a \in Actors, Enqueue(a)  PROVE QueuedCounts'
    <2>0. a \in Actors  BY <1>Enqueue
    <2> USE <2>0
    <2>1. /\ pc[a] = "enqueue" /\ pc' = [pc EXCEPT ![a] = sched[a].ret] /\ theft' = theft
          /\ queue' = [queue EXCEPT ![sched[a].dest] = Append(queue[sched[a].dest], sched[a].task)]
          /\ sched' = [sched EXCEPT ![a] = NoSched] /\ queued' = queued
      BY <1>Enqueue, Zenon DEF Enqueue, Goto
    <2>2. /\ sched[a].task \in Tasks /\ sched[a].dest \in Queues
          /\ sched[a].ret \notin {"enqueue", "uncount", "take"}
      <3>1. Call(a)  BY Zenon DEF Own, Calls
      <3> QED  BY <2>1, <3>1 DEF Call
    <2>3. PICK q0 \in Queues, t0 \in Tasks : q0 = sched[a].dest /\ t0 = sched[a].task  BY <2>2
    <2>4. queue' = [queue EXCEPT ![q0] = Append(queue[q0], t0)]  BY <2>1, <2>3, Zenon
    <2>5. /\ \A r \in Queues \ {q0} : queue'[r] = queue[r]
          /\ Len(queue[q0]) \in Nat /\ Len(queue'[q0]) = Len(queue[q0]) + 1
      BY <1>0, <2>4, Appended, Zenon
    <2>6. /\ pc'[a] = sched[a].ret
          /\ \A b \in Actors \ {a} : pc'[b] = pc[b] /\ sched'[b] = sched[b]
      BY <1>0, <2>1, Zenon
    <2>7. /\ Share(a, q0) = 1 /\ \A r \in Queues \ {q0} : Share(a, r) = 0  BY <2>1, <2>3 DEF Share
    <2>8. \A r \in Queues : Share(a, r)' = 0  BY <2>2, <2>6 DEF Share
    <2>9. /\ Share(a, q0)' = Share(a, q0) + (-1) /\ Len(queue'[q0]) \in Nat
          /\ queued'[q0] = queued[q0] + 0
      BY <1>1, <2>1, <2>5, <2>7, <2>8
    <2>10. CountsMove(a, q0, 0, 1, -1)  BY <2>1, <2>5, <2>6, <2>7, <2>8, <2>9, Zenon DEF CountsMove
    <2> QED  BY <2>10, <1>Change
  <1>Uncount. ASSUME NEW c \in Cpus, Uncount(c)  PROVE QueuedCounts'
    <2>0. c \in Actors /\ c \in Queues /\ c \in Cpus  BY <1>0, <1>Uncount
    <2> USE <2>0
    <2>1. /\ pc[c] = "uncount" /\ pc' = [pc EXCEPT ![c] = "poll"] /\ UNCHANGED <<sched, theft, queue>>
          /\ queued' = [queued EXCEPT ![c] = queued[c] - 1]
      BY <1>Uncount, Zenon DEF Uncount, Goto
    <2>2. /\ pc'[c] = "poll" /\ \A b \in Actors \ {c} : pc'[b] = pc[b] /\ sched'[b] = sched[b]
          /\ queued'[c] = queued[c] - 1 /\ \A r \in Queues \ {c} : queued'[r] = queued[r]
          /\ queue' = queue /\ theft' = theft
      BY <1>0, <2>1, Zenon
    <2>3. Share(c, c) = 1 /\ \A r \in Queues \ {c} : Share(c, r) = 0  BY <2>1 DEF Share
    <2>4. \A r \in Queues : Share(c, r)' = 0  BY <2>2 DEF Share
    <2>5. /\ Share(c, c)' = Share(c, c) + (-1) /\ Len(queue'[c]) \in Nat
          /\ queued'[c] = queued[c] + (-1) /\ Len(queue'[c]) = Len(queue[c]) + 0
      BY <1>1, <2>2, <2>3, <2>4
    <2>6. CountsMove(c, c, -1, 0, -1)  BY <2>2, <2>3, <2>4, <2>5, Zenon DEF CountsMove
    <2> QED  BY <2>6, <1>Change
  \* The head of queue q0 is taken by worker c.
  <1>Head. ASSUME NEW c \in Cpus, NEW q0 \in Queues, queue[q0] # <<>>,
                  queue' = [queue EXCEPT ![q0] = Tail(queue[q0])], queued' = queued, sched' = sched,
                  \A b \in Actors \ {c} : pc'[b] = pc[b], \A d \in Cpus \ {c} : theft'[d] = theft[d],
                  pc[c] \in {"tick", "steal"},
                  \/ pc'[c] = "uncount" /\ q0 = c
                  \/ pc'[c] = "take" /\ theft'[c].src = q0
           PROVE  QueuedCounts'
    <2>0. c \in Actors  BY <1>0, <1>Head
    <2> USE <1>Head, <2>0
    <2>1. /\ \A r \in Queues \ {q0} : queue'[r] = queue[r]
          /\ Len(queue[q0]) \in Nat /\ Len(queue'[q0]) = Len(queue[q0]) - 1
      BY <1>0, <1>NoDups, Dequeued, Zenon
    <2>2. Len(queue'[q0]) \in Nat
      <3>1. queue[q0] \in Seq(Tasks)  BY <1>0, Zenon
      <3> QED  BY <2>1, <3>1
    <2>3. \A r \in Queues : Share(c, r) = 0  BY DEF Share
    <2>4. Share(c, q0)' = 1 /\ \A r \in Queues \ {q0} : Share(c, r)' = 0  BY DEF Share
    <2>5. /\ Share(c, q0)' = Share(c, q0) + 1 /\ Len(queue'[q0]) = Len(queue[q0]) + (-1)
          /\ queued'[q0] = queued[q0] + 0
      BY <1>1, <2>1, <2>3, <2>4
    <2>6. CountsMove(c, q0, 0, -1, 1)  BY <2>1, <2>2, <2>3, <2>4, <2>5, Zenon DEF CountsMove
    <2> QED  BY <2>6, <1>Change
  <1>Tick. ASSUME NEW c \in Cpus, Tick(c), TickTakes(c)  PROVE QueuedCounts'
    <2>0. c \in Cpus /\ c \in Actors /\ c \in Queues  BY <1>Tick, <1>0, Zenon
    <2>1. /\ pc[c] = "tick" /\ pc' = [pc EXCEPT ![c] = "uncount"] /\ UNCHANGED <<sched, theft, queued>>
          /\ queue[c] # <<>> /\ queue' = [queue EXCEPT ![c] = Tail(queue[c])]
      BY <1>Tick, Zenon DEF Tick, TickTakes
    <2>2. /\ pc'[c] = "uncount" /\ \A b \in Actors \ {c} : pc'[b] = pc[b]
      BY <1>0, <2>0, <2>1, Zenon
    <2> QED  BY <2>0, <2>1, <2>2, <1>Head, Zenon
  <1>Steal. ASSUME NEW c \in Cpus, Steal(c), StealTakes(c)  PROVE QueuedCounts'
    <2>0. c \in Cpus /\ c \in Actors  BY <1>Steal, <1>0, Zenon
    <2> USE <2>0
    <2>1. /\ pc[c] = "steal" /\ UNCHANGED <<sched, queued>> /\ queue[theft[c].src] # <<>>
          /\ queue' = [queue EXCEPT ![theft[c].src] = Tail(queue[theft[c].src])]
      BY <1>Steal, Zenon DEF Steal, StealTakes
    <2>2. theft[c].src \in Queues
      <3>1. Locals(c) /\ At(c) = "steal"  BY <2>1, SelfFacts DEF At
      <3>2. theft[c].src # None  BY <3>1 DEF Locals, Hand, Holding
      <3> QED  BY <3>2, SelfFacts
    <2>3. PICK q \in Queues : q = theft[c].src  BY <2>2
    <2>4. /\ pc'[c] = "take" /\ theft'[c].src = q
          /\ \A d \in Cpus \ {c} : theft'[d] = theft[d]
          /\ \A b \in Actors \ {c} : pc'[b] = pc[b]
      BY <1>Steal, <2>1, <2>3, ThiefMoves, Zenon DEF StealMoves, StealTakes, Thief
    <2> QED  BY <2>1, <2>3, <2>4, <1>Head, Zenon
  <1>Take. ASSUME NEW c \in Cpus, Take(c)  PROVE QueuedCounts'
    <2>0. c \in Cpus /\ c \in Actors  BY <1>Take, <1>0, Zenon
    <2> USE <2>0
    <2>1. /\ pc[c] = "take" /\ UNCHANGED queue /\ CallSchedule(c, theft[c].task, c, "steal")
          /\ queued' = [queued EXCEPT ![theft[c].src] = queued[theft[c].src] - 1]
      BY <1>Take, Zenon DEF Take
    <2>2. theft[c].src \in Queues
      <3>1. Locals(c) /\ At(c) = "take"  BY <2>1, SelfFacts DEF At
      <3>2. theft[c].src # None  BY <3>1 DEF Locals, Hand, Holding
      <3> QED  BY <3>2, SelfFacts
    <2>3. PICK q \in Queues : q = theft[c].src  BY <2>2
    <2>4. /\ pc'[c] = "count" /\ \A b \in Actors \ {c} : pc'[b] = pc[b] /\ sched'[b] = sched[b]
          /\ queued'[q] = queued[q] - 1 /\ \A r \in Queues \ {q} : queued'[r] = queued[r]
      BY <1>0, <2>1, <2>3, Zenon DEF CallSchedule
    <2>5. \A d \in Cpus \ {c} : theft'[d] = theft[d]
      BY <1>Take, ThiefMoves, Zenon DEF TakeMoves, Thief
    <2>6. Share(c, q) = 1 /\ \A r \in Queues \ {q} : Share(c, r) = 0  BY <2>1, <2>3 DEF Share
    <2>7. \A r \in Queues : Share(c, r)' = 0  BY <2>4 DEF Share
    <2>8. /\ Share(c, q)' = Share(c, q) + (-1) /\ Len(queue'[q]) \in Nat
          /\ queued'[q] = queued[q] + (-1) /\ Len(queue'[q]) = Len(queue[q]) + 0
      BY <1>1, <2>1, <2>4, <2>6, <2>7
    <2>9. CountsMove(c, q, -1, 0, -1)
      BY <2>1, <2>4, <2>5, <2>6, <2>7, <2>8, Zenon DEF CountsMove
    <2> QED  BY <2>9, <1>Change
  <1>Spawn. ASSUME NEW c \in Cpus, NEW t \in Tasks,
                   SpawnEarly(c, t) \/ PollSpawn(c, t) \/ DriveSpawn(c, t)
            PROVE  QueuedCounts'
    <2>0. c \in Cpus /\ c \in Actors  BY <1>Spawn, <1>0
    <2>1. /\ pc[c] \in {"new", "poll", "asleep"} /\ UNCHANGED <<theft, queue, queued>>
          /\ \E q, ret : CallSchedule(c, t, q, ret)
      BY <1>Spawn, Zenon DEF SpawnEarly, PollSpawn, DriveSpawn, Spawn
    <2>2. pc'[c] = "count" /\ \A b \in Actors \ {c} : pc'[b] = pc[b] /\ sched'[b] = sched[b]
      BY <1>0, <2>0, <2>1, Zenon DEF CallSchedule
    <2>3. pc[c] \notin {"enqueue", "uncount", "take"} /\ pc'[c] \notin {"enqueue", "uncount", "take"}
      BY <2>1, <2>2
    <2> QED  BY <2>0, <2>1, <2>2, <2>3, <1>Still, Zenon
  <1>Wake. ASSUME NEW a \in Actors, NEW t \in Tasks, NEW ret, pc[a] \in {"poll", "asleep", "handler"},
                  WakeTask(a, t, ret), UNCHANGED <<theft, queue, queued>>
           PROVE  QueuedCounts'
    <2> USE <1>Wake
    <2>1. \/ pc' = pc /\ sched' = sched
          \/ pc'[a] = "count" /\ \A b \in Actors \ {a} : pc'[b] = pc[b] /\ sched'[b] = sched[b]
      BY <1>0, Zenon DEF WakeTask, CallSchedule
    <2>2. /\ pc[a] \notin {"enqueue", "uncount", "take"} /\ pc'[a] \notin {"enqueue", "uncount", "take"}
          /\ \A b \in Actors \ {a} : pc'[b] = pc[b] /\ sched'[b] = sched[b]
      BY <2>1
    <2> QED  BY <2>2, <1>Still, Zenon
  <1>Poll. ASSUME NEW c \in Cpus, PollReady(c) \/ PollPending(c)  PROVE QueuedCounts'
    <2>0. c \in Cpus /\ c \in Actors  BY <1>Poll, <1>0
    <2>1. /\ pc[c] = "poll" /\ UNCHANGED <<theft, queue, queued>>
          /\ \/ pc' = [pc EXCEPT ![c] = "tick"] /\ sched' = sched
             \/ CallSchedule(c, cur[c], c, "tick")
      BY <1>Poll, Zenon DEF PollReady, PollPending, Goto
    <2>2. /\ pc'[c] \in {"tick", "count"} /\ \A b \in Actors \ {c} : pc'[b] = pc[b] /\ sched'[b] = sched[b]
      BY <1>0, <2>0, <2>1, Zenon DEF CallSchedule
    <2>3. pc[c] \notin {"enqueue", "uncount", "take"} /\ pc'[c] \notin {"enqueue", "uncount", "take"}
      BY <2>1, <2>2
    <2> QED  BY <2>0, <2>1, <2>2, <2>3, <1>Still, Zenon
  <1>PollWake. ASSUME NEW c \in Cpus, NEW t \in Tasks, PollWake(c, t)  PROVE QueuedCounts'
    <2>1. pc[c] = "poll" /\ WakeTask(c, t, "poll") /\ UNCHANGED <<theft, queue, queued>>
      BY <1>PollWake, Zenon DEF PollWake
    <2>2. c \in Actors /\ pc[c] \in {"poll", "asleep", "handler"}  BY <1>0, <1>PollWake, <2>1
    <2> QED  BY <1>PollWake, <2>1, <2>2, <1>Wake, Zenon
  <1>DriveWake. ASSUME NEW c \in Cpus, NEW t \in Tasks, DriveWake(c, t)  PROVE QueuedCounts'
    <2>1. pc[c] = "asleep" /\ WakeTask(c, t, "asleep") /\ UNCHANGED <<theft, queue, queued>>
      BY <1>DriveWake, Zenon DEF DriveWake
    <2>2. c \in Actors /\ pc[c] \in {"poll", "asleep", "handler"}  BY <1>0, <1>DriveWake, <2>1
    <2> QED  BY <1>DriveWake, <2>1, <2>2, <1>Wake, Zenon
  <1>IrqWake. ASSUME NEW i \in Irqs, NEW t \in Tasks, IrqWake(i, t)  PROVE QueuedCounts'
    <2>1. pc[i] = "handler" /\ WakeTask(i, t, "handler") /\ UNCHANGED <<theft, queue, queued>>
      BY <1>IrqWake, Zenon DEF IrqWake
    <2>2. i \in Actors /\ pc[i] \in {"poll", "asleep", "handler"}  BY <1>IrqWake, <2>1, Numbers
    <2> QED  BY <1>IrqWake, <2>1, <2>2, <1>Wake, Zenon
  <1> HIDE DEF QueuedCounts
  <1> QED
    BY <1>Quiet, <1>Enqueue, <1>Uncount, <1>Poll, <1>Take, <1>Tick, <1>Steal, <1>Spawn, <1>PollWake, <1>DriveWake,
       <1>IrqWake, NextCases, Zenon

-----------------------------------------------------------------------------
(* Binding. *)

QueueBound == \A c \in Cpus : \A t \in Tasks : InQueue(c, t) => bound[t] = c
ActiveBound == \A t \in Tasks : task[t] \in {"running", "rewoken", "idle"} => bound[t] # None
CurBound == \A c \in Cpus : \A t \in Tasks : cur[c] = t => bound[t] = c
BoundOnline == \A t \in Tasks : bound[t] # None => bound[t] \in online
CallBound == \A a \in Actors : \A t \in Tasks :
               sched[a].task = t /\ sched[a].dest \in Cpus => bound[t] = sched[a].dest

\* A task that is nowhere, or in the hands of a thief, is bound to worker d by actor a.
Rebinds(a, t0, d) ==
  /\ d \in online /\ online' = online /\ queue' = queue /\ cur' = cur
  /\ bound' = [bound EXCEPT ![t0] = d]
  /\ \A c \in Cpus : ~InQueue(c, t0) /\ cur[c] # t0
  /\ \A b \in Actors \ {a} : sched[b].task # t0 /\ sched'[b] = sched[b]
  /\ sched'[a].task = t0 /\ sched'[a].dest = d
  /\ \A u \in Tasks \ {t0} : task'[u] = task[u]

\* Every step leaves the tasks bound to where they go.
LEMMA BindingStep ==
  ASSUME SetFacts, TypeOK, Own, Binding, Places, Next, TypeOK', Calls'
  PROVE  Binding'
  <1>0. /\ cur \in [Cpus -> Tasks \cup {None}] /\ sched \in [Actors -> SchedType]
        /\ queue \in [Queues -> Seq(Tasks)] /\ None \notin Tasks /\ None \notin Cpus
        /\ task \in [Tasks -> {"unspawned", "queued", "running", "rewoken", "idle", "done"}]
        /\ pc \in [Actors -> CpuPC \cup IrqPC] /\ bound \in [Tasks -> Cpus \cup {None}]
        /\ Cpus \subseteq Spots /\ Queues \subseteq Spots /\ Actors \subseteq Spots
        /\ Cpus \subseteq Actors /\ Cpus \subseteq Queues
    BY TypeFields, Numbers, Zenon DEF Spots
  <1>Parts. QueueBound /\ ActiveBound /\ CurBound /\ BoundOnline /\ CallBound
    <2>1. QueueBound
      <3>1. ASSUME NEW c \in Cpus, NEW t \in Tasks, InQueue(c, t)  PROVE bound[t] = c
        <4>1. queue[c] \in Seq(Tasks)  BY <1>0, Zenon
        <4>2. DOMAIN queue[c] = 1 .. Len(queue[c])  BY <4>1
        <4> QED  BY <3>1, <4>2 DEF InQueue, Binding, BoundWhereQueued
      <3> QED  BY <3>1, Zenon DEF QueueBound
    <2>2. CurBound  BY <1>0, Zenon DEF CurBound, Binding, BoundWhereQueued
    <2> QED  BY <2>1, <2>2, Zenon DEF ActiveBound, BoundOnline, CallBound, Binding, BoundWhereQueued
  <1>Join. ASSUME QueueBound', ActiveBound', CurBound', BoundOnline', CallBound'
           PROVE  Binding'
    <2>0. /\ queue' \in [Queues -> Seq(Tasks)] /\ cur' \in [Cpus -> Tasks \cup {None}]
      BY Zenon DEF TypeOK
    <2>1. ASSUME NEW c \in Cpus, NEW k \in 1 .. Len(queue'[c])  PROVE bound'[queue'[c][k]] = c
      <3>1. queue'[c] \in Seq(Tasks)  BY <1>0, <2>0, Zenon
      <3>2. k \in DOMAIN queue'[c] /\ queue'[c][k] \in Tasks  BY <3>1
      <3>3. PICK t0 \in Tasks : t0 = queue'[c][k]  BY <3>2
      <3>4. InQueue(c, t0)'  BY <3>2, <3>3, Zenon DEF InQueue
      <3> QED  BY <1>Join, <3>3, <3>4, Zenon DEF QueueBound
    <2>2. ASSUME NEW c \in Cpus, cur'[c] # None  PROVE bound'[cur'[c]] = c
      BY <1>Join, <2>0, <2>2, Zenon DEF CurBound
    <2>3. ASSUME NEW a \in Actors, sched'[a].dest \in Cpus
          PROVE  bound'[sched'[a].task] = sched'[a].dest
      <3>1. Call(a)'  BY Zenon DEF Calls
      <3>2. sched'[a].task \in Tasks
        <4>1. NoSched.dest = None  BY DEF NoSched
        <4>2. sched'[a] # NoSched  BY <1>0, <2>3, <4>1, Zenon
        <4> QED  BY <3>1, <4>2, Zenon DEF Call
      <3> QED  BY <1>Join, <2>3, <3>2, Zenon DEF CallBound
    <2> QED  BY <1>Join, <2>1, <2>2, <2>3, Zenon DEF Binding, BoundWhereQueued, ActiveBound, BoundOnline
  <1>One. ASSUME NEW t \in Tasks, NEW k \in Kinds, NEW l \in Kinds, NEW x \in Spots, NEW y \in Spots,
                 Has(k, x, t), Has(l, y, t)
          PROVE  k = l /\ x = y
    BY <1>One, Zenon DEF Places
  <1>Calls. ASSUME NEW a \in Actors, \A b \in Actors \ {a} : sched'[b] = sched[b],
                   \A b \in Actors \ {a} : \A t \in Tasks : sched[b].task = t => bound'[t] = bound[t],
                   \A t \in Tasks : sched'[a].task = t /\ sched'[a].dest \in Cpus =>
                                     bound'[t] = sched'[a].dest
            PROVE  CallBound'
    <2>1. ASSUME NEW b \in Actors, NEW t \in Tasks, sched'[b].task = t, sched'[b].dest \in Cpus
          PROVE  bound'[t] = sched'[b].dest
      <3>1. CASE b = a  BY <1>Calls, <2>1, <3>1, Zenon
      <3>2. CASE b # a
        <4>1. sched'[b] = sched[b]  BY <1>Calls, <3>2, Zenon
        <4>2. sched[b].task = t /\ sched[b].dest \in Cpus  BY <2>1, <4>1, Zenon
        <4>3. bound[t] = sched[b].dest  BY <1>Parts, <4>2, Zenon DEF CallBound
        <4>4. bound'[t] = bound[t]  BY <1>Calls, <3>2, <4>2, Zenon
        <4> QED  BY <4>1, <4>3, <4>4, Zenon
      <3> QED  BY <3>1, <3>2
    <2> QED  BY <2>1, Zenon DEF CallBound
  <1>Quiet. ASSUME NEW a \in Actors, StaysQuiet(a)  PROVE Binding'
    <2>1. UNCHANGED <<cur, sched, queue, task, bound>> /\ online \subseteq online'
      BY <1>Quiet, QuietSteps, Zenon DEF Quiet
    <2>2. QueueBound'
      <3>1. \A c, t : InQueue(c, t)' <=> InQueue(c, t)  BY <2>1, Zenon DEF InQueue
      <3> QED  BY <1>Parts, <2>1, <3>1, Zenon DEF QueueBound
    <2>3. ActiveBound' /\ CurBound' /\ CallBound'
      BY <1>Parts, <2>1, Zenon DEF ActiveBound, CurBound, CallBound
    <2>4. BoundOnline'  BY <1>Parts, <2>1, Zenon DEF BoundOnline
    <2> QED  BY <2>2, <2>3, <2>4, <1>Join, Zenon
  <1>Enqueue. ASSUME NEW a \in Actors, Enqueue(a)  PROVE Binding'
    <2>0. a \in Actors  BY <1>Enqueue
    <2> USE <2>0
    <2>1. /\ pc[a] = "enqueue" /\ UNCHANGED <<cur, task, bound, online>>
          /\ queue' = [queue EXCEPT ![sched[a].dest] = Append(queue[sched[a].dest], sched[a].task)]
          /\ sched' = [sched EXCEPT ![a] = NoSched]
      BY <1>Enqueue, Zenon DEF Enqueue, Goto
    <2>2. sched[a].task \in Tasks /\ sched[a].dest \in Queues
      <3>1. Call(a)  BY Zenon DEF Own, Calls
      <3> QED  BY <2>1, <3>1 DEF Call
    <2>3. PICK q0 \in Queues, t0 \in Tasks : q0 = sched[a].dest /\ t0 = sched[a].task  BY <2>2
    <2>4. queue' = [queue EXCEPT ![q0] = Append(queue[q0], t0)]  BY <2>1, <2>3, Zenon
    <2>5. \A r \in Queues, t \in Tasks : InQueue(r, t)' <=> InQueue(r, t) \/ (r = q0 /\ t = t0)
      BY <1>0, <2>4, Appended, Zenon
    <2>6. q0 \in Cpus => bound[t0] = q0  BY <1>Parts, <2>3, Zenon DEF CallBound
    <2>7. QueueBound'  BY <1>0, <1>Parts, <2>1, <2>5, <2>6, Zenon DEF QueueBound
    <2>8. CallBound'
      <3>1. sched'[a] = NoSched /\ \A b \in Actors \ {a} : sched'[b] = sched[b]  BY <1>0, <2>1, Zenon
      <3>2. NoSched.dest \notin Cpus  BY <1>0 DEF NoSched
      <3> QED  BY <1>Parts, <2>1, <3>1, <3>2, Zenon DEF CallBound
    <2>9. ActiveBound' /\ CurBound' /\ BoundOnline'
      BY <1>Parts, <2>1, Zenon DEF ActiveBound, CurBound, BoundOnline
    <2> QED  BY <2>7, <2>8, <2>9, <1>Join, Zenon
  <1>Uncount. ASSUME NEW c \in Cpus, Uncount(c)  PROVE Binding'
    <2>0. c \in Cpus  BY <1>Uncount
    <2>1. /\ pc[c] = "uncount" /\ UNCHANGED <<cur, sched, queue, bound, online>>
          /\ task' = [task EXCEPT ![cur[c]] = "running"]
      BY <1>Uncount, Zenon DEF Uncount, Goto
    <2>2. cur[c] \in Tasks
      <3>1. cur[c] # None  BY <2>0, <2>1, SelfFacts DEF Locals, Hand, At
      <3> QED  BY <1>0, <2>0, <3>1
    <2>3. PICK t0 \in Tasks : t0 = cur[c]  BY <2>2
    <2>4. \A u \in Tasks \ {t0} : task'[u] = task[u]  BY <1>0, <2>1, <2>3, Zenon
    <2>5. bound[t0] = c /\ c # None  BY <1>0, <1>Parts, <2>0, <2>3, Zenon DEF CurBound
    <2>6. ActiveBound'  BY <1>Parts, <2>1, <2>4, <2>5, Zenon DEF ActiveBound
    <2>7. QueueBound'
      <3>1. \A d, t : InQueue(d, t)' <=> InQueue(d, t)  BY <2>1, Zenon DEF InQueue
      <3> QED  BY <1>Parts, <2>1, <3>1, Zenon DEF QueueBound
    <2>8. CurBound' /\ BoundOnline' /\ CallBound'
      BY <1>Parts, <2>1, Zenon DEF CurBound, BoundOnline, CallBound
    <2> QED  BY <2>6, <2>7, <2>8, <1>Join, Zenon
  <1>Poll. ASSUME NEW c \in Cpus, PollReady(c) \/ PollPending(c)  PROVE Binding'
    <2>0. c \in Cpus /\ c \in Actors /\ c \in Queues /\ c # None  BY <1>Poll, <1>0, Zenon
    <2> USE <2>0
    <2>1. /\ pc[c] = "poll" /\ UNCHANGED <<queue, bound, online>> /\ cur' = [cur EXCEPT ![c] = None]
          /\ \E p : task' = [task EXCEPT ![cur[c]] = p]
          /\ sched' = sched \/ CallSchedule(c, cur[c], c, "tick")
      BY <1>Poll, Zenon DEF PollReady, PollPending, Goto
    <2>2. cur[c] \in Tasks
      <3>1. cur[c] # None  BY <2>1, SelfFacts DEF Locals, Hand, At
      <3> QED  BY <1>0, <3>1
    <2>3. PICK t0 \in Tasks : t0 = cur[c]  BY <2>2
    <2>4. \A u \in Tasks \ {t0} : task'[u] = task[u]  BY <1>0, <2>1, <2>3, Zenon
    <2>5. bound[t0] = c  BY <1>0, <1>Parts, <2>3, Zenon DEF CurBound
    <2>6. ActiveBound'  BY <1>Parts, <2>1, <2>4, <2>5, Zenon DEF ActiveBound
    <2>7. QueueBound'
      <3>1. \A d, t : InQueue(d, t)' <=> InQueue(d, t)  BY <2>1, Zenon DEF InQueue
      <3> QED  BY <1>Parts, <2>1, <3>1, Zenon DEF QueueBound
    <2>8. CurBound'
      <3>1. cur'[c] = None /\ \A d \in Cpus \ {c} : cur'[d] = cur[d]  BY <1>0, <2>1, Zenon
      <3> QED  BY <1>0, <1>Parts, <2>1, <3>1, Zenon DEF CurBound
    <2>9. BoundOnline'  BY <1>Parts, <2>1, Zenon DEF BoundOnline
    <2>10. CallBound'
      <3>1. CASE sched' = sched  BY <1>Parts, <2>1, <3>1, Zenon DEF CallBound
      <3>2. CASE CallSchedule(c, cur[c], c, "tick")
        <4>1. "tick" \in CpuPC \cup IrqPC  BY DEF CpuPC
        <4>2. /\ sched'[c].task = t0 /\ sched'[c].dest = c
              /\ \A b \in Actors \ {c} : sched'[b] = sched[b]
          <5>1. CallSchedule(c, t0, c, "tick")  BY <2>3, <3>2, Zenon
          <5> QED  BY <4>1, <5>1, CallDoes
        <4> QED  BY <2>1, <2>5, <4>2, <1>Calls, Zenon
      <3> QED  BY <2>1, <3>1, <3>2, Zenon
    <2> QED  BY <2>6, <2>7, <2>8, <2>9, <2>10, <1>Join, Zenon
  \* The head of a queue is taken.
  <1>Head. ASSUME NEW q0 \in Queues, queue[q0] # <<>>, UNCHANGED <<sched, task, bound, online>>,
                  queue' = [queue EXCEPT ![q0] = Tail(queue[q0])],
                  \A c \in Cpus : cur'[c] = cur[c] \/ (c = q0 /\ cur'[c] = Head(queue[q0]))
           PROVE  Binding'
    <2> USE <1>Head
    <2>1. /\ Head(queue[q0]) \in Tasks /\ InQueue(q0, Head(queue[q0]))
          /\ \A r \in Queues, t \in Tasks :
               InQueue(r, t)' <=> InQueue(r, t) /\ ~ (r = q0 /\ t = Head(queue[q0]))
      <3>1. \A r \in Queues : NoDup(r)  BY Zenon DEF Places
      <3> QED  BY <1>0, <3>1, Dequeued, Zenon
    <2>2. QueueBound'  BY <1>0, <1>Parts, <2>1, Zenon DEF QueueBound
    <2>3. CurBound'
      <3>1. q0 \in Cpus => bound[Head(queue[q0])] = q0  BY <1>Parts, <2>1, Zenon DEF QueueBound
      <3> QED  BY <1>Parts, <3>1, Zenon DEF CurBound
    <2>4. ActiveBound' /\ BoundOnline' /\ CallBound'
      BY <1>Parts, Zenon DEF ActiveBound, BoundOnline, CallBound
    <2> QED  BY <2>2, <2>3, <2>4, <1>Join, Zenon
  <1>Tick. ASSUME NEW c \in Cpus, Tick(c), TickTakes(c)  PROVE Binding'
    <2>0. c \in Cpus /\ c \in Actors /\ c \in Queues  BY <1>Tick, <1>0, Zenon
    <2>1. /\ UNCHANGED <<sched, task, bound, online>> /\ cur' = [cur EXCEPT ![c] = Head(queue[c])]
          /\ queue[c] # <<>> /\ queue' = [queue EXCEPT ![c] = Tail(queue[c])]
      BY <1>Tick, Zenon DEF Tick, TickTakes
    <2>2. \A d \in Cpus : cur'[d] = cur[d] \/ (d = c /\ cur'[d] = Head(queue[c]))
      BY <1>0, <2>0, <2>1, Zenon
    <2> QED  BY <2>0, <2>1, <2>2, <1>Head, Zenon
  <1>Steal. ASSUME NEW c \in Cpus, Steal(c), StealTakes(c)  PROVE Binding'
    <2>0. c \in Cpus /\ c \in Actors  BY <1>Steal, <1>0, Zenon
    <2>1. /\ pc[c] = "steal" /\ UNCHANGED <<sched, task, bound, online, cur>> /\ queue[theft[c].src] # <<>>
          /\ queue' = [queue EXCEPT ![theft[c].src] = Tail(queue[theft[c].src])]
      BY <1>Steal, Zenon DEF Steal, StealTakes
    <2>2. theft[c].src \in Queues
      <3>1. Locals(c) /\ At(c) = "steal"  BY <2>0, <2>1, SelfFacts DEF At
      <3>2. theft[c].src # None  BY <3>1 DEF Locals, Hand, Holding
      <3> QED  BY <2>0, <3>2, SelfFacts
    <2>3. PICK q \in Queues : q = theft[c].src  BY <2>2
    <2> QED  BY <2>1, <2>3, <1>Head, Zenon
  \* A task that is nowhere else is given a scheduler and goes there.
  <1>Bind. ASSUME NEW a \in Actors, NEW t0 \in Tasks, NEW d \in Cpus, Rebinds(a, t0, d)
           PROVE  Binding'
    <2> USE <1>Bind DEF Rebinds
    <2>1. bound'[t0] = d /\ d # None /\ \A u \in Tasks \ {t0} : bound'[u] = bound[u]  BY <1>0, Zenon
    <2>2. QueueBound'
      <3>1. \A c, t : InQueue(c, t)' <=> InQueue(c, t)  BY Zenon DEF InQueue
      <3> QED  BY <1>Parts, <2>1, <3>1, Zenon DEF QueueBound
    <2>3. CurBound'  BY <1>Parts, <2>1, Zenon DEF CurBound
    <2>4. ActiveBound'  BY <1>Parts, <2>1, Zenon DEF ActiveBound
    <2>5. BoundOnline'
      <3>0. bound'[t0] \in online'
        <4>1. d \in online /\ online' = online  OBVIOUS
        <4> QED  BY <2>1, <4>1
      <3>1. ASSUME NEW u \in Tasks, bound'[u] # None  PROVE bound'[u] \in online'
        <4>1. CASE u = t0  BY <3>0, <4>1
        <4>2. CASE u # t0
          <5>1. bound'[u] = bound[u] /\ online' = online  BY <2>1, <4>2, Zenon
          <5> QED  BY <1>Parts, <3>1, <5>1, Zenon DEF BoundOnline
        <4> QED  BY <4>1, <4>2
      <3> QED  BY <3>1, Zenon DEF BoundOnline
    <2>6. CallBound'
      <3>1. \A b \in Actors \ {a} : \A t \in Tasks : sched[b].task = t => bound'[t] = bound[t]
        BY <2>1, Zenon
      <3>2. \A t \in Tasks : sched'[a].task = t /\ sched'[a].dest \in Cpus => bound'[t] = sched'[a].dest
        BY <2>1, Zenon
      <3>3. \A b \in Actors \ {a} : sched'[b] = sched[b]  BY Zenon
      <3> QED  BY <3>1, <3>2, <3>3, <1>Calls, Zenon
    <2> QED  BY <2>2, <2>3, <2>4, <2>5, <2>6, <1>Join, Zenon
  <1>Take. ASSUME NEW c \in Cpus, Take(c)  PROVE Binding'
    <2>0. c \in Cpus /\ c \in Actors /\ c \in Spots /\ c \in Queues  BY <1>Take, <1>0, Zenon
    <2> USE <2>0
    <2>1. /\ pc[c] = "take" /\ UNCHANGED <<cur, queue, task, online>>
          /\ bound' = [bound EXCEPT ![theft[c].task] = c]
          /\ CallSchedule(c, theft[c].task, c, "steal")
      BY <1>Take, Zenon DEF Take
    <2>2. theft[c].task \in Tasks /\ c \in online
      <3>1. Locals(c) /\ At(c) = "take"  BY <2>1, SelfFacts DEF At
      <3>2. theft[c].task # None /\ c \in online  BY <3>1 DEF Locals, Hand, Starting
      <3>3. theft[c].task \in Tasks \cup {None}  BY FieldTypes, Zenon
      <3> QED  BY <3>2, <3>3
    <2>3. PICK t0 \in Tasks : t0 = theft[c].task  BY <2>2
    <2>4. /\ sched'[c].task = t0 /\ sched'[c].dest = c
          /\ \A b \in Actors \ {c} : sched'[b] = sched[b]
      <3>1. "steal" \in CpuPC \cup IrqPC  BY DEF CpuPC
      <3> QED  BY <2>1, <2>3, <3>1, CallDoes, Zenon
    <2>5. \A k \in Kinds : \A x \in Spots : Has(k, x, t0) => k = "theft"
      <3>1. Has("theft", c, t0) /\ "theft" \in Kinds  BY <2>3 DEF Has, Kinds
      <3> QED  BY <3>1, <1>One
    <2>6. \A d \in Cpus : ~InQueue(d, t0) /\ cur[d] # t0
      <3>1. \A d \in Cpus : ~Has("queue", d, t0) /\ ~Has("cur", d, t0)  BY <1>0, <2>5 DEF Kinds
      <3> QED  BY <1>0, <3>1 DEF Has
    <2>7. \A b \in Actors : sched[b].task # t0
      <3>1. \A b \in Actors : ~Has("sched", b, t0)  BY <1>0, <2>5 DEF Kinds
      <3> QED  BY <3>1 DEF Has
    <2>8. Rebinds(c, t0, c)  BY <2>1, <2>2, <2>3, <2>4, <2>6, <2>7, Zenon DEF Rebinds
    <2> QED  BY <2>8, <1>Bind, Zenon
  <1>Spawn. ASSUME NEW c \in Cpus, NEW t \in Tasks,
                   SpawnEarly(c, t) \/ PollSpawn(c, t) \/ DriveSpawn(c, t)
            PROVE  Binding'
    <2>0. c \in Cpus /\ c \in Actors /\ t \in Tasks  BY <1>Spawn, <1>0
    <2> USE <2>0
    <2>1. /\ pc[c] \in {"new", "poll", "asleep"} /\ task[t] = "unspawned"
          /\ task' = [task EXCEPT ![t] = "queued"] /\ UNCHANGED <<cur, queue, online>>
          /\ bound' = IF c \in online THEN [bound EXCEPT ![t] = c] ELSE bound
          /\ CallSchedule(c, t, IF c \in online THEN c ELSE Injector, pc[c])
      BY <1>Spawn, Zenon DEF SpawnEarly, PollSpawn, DriveSpawn, Spawn
    <2>2. /\ (IF c \in online THEN c ELSE Injector) \in Queues /\ pc[c] \in CpuPC \cup IrqPC
      BY <1>0, Numbers, Zenon
    <2>3. /\ sched'[c].task = t /\ sched'[c].dest = IF c \in online THEN c ELSE Injector
          /\ \A b \in Actors \ {c} : sched'[b] = sched[b]
      BY <2>1, <2>2, CallDoes, Zenon
    <2>4. \A k \in Kinds : \A x \in Spots : ~Has(k, x, t)
      <3>1. \A k, x : "unspawned" \notin Phases(k, x)  BY DEF Phases
      <3>2. ASSUME NEW k \in Kinds, NEW x \in Spots, Has(k, x, t)  PROVE FALSE
        <4>1. task[t] \in Phases(k, x)  BY <3>2, Zenon DEF Places
        <4> QED  BY <2>1, <3>1, <4>1
      <3> QED  BY <3>2, Zenon
    <2>5. \A d \in Cpus : ~InQueue(d, t) /\ cur[d] # t
      <3>1. \A d \in Cpus : ~Has("queue", d, t) /\ ~Has("cur", d, t)  BY <1>0, <2>4 DEF Kinds
      <3> QED  BY <1>0, <3>1 DEF Has
    <2>6. \A b \in Actors : sched[b].task # t
      <3>1. \A b \in Actors : ~Has("sched", b, t)  BY <1>0, <2>4 DEF Kinds
      <3> QED  BY <3>1 DEF Has
    <2>7. task'[t] = "queued" /\ \A u \in Tasks \ {t} : task'[u] = task[u]  BY <1>0, <2>1, Zenon
    <2>8. CASE c \in online
      <3>1. bound' = [bound EXCEPT ![t] = c] /\ sched'[c].dest = c  BY <2>1, <2>3, <2>8, Zenon
      <3>2. Rebinds(c, t, c)  BY <2>1, <2>3, <2>5, <2>6, <2>7, <2>8, <3>1, Zenon DEF Rebinds
      <3> QED  BY <3>2, <1>Bind, Zenon
    <2>9. CASE c \notin online
      <3>1. bound' = bound /\ sched'[c].dest = Injector  BY <2>1, <2>3, <2>9, Zenon
      <3>2. QueueBound'
        <4>1. \A d, u : InQueue(d, u)' <=> InQueue(d, u)  BY <2>1, Zenon DEF InQueue
        <4> QED  BY <1>Parts, <3>1, <4>1, Zenon DEF QueueBound
      <3>3. CurBound' /\ BoundOnline'  BY <1>Parts, <2>1, <3>1, Zenon DEF CurBound, BoundOnline
      <3>4. ActiveBound'
        <4>1. task'[t] \notin {"running", "rewoken", "idle"}  BY <2>7
        <4> QED  BY <1>Parts, <2>7, <3>1, <4>1, Zenon DEF ActiveBound
      <3>5. CallBound'  BY <1>Parts, <2>3, <3>1, Numbers, Zenon DEF CallBound
      <3> QED  BY <3>2, <3>3, <3>4, <3>5, <1>Join, Zenon
    <2> QED  BY <2>8, <2>9
  <1>Wake. ASSUME NEW a \in Actors, NEW t \in Tasks, NEW ret \in {"poll", "asleep", "handler"},
                  WakeTask(a, t, ret), UNCHANGED <<cur, queue, bound, online>>
           PROVE  Binding'
    <2> USE <1>Wake
    <2>1. ret \in CpuPC \cup IrqPC  BY DEF CpuPC, IrqPC
    <2>2. /\ bound[t] # None /\ \E p : task' = [task EXCEPT ![t] = p]
          /\ \/ sched' = sched
             \/ /\ sched'[a].task = t /\ sched'[a].dest = bound[t]
                /\ \A b \in Actors \ {a} : sched'[b] = sched[b]
      <3>1. task[t] \in {"idle", "running"} => bound[t] # None  BY <1>Parts DEF ActiveBound
      <3> QED  BY <2>1, <3>1, WakeDoes, Zenon
    <2>3. \A u \in Tasks \ {t} : task'[u] = task[u]  BY <1>0, <2>2, Zenon
    <2>4. QueueBound'
      <3>1. \A d, u : InQueue(d, u)' <=> InQueue(d, u)  BY Zenon DEF InQueue
      <3> QED  BY <1>Parts, <3>1, Zenon DEF QueueBound
    <2>5. CurBound' /\ BoundOnline'  BY <1>Parts, Zenon DEF CurBound, BoundOnline
    <2>6. ActiveBound'  BY <1>Parts, <2>2, <2>3, Zenon DEF ActiveBound
    <2>7. CallBound'
      <3>1. CASE sched' = sched  BY <1>Parts, <3>1, Zenon DEF CallBound
      <3>2. CASE /\ sched'[a].task = t /\ sched'[a].dest = bound[t]
                 /\ \A b \in Actors \ {a} : sched'[b] = sched[b]
        BY <3>2, <1>Calls, Zenon
      <3> QED  BY <2>2, <3>1, <3>2, Zenon
    <2> QED  BY <2>4, <2>5, <2>6, <2>7, <1>Join, Zenon
  <1>PollWake. ASSUME NEW c \in Cpus, NEW t \in Tasks, PollWake(c, t)  PROVE Binding'
    <2>1. WakeTask(c, t, "poll") /\ UNCHANGED <<cur, queue, bound, online>>
      BY <1>PollWake, Zenon DEF PollWake
    <2>2. c \in Actors /\ "poll" \in {"poll", "asleep", "handler"}  BY <1>0, <1>PollWake
    <2> QED  BY <1>PollWake, <2>1, <2>2, <1>Wake, Zenon
  <1>DriveWake. ASSUME NEW c \in Cpus, NEW t \in Tasks, DriveWake(c, t)  PROVE Binding'
    <2>1. WakeTask(c, t, "asleep") /\ UNCHANGED <<cur, queue, bound, online>>
      BY <1>DriveWake, Zenon DEF DriveWake
    <2>2. c \in Actors /\ "asleep" \in {"poll", "asleep", "handler"}  BY <1>0, <1>DriveWake
    <2> QED  BY <1>DriveWake, <2>1, <2>2, <1>Wake, Zenon
  <1>IrqWake. ASSUME NEW i \in Irqs, NEW t \in Tasks, IrqWake(i, t)  PROVE Binding'
    <2>1. WakeTask(i, t, "handler") /\ UNCHANGED <<cur, queue, bound, online>>
      BY <1>IrqWake, Zenon DEF IrqWake
    <2>2. i \in Actors /\ "handler" \in {"poll", "asleep", "handler"}  BY <1>IrqWake, Numbers
    <2> QED  BY <1>IrqWake, <2>1, <2>2, <1>Wake, Zenon
  <1> HIDE DEF Binding
  <1> QED
    BY <1>Quiet, <1>Enqueue, <1>Uncount, <1>Poll, <1>Take, <1>Tick, <1>Steal, <1>Spawn, <1>PollWake, <1>DriveWake,
       <1>IrqWake, NextCases, Zenon

-----------------------------------------------------------------------------
(* The initial state. *)

\* The tasks are in no place.
LEMMA PlacesInit ==
  ASSUME Init  PROVE Binding /\ Places
  <1>0. NoTheft.src = None /\ NoTheft.task = None /\ NoSched.dest = None /\ NoSched.task = None
    BY DEF NoTheft, NoSched
  <1>q. \A q \in Queues : queue[q] = <<>> /\ DOMAIN queue[q] = {}
    <2>1. \A q \in Queues : queue[q] = <<>>  BY AtStart, Zenon
    <2> QED  BY <2>1
  <1>1. Binding
    <2>1. \A c \in Cpus : \A k \in 1 .. Len(queue[c]) : bound[queue[c][k]] = c
      <3>1. \A c \in Cpus : queue[c] = <<>>  BY AtStart, Numbers, Zenon
      <3> QED  BY <3>1
    <2>2. \A t \in Tasks : task[t] \notin {"running", "rewoken", "idle"}  BY AtStart
    <2>3. \A a \in Actors : sched[a].dest \notin Cpus
      <3>1. \A a \in Actors : sched[a] = NoSched  BY AtStart, Zenon
      <3> QED  BY <1>0, <3>1, Numbers, Zenon
    <2>4. \A c \in Cpus : cur[c] = None  BY AtStart, Zenon
    <2>5. \A t \in Tasks : bound[t] = None  BY AtStart, Zenon
    <2> QED  BY <2>1, <2>2, <2>3, <2>4, <2>5, Zenon DEF Binding, BoundWhereQueued
  <1>2. Places
    <2>1. \A q \in Queues, t \in Tasks : ~InQueue(q, t)  BY <1>q, Zenon DEF InQueue
    <2>2. \A t \in Tasks : \A k \in Kinds : \A x \in Spots : ~Has(k, x, t)
      <3>1. \A a \in Actors : sched[a].task = None
        <4>1. \A a \in Actors : sched[a] = NoSched  BY AtStart, Zenon
        <4> QED  BY <1>0, <4>1, Zenon
      <3>2. \A c \in Cpus : cur[c] = None /\ theft[c].task = None
        <4>1. \A c \in Cpus : cur[c] = None /\ theft[c] = NoTheft  BY AtStart, Zenon
        <4> QED  BY <1>0, <4>1, Zenon
      <3>3. None \notin Tasks  BY Numbers, Zenon
      <3> QED  BY <2>1, <3>1, <3>2, <3>3, Zenon DEF Has
    <2>3. \A t \in Tasks : task[t] \notin {"queued", "running", "rewoken"}  BY AtStart
    <2>4. \A q \in Queues : NoDup(q)  BY <1>q, Zenon DEF NoDup
    <2> QED  BY <2>2, <2>3, <2>4, Zenon DEF Places
  <1> QED  BY <1>1, <1>2, Zenon

\* The counters are exact at the start.
LEMMA CountsInit ==
  ASSUME SetFacts, Init  PROVE QueuedCounts
  <1> SUFFICES ASSUME NEW q \in Queues
               PROVE  queued[q] = Len(queue[q])
            + Cardinality({a \in Actors : pc[a] = "enqueue" /\ sched[a].dest = q})
            + Cardinality({c \in Cpus : pc[c] = "uncount" /\ c = q})
            + Cardinality({c \in Cpus : pc[c] = "take" /\ theft[c].src = q})
    BY Zenon DEF QueuedCounts
  <1>1. {a \in Actors : pc[a] = "enqueue" /\ sched[a].dest = q} = {}  BY AtStart
  <1>2. {c \in Cpus : pc[c] = "uncount" /\ c = q} = {}  BY AtStart
  <1>3. {c \in Cpus : pc[c] = "take" /\ theft[c].src = q} = {}  BY AtStart
  <1>4. queued[q] = 0 /\ queue[q] = <<>>  BY AtStart, Zenon
  <1>5. Len(<<>>) = 0 /\ 0 = 0 + 0 + 0 + 0  OBVIOUS
  <1>6. Cardinality({}) = 0
    <2>1. {} \in SUBSET Actors  BY Zenon
    <2> QED  BY <2>1, Zenon DEF SetFacts
  <1> QED  BY <1>1, <1>2, <1>3, <1>4, <1>5, <1>6, Zenon

-----------------------------------------------------------------------------
(* Counting the places of a task. *)

\* Module ExecutorProofs derives it.
Singles == Cardinality({}) = 0 /\ \A x : Cardinality({x}) = 1

\* What TasksInOnePlace counts: one place for an active task, none for any other.
LEMMA PlacedOnce ==
  ASSUME Singles, TypeOK, Places, NEW t \in Tasks
  PROVE  Held(t) = IF task[t] \in {"queued", "running", "rewoken"} THEN 1 ELSE 0
  <1>0. PICK Q, C, H, S :
          /\ Q = {p \in UNION {{q} \X DOMAIN queue[q] : q \in Queues} : queue[p[1]][p[2]] = t}
          /\ C = {c \in Cpus : cur[c] = t}
          /\ H = {c \in Cpus : theft[c].task = t}
          /\ S = {a \in Actors : sched[a].task = t}
    BY Zenon
  <1>1. Held(t) = Cardinality(Q) + Cardinality(C) + Cardinality(H) + Cardinality(S)
    BY <1>0, Zenon DEF Held
  <1>s. Queues \subseteq Spots /\ Cpus \subseteq Spots /\ Actors \subseteq Spots
    BY Numbers, Zenon DEF Spots
  <1>k. {"queue", "cur", "theft", "sched"} \subseteq Kinds  BY Zenon DEF Kinds
  <1>2. ASSUME NEW p \in Q
        PROVE  /\ p[1] \in Queues /\ p[2] \in DOMAIN queue[p[1]] /\ p = <<p[1], p[2]>>
               /\ queue[p[1]][p[2]] = t /\ p[1] \in Spots /\ Has("queue", p[1], t)
    <2>1. /\ p[1] \in Queues /\ p[2] \in DOMAIN queue[p[1]] /\ p = <<p[1], p[2]>>
          /\ queue[p[1]][p[2]] = t
      BY <1>0
    <2> QED  BY <1>s, <2>1, Zenon DEF Has, InQueue
  <1>3. \A c \in C : c \in Spots /\ Has("cur", c, t)  BY <1>0, <1>s, Zenon DEF Has
  <1>4. \A c \in H : c \in Spots /\ Has("theft", c, t)  BY <1>0, <1>s, Zenon DEF Has
  <1>5. \A a \in S : a \in Spots /\ Has("sched", a, t)  BY <1>0, <1>s, Zenon DEF Has
  <1>6. Cardinality({}) = 0 /\ \A x : Cardinality({x}) = 1  BY Zenon DEF Singles
  <1>7. CASE task[t] \in {"queued", "running", "rewoken"}
    <2>1. PICK k \in Kinds, x \in Spots : Has(k, x, t)  BY <1>7, Zenon DEF Places
    <2>2. \A l \in Kinds : \A y \in Spots : Has(l, y, t) => l = k /\ y = x
      BY <2>1, Zenon DEF Places
    <2>3. Q = {} \/ (k = "queue" /\ \E e : Q = {e})
      <3>1. CASE Q # {}
        <4>1. PICK p \in Q : TRUE  BY <3>1, Zenon
        <4>2. p[1] = x /\ k = "queue"  BY <1>2, <1>k, <2>2, Zenon
        <4>3. ASSUME NEW r \in Q  PROVE r = p
          <5>1. r[1] = x /\ p[1] = x  BY <1>2, <1>k, <2>2, Zenon
          <5>2. x \in Queues /\ p[2] \in DOMAIN queue[x] /\ r[2] \in DOMAIN queue[x] /\ queue[x][p[2]] = queue[x][r[2]]
            BY <1>2, <5>1, Zenon
          <5>n. NoDup(x)  BY <5>2, Zenon DEF Places
          <5>3. p[2] = r[2]  BY <5>2, <5>n, Zenon DEF NoDup
          <5> QED  BY <1>2, <5>1, <5>3, Zenon
        <4>4. Q = {p}  BY <4>3
        <4> QED  BY <4>2, <4>4, Zenon
      <3> QED  BY <3>1, Zenon
    <2>4. C = {} \/ (k = "cur" /\ C = {x})
      BY <1>3, <1>k, <2>2, Zenon
    <2>5. H = {} \/ (k = "theft" /\ H = {x})
      BY <1>4, <1>k, <2>2, Zenon
    <2>6. S = {} \/ (k = "sched" /\ S = {x})
      BY <1>5, <1>k, <2>2, Zenon
    <2>7. \/ k = "queue" /\ Q # {}
          \/ k = "cur" /\ x \in C
          \/ k = "theft" /\ x \in H
          \/ k = "sched" /\ x \in S
      <3>1. CASE k = "queue" /\ x \in Queues /\ InQueue(x, t)
        <4>1. PICK j \in DOMAIN queue[x] : queue[x][j] = t  BY <3>1, Zenon DEF InQueue
        <4>2. <<x, j>> \in Q  BY <1>0, <3>1, <4>1
        <4> QED  BY <3>1, <4>2, Zenon
      <3> QED  BY <1>0, <2>1, <3>1, Zenon DEF Has
    <2>8. /\ "queue" # "cur" /\ "queue" # "theft" /\ "queue" # "sched" /\ "cur" # "theft"
          /\ "cur" # "sched" /\ "theft" # "sched"
      OBVIOUS
    <2>9. \/ (\E e : Q = {e}) /\ C = {} /\ H = {} /\ S = {}
          \/ Q = {} /\ C = {x} /\ H = {} /\ S = {}
          \/ Q = {} /\ C = {} /\ H = {x} /\ S = {}
          \/ Q = {} /\ C = {} /\ H = {} /\ S = {x}
      BY <2>3, <2>4, <2>5, <2>6, <2>7, <2>8, Zenon
    <2>10. \/ Cardinality(Q) = 1 /\ Cardinality(C) = 0 /\ Cardinality(H) = 0 /\ Cardinality(S) = 0
           \/ Cardinality(Q) = 0 /\ Cardinality(C) = 1 /\ Cardinality(H) = 0 /\ Cardinality(S) = 0
           \/ Cardinality(Q) = 0 /\ Cardinality(C) = 0 /\ Cardinality(H) = 1 /\ Cardinality(S) = 0
           \/ Cardinality(Q) = 0 /\ Cardinality(C) = 0 /\ Cardinality(H) = 0 /\ Cardinality(S) = 1
      BY <1>6, <2>9, Zenon
    <2>11. Held(t) = 1  BY <1>1, <2>10
    <2> QED  BY <1>7, <2>11, Zenon
  <1>8. CASE task[t] \notin {"queued", "running", "rewoken"}
    <2>1. \A k \in Kinds : \A x \in Spots : ~Has(k, x, t)
      <3>1. \A k, x : Phases(k, x) \subseteq {"queued", "running", "rewoken"}  BY Zenon DEF Phases
      <3> QED  BY <1>8, <3>1, Zenon DEF Places
    <2>2. Q = {} /\ C = {} /\ H = {} /\ S = {}  BY <1>2, <1>3, <1>4, <1>5, <1>k, <2>1, Zenon
    <2>3. Cardinality(Q) = 0 /\ Cardinality(C) = 0 /\ Cardinality(H) = 0 /\ Cardinality(S) = 0
      BY <1>6, <2>2, Zenon
    <2>4. Held(t) = 0  BY <1>1, <2>3
    <2> QED  BY <1>8, <2>4, Zenon
  <1> QED  BY <1>7, <1>8, Zenon
=============================================================================
