--------------------------- MODULE ExecutorSteps ---------------------------
(***************************************************************************)
(* The executor's inductive invariant, first part: each actor's locals fit *)
(* the place it is at, and every variable keeps its type. Each lemma is    *)
(* about one step, or about what a step does; they assume the few facts on *)
(* finite sets they need (SetFacts), which ExecutorProofs proves.          *)
(***************************************************************************)
EXTENDS Executor, TLAPS

\* Where an actor is, a call of schedule counting as the place it returns to.
At(a) == IF pc[a] \in {"count", "enqueue"} THEN sched[a].ret ELSE pc[a]

\* The places of a worker: before it has a scheduler, in its main loop with a task to
\* expect, in try_steal with a victim in its hands, and in try_steal.
Starting == {"new", "register"}
Working == {"new", "register", "run", "tick", "uncount", "poll", "check"}
Holding == {"inject_len", "victim_len", "steal", "take", "release"}
Stealing == Holding \cup {"inject", "round", "victim"}

\* A call of schedule has its task, its queue and the place it returns to.
Call(a) ==
    IF pc[a] \in {"count", "enqueue"}
    THEN /\ sched[a].task \in Tasks /\ sched[a].dest \in Queues
         /\ sched[a].ret \in IF a \in Cpus THEN {"new", "poll", "tick", "steal", "asleep"}
                                           ELSE {"handler"}
         /\ sched[a].dest = Injector => sched[a].ret = "new"
         /\ sched[a].ret = "asleep" => a \in Driving
    ELSE sched[a] = NoSched

Calls == \A a \in Actors : Call(a)

\* Outside of try_steal its locals have no value.
Clean(w) ==
  /\ w.round = 0 /\ w.num = 0 /\ w.src = None /\ w.next = 0
  /\ w.left = 0 /\ w.limit = 0 /\ w.stolen = 0 /\ w.task = None

\* What a worker has in its hands, by where it is.
Hand(c) ==
    /\ pc[c] \in CpuPC
    /\ cur[c] # None <=> At(c) \in {"uncount", "poll"}
    /\ At(c) \in {"uncount", "poll"} => polled[c] < TickBudget
    /\ theft[c].task # None <=> At(c) = "take"
    /\ theft[c].src # None <=> At(c) \in Holding
    /\ At(c) \notin Stealing => Clean(theft[c])
    /\ c \in online <=> At(c) \notin Starting
    /\ id[c] # None <=> At(c) # "new"

Hands == \A c \in Cpus : Hand(c)

\* How far try_steal has come when the worker is at `at': its locals round, num, src,
\* next, left, limit and stolen.
Fits(at, r, n, s, x, l, m, k) ==
  /\ at \in {"inject", "inject_len", "round", "victim", "victim_len"} => m = 0 /\ k = 0
  /\ at \in {"inject", "inject_len"} => r = IF n = 0 THEN 0 ELSE Rounds
  /\ at = "inject_len" => s = Injector
  /\ at = "round" => (n = 0 => r = 0)
  /\ at \in {"victim", "victim_len"} => n > 0 /\ x < n /\ l <= n /\ r < Rounds
  /\ at = "victim_len" => l > 0 /\ s # Injector
  /\ at \in {"steal", "take"} => m > 0
  /\ at \in {"steal", "take", "release"} /\ s # Injector => r < Rounds /\ n > 0
  /\ at = "release" /\ m = 0 =>
       /\ k = 0
       /\ IF s = Injector THEN r = IF n = 0 THEN 0 ELSE Rounds
                          ELSE n > 0 /\ x < n /\ 0 < l /\ l <= n

Theft(c, w) ==
  /\ Fits(At(c), w.round, w.num, w.src, w.next, w.left, w.limit, w.stolen)
  /\ pc[c] \in {"count", "enqueue"} /\ sched[c].ret = "steal" => w.stolen > 0
  /\ w.num <= Cardinality(online)

Thefts == \A c \in Cpus : Theft(c, theft[c])

\* A task goes where it is bound to, and only to CPUs that have a scheduler.
Binding ==
  /\ BoundWhereQueued
  /\ \A t \in Tasks : bound[t] # None => bound[t] \in online
  /\ \A a \in Actors : sched[a].dest \in Cpus => bound[sched[a].task] = sched[a].dest

-----------------------------------------------------------------------------
(* The locals of try_steal, field by field. *)

Locals(c) == Call(c) /\ Hand(c) /\ Theft(c, theft[c])

\* An actor changes only what is its own.
Frame(a) ==
  /\ \A b \in Actors \ {a} : pc'[b] = pc[b] /\ sched'[b] = sched[b]
  /\ \A d \in Cpus \ {a} :
        /\ cur'[d] = cur[d] /\ polled'[d] = polled[d] /\ id'[d] = id[d]
        /\ theft'[d] = theft[d] /\ (d \in online' <=> d \in online)

\* Worker c goes to `to' with these locals of try_steal.
Thief(c, to, r, n, s, x, l, m, k, t) ==
  /\ pc' \in [Actors -> CpuPC \cup IrqPC]
  /\ theft' \in [Cpus -> TheftType]
  /\ \A a \in Actors \ {c} : pc'[a] = pc[a]
  /\ \A d \in Cpus \ {c} : theft'[d] = theft[d]
  /\ pc'[c] = to
  /\ theft'[c].round = r /\ theft'[c].num = n /\ theft'[c].src = s
  /\ theft'[c].next = x /\ theft'[c].left = l /\ theft'[c].limit = m
  /\ theft'[c].stolen = k /\ theft'[c].task = t

Own == Calls /\ Hands /\ Thefts

\* Worker c goes to `to' and keeps the locals of try_steal but for src.
Kept(c, to, s) ==
  Thief(c, to, theft[c].round, theft[c].num, s, theft[c].next, theft[c].left,
        theft[c].limit, theft[c].stolen, theft[c].task)

\* try_steal has failed, or is over.
Cleared(c, to) == Thief(c, to, 0, 0, None, 0, 0, 0, 0, None)

Stepped(c) ==
  Thief(c, "victim", theft[c].round, theft[c].num, None,
        IF theft[c].next + 1 = theft[c].num THEN 0 ELSE theft[c].next + 1,
        theft[c].left - 1, theft[c].limit, theft[c].stolen, theft[c].task)

NewRound(c) ==
  Thief(c, "round", theft[c].round + 1, theft[c].num, None, 0, 0, 0, 0, None)

SchedType == [task : Tasks \cup {None}, dest : Queues \cup {None},
              ret : CpuPC \cup IrqPC \cup {"none"}]

\* What the proofs use of finite sets; module ExecutorProofs derives it.
SetFacts ==
  /\ \A S \in SUBSET Cpus :
        /\ Cardinality(S) \in 0 .. NumCpus
        /\ \A i \in Nat : i < Cardinality(S) =>
              \E c \in S : Cardinality({d \in S : d < c}) = i
  /\ \A S \in SUBSET Actors :
        /\ Cardinality(S) \in Nat /\ (Cardinality(S) = 0 <=> S = {})
        /\ \A a \in Actors : /\ a \notin S => Cardinality(S \cup {a}) = Cardinality(S) + 1
                             /\ a \in S => Cardinality(S \ {a}) = Cardinality(S) - 1

TryInjectorMoves(c) ==
  \/ consumer[Injector] = None /\ Kept(c, "inject_len", Injector)
  \/ consumer[Injector] # None /\ theft[c].round = Rounds /\ Cleared(c, "wait")
  \/ consumer[Injector] # None /\ theft[c].round # Rounds /\ Kept(c, "round", None)

InjectorLenMoves(c) ==
  \/ /\ queued[Injector] > 0
     /\ Thief(c, "steal", theft[c].round, theft[c].num, theft[c].src, theft[c].next,
              theft[c].left, MaxStolen, theft[c].stolen, theft[c].task)
  \/ queued[Injector] = 0 /\ Kept(c, "release", theft[c].src)

CountWorkersMoves(c) ==
  \/ Cardinality(online) <= 1 /\ Cleared(c, "wait")
  \/ /\ Cardinality(online) > 1
     /\ Thief(c, "round", theft[c].round, Cardinality(online), theft[c].src, theft[c].next,
              theft[c].left, theft[c].limit, theft[c].stolen, theft[c].task)

RoundMoves(c) ==
  \/ theft[c].round = Rounds /\ Kept(c, "inject", theft[c].src)
  \/ /\ theft[c].round # Rounds
     /\ \E start \in 0 .. theft[c].num - 1 :
           Thief(c, "victim", theft[c].round, theft[c].num, theft[c].src, start,
                 theft[c].num, theft[c].limit, theft[c].stolen, theft[c].task)

VictimMoves(c) ==
  LET v == Nth(theft[c].next)
  IN  \/ /\ theft[c].left = 0 /\ NewRound(c)
         /\ consumer' = consumer /\ excused' = excused
      \/ /\ theft[c].left > 0 /\ theft[c].next = id[c] /\ Stepped(c)
         /\ consumer' = consumer /\ excused' = excused
      \/ /\ theft[c].left > 0 /\ theft[c].next # id[c] /\ MaybeBusy(v) /\ Stepped(c)
         /\ consumer' = consumer /\ excused' = excused \cup PassedOver(v)
      \/ /\ theft[c].left > 0 /\ theft[c].next # id[c] /\ consumer[v] = None
         /\ consumer' = [consumer EXCEPT ![v] = c] /\ excused' = excused
         /\ Kept(c, "victim_len", v)

VictimLenMoves(c) ==
  \/ /\ queued[theft[c].src] > 0
     /\ \E m \in Nat \ {0} :
          Thief(c, "steal", theft[c].round, theft[c].num, theft[c].src, theft[c].next,
                theft[c].left, m, theft[c].stolen, theft[c].task)
  \/ queued[theft[c].src] = 0 /\ Kept(c, "release", theft[c].src)

StealMoves(c) ==
  LET q == theft[c].src
  IN  \/ /\ theft[c].stolen <= theft[c].limit /\ queue[q] # <<>>
         /\ Head(queue[q]) \in Tasks
         /\ Thief(c, "take", theft[c].round, theft[c].num, q, theft[c].next,
                  theft[c].left, theft[c].limit, theft[c].stolen, Head(queue[q]))
         /\ queue' = [queue EXCEPT ![q] = Tail(queue[q])]
         /\ excused' = excused \ {Head(queue[q])}
      \/ /\ ~ (theft[c].stolen <= theft[c].limit) \/ queue[q] = <<>>
         /\ Kept(c, "release", q)
         /\ queue' = queue /\ excused' = excused

ReleaseMoves(c) ==
  \/ theft[c].stolen > 0 /\ Cleared(c, "tick")
  \/ /\ theft[c].stolen = 0 /\ theft[c].src = Injector
     /\ \/ theft[c].limit > 0 /\ Cleared(c, "wait")
        \/ theft[c].limit = 0 /\ theft[c].round = Rounds /\ Cleared(c, "wait")
        \/ theft[c].limit = 0 /\ theft[c].round # Rounds /\ Kept(c, "round", None)
  \/ /\ theft[c].stolen = 0 /\ theft[c].src # Injector
     /\ \/ theft[c].limit > 0 /\ NewRound(c)
        \/ theft[c].limit = 0 /\ Stepped(c)

TakeMoves(c) ==
  Thief(c, "count", theft[c].round, theft[c].num, theft[c].src, theft[c].next,
        theft[c].left, theft[c].limit, theft[c].stolen + 1, None)

\* TypeOK, one variable a line.
LEMMA TypeFields ==
  ASSUME TypeOK
  PROVE  /\ pc \in [Actors -> CpuPC \cup IrqPC] /\ online \subseteq Cpus
         /\ id \in [Cpus -> Cpus \cup {None}] /\ cur \in [Cpus -> Tasks \cup {None}]
         /\ polled \in [Cpus -> 0 .. TickBudget] /\ theft \in [Cpus -> TheftType]
         /\ sched \in [Actors -> SchedType] /\ queue \in [Queues -> Seq(Tasks)]
         /\ queued \in [Queues -> Nat] /\ consumer \in [Queues -> Cpus \cup {None}]
         /\ bound \in [Tasks -> Cpus \cup {None}]
         /\ task \in [Tasks -> {"unspawned", "queued", "running", "rewoken", "idle", "done"}]
         /\ sleepers \in [permit : BOOLEAN, waiters : Seq(Cpus), closed : BOOLEAN]
         /\ notified \in [Cpus -> {"no", "woken", "closed"}] /\ excused \subseteq Tasks
  BY Zenon DEF TypeOK, SchedType

\* The locals of try_steal have their types.
LEMMA FieldTypes ==
  ASSUME TypeOK, NEW c \in Cpus
  PROVE  /\ theft[c] \in TheftType
         /\ theft[c].round \in 0 .. Rounds /\ theft[c].num \in 0 .. NumCpus
         /\ theft[c].src \in Queues \cup {None} /\ theft[c].next \in 0 .. NumCpus
         /\ theft[c].left \in 0 .. NumCpus /\ theft[c].limit \in Nat
         /\ theft[c].stolen \in Nat /\ theft[c].task \in Tasks \cup {None}
  BY TypeFields DEF TheftType

\* The numbers of the CPUs, of the queues and of nobody.
LEMMA Numbers ==
  /\ Queues = Cpus \cup {Injector} /\ Injector \notin Cpus
  /\ None \notin Queues /\ None \notin Cpus /\ None \notin Actors /\ None \notin Tasks
  /\ Cpus \subseteq Queues /\ Cpus \subseteq Actors /\ Irqs \subseteq Actors
  /\ Irqs \cap Cpus = {}
  <1>1. Queues = Cpus \cup {Injector} /\ Injector \notin Cpus /\ None \notin Queues
    BY Bounds DEF Queues, Cpus, Injector, None
  <1> QED  BY <1>1, Bounds, Zenon DEF Actors

\* schedulers.iter().nth(i) finds a scheduler as long as i is below their number.
LEMMA OnlineFacts ==
  ASSUME SetFacts, TypeOK
  PROVE  /\ Cardinality(online) \in 0 .. NumCpus /\ Cardinality(online) \in Nat
         /\ \A i \in Nat : i < Cardinality(online) => Nth(i) \in online
  <1>1. online \in SUBSET Cpus /\ NumCpus \in Nat  BY TypeFields, Bounds
  <1>2. Cardinality(online) \in 0 .. NumCpus  BY <1>1 DEF SetFacts
  <1>3. ASSUME NEW i \in Nat, i < Cardinality(online)
        PROVE  Nth(i) \in online
    <2>1. \E c \in online : Cardinality({d \in online : d < c}) = i
      BY <1>1, <1>3, Zenon DEF SetFacts
    <2> QED  BY <2>1, Zenon DEF Nth
  <1> QED  BY <1>1, <1>2, <1>3

\* The victim a thief looks at next is one of the registered workers.
LEMMA VictimFacts ==
  ASSUME SetFacts, TypeOK, NEW c \in Cpus, Theft(c, theft[c]), At(c) = "victim"
  PROVE  /\ Nth(theft[c].next) \in online /\ Nth(theft[c].next) \in Cpus
         /\ Nth(theft[c].next) \in Queues \cup {None}
         /\ theft[c].num > 0 /\ theft[c].next < theft[c].num /\ theft[c].round < Rounds
  <1>1. /\ theft[c].num > 0 /\ theft[c].next < theft[c].num /\ theft[c].round < Rounds
        /\ theft[c].num <= Cardinality(online)
    BY DEF Theft, Fits
  <1>2. theft[c].next \in Nat /\ theft[c].next < Cardinality(online)
    BY <1>1, FieldTypes, OnlineFacts
  <1>3. Nth(theft[c].next) \in online
    BY <1>2, OnlineFacts
  <1>4. online \subseteq Cpus
    BY TypeFields, Zenon
  <1> QED  BY <1>1, <1>3, <1>4, Numbers, Zenon

\* What is known of the worker that takes a step.
LEMMA SelfFacts ==
  ASSUME SetFacts, TypeOK, Own, NEW c \in Cpus
  PROVE  /\ Locals(c) /\ c \in Actors
         /\ theft[c].round \in Nat /\ theft[c].num \in Nat /\ theft[c].next \in Nat
         /\ theft[c].left \in Nat /\ theft[c].limit \in Nat /\ theft[c].stolen \in Nat
         /\ theft[c].src # None => theft[c].src \in Queues
         /\ Cardinality(online) \in Nat
         /\ Injector \in Nat /\ None = -1 /\ Rounds \in Nat \ {0} /\ MaxStolen \in Nat \ {0}
  <1>1. Locals(c) /\ c \in Actors
    BY Zenon DEF Own, Calls, Hands, Thefts, Locals, Actors
  <1>2. Cardinality(online) \in Nat  BY OnlineFacts
  <1>3. /\ theft[c].round \in Nat /\ theft[c].num \in Nat /\ theft[c].next \in Nat
        /\ theft[c].left \in Nat /\ theft[c].limit \in Nat /\ theft[c].stolen \in Nat
        /\ theft[c].src # None => theft[c].src \in Queues
    BY FieldTypes
  <1>4. Injector \in Nat /\ None = -1 /\ Rounds \in Nat \ {0} /\ MaxStolen \in Nat \ {0}
    BY Bounds DEF Injector, None
  <1> QED  BY <1>1, <1>2, <1>3, <1>4

\* What a call of schedule sets up.
LEMMA CallDoes ==
  ASSUME TypeOK, NEW a \in Actors, NEW t \in Tasks, NEW q \in Queues,
         NEW ret \in CpuPC \cup IrqPC, CallSchedule(a, t, q, ret)
  PROVE  /\ pc' \in [Actors -> CpuPC \cup IrqPC] /\ sched' \in [Actors -> SchedType]
         /\ pc'[a] = "count" /\ sched'[a].task = t /\ sched'[a].dest = q /\ sched'[a].ret = ret
         /\ \A b \in Actors \ {a} : pc'[b] = pc[b] /\ sched'[b] = sched[b]
  <1> DEFINE s == [task |-> t, dest |-> q, ret |-> ret]
  <1>1. s \in SchedType /\ s.task = t /\ s.dest = q /\ s.ret = ret
    BY DEF SchedType
  <1>2. pc' = [pc EXCEPT ![a] = "count"] /\ sched' = [sched EXCEPT ![a] = s]
    BY Zenon DEF CallSchedule
  <1>3. pc \in [Actors -> CpuPC \cup IrqPC] /\ sched \in [Actors -> SchedType] /\ "count" \in CpuPC
    BY Zenon DEF TypeOK, SchedType, CpuPC
  <1> HIDE DEF s
  <1> QED  BY <1>1, <1>2, <1>3, Zenon

\* Worker::new gives out an id below the number of CPUs.
LEMMA NextId ==
  ASSUME SetFacts, TypeOK, Own, NEW c \in Cpus, At(c) \in Starting
  PROVE  /\ Cardinality(online) \in Cpus /\ c \notin online
         /\ Cardinality(online \cup {c}) = Cardinality(online) + 1
  <1>1. c \notin online  BY Zenon DEF Own, Hands, Hand
  <1>2. /\ online \cup {c} \in SUBSET Cpus /\ c \in Actors
        /\ online \in SUBSET Actors
    BY TypeFields, Numbers, Zenon
  <1>3. Cardinality(online \cup {c}) = Cardinality(online) + 1
    BY <1>1, <1>2 DEF SetFacts
  <1>4. Cardinality(online \cup {c}) \in 0 .. NumCpus  BY <1>2 DEF SetFacts
  <1> QED  BY <1>1, <1>3, <1>4, OnlineFacts, Bounds DEF Cpus

\* An idle task can be woken: it is bound to a scheduler.
LEMMA WakeDoes ==
  ASSUME TypeOK, Binding, NEW a \in Actors, NEW t \in Tasks, NEW ret \in CpuPC \cup IrqPC,
         WakeTask(a, t, ret)
  PROVE  \/ /\ task[t] = "idle" /\ task' = [task EXCEPT ![t] = "queued"]
            /\ bound[t] \in Cpus /\ bound[t] \in Queues /\ bound[t] # Injector
            /\ pc' \in [Actors -> CpuPC \cup IrqPC] /\ sched' \in [Actors -> SchedType]
            /\ pc'[a] = "count" /\ sched'[a].task = t /\ sched'[a].dest = bound[t]
            /\ sched'[a].ret = ret
            /\ \A b \in Actors \ {a} : pc'[b] = pc[b] /\ sched'[b] = sched[b]
         \/ /\ task[t] = "running" /\ task' = [task EXCEPT ![t] = "rewoken"]
            /\ pc' = pc /\ sched' = sched
  <1>1. CASE task[t] = "idle" /\ task' = [task EXCEPT ![t] = "queued"] /\ CallSchedule(a, t, bound[t], ret)
    <2>1. bound[t] \in Cpus  BY <1>1, TypeFields DEF Binding, BoundWhereQueued
    <2>2. bound[t] \in Queues /\ bound[t] # Injector  BY <2>1, Numbers
    <2> QED  BY <1>1, <2>1, <2>2, CallDoes
  <1>2. CASE task[t] = "running" /\ task' = [task EXCEPT ![t] = "rewoken"] /\ UNCHANGED <<sched, pc>>
    BY <1>2, Zenon
  <1> QED  BY <1>1, <1>2, Zenon DEF WakeTask

\* Taking one more task from a victim leaves the loop of the thief as it was.
LEMMA TakeFits ==
  ASSUME NEW r, NEW n, NEW s, NEW x, NEW l, NEW m, NEW k \in Nat,
         Fits("take", r, n, s, x, l, m, k)
  PROVE  Fits("steal", r, n, s, x, l, m, k + 1) /\ k + 1 > 0
  BY DEF Fits

\* A counter is positive while a task is between queue and counter.
LEMMA QueuedPositive ==
  ASSUME SetFacts, TypeOK, Own, QueuedCounts, NEW c \in Cpus
  PROVE  /\ pc[c] = "uncount" => queued[c] - 1 \in Nat
         /\ pc[c] = "take" => theft[c].src \in Queues /\ queued[theft[c].src] - 1 \in Nat
  <1> DEFINE E(q) == {a \in Actors : pc[a] = "enqueue" /\ sched[a].dest = q}
             U(q) == {d \in Cpus : pc[d] = "uncount" /\ d = q}
             K(q) == {d \in Cpus : pc[d] = "take" /\ theft[d].src = q}
  <1>1. \A q : E(q) \in SUBSET Actors /\ U(q) \in SUBSET Actors /\ K(q) \in SUBSET Actors
    BY Numbers, Zenon
  <1>2. \A q : /\ Cardinality(E(q)) \in Nat /\ Cardinality(U(q)) \in Nat /\ Cardinality(K(q)) \in Nat
               /\ (U(q) # {} => Cardinality(U(q)) # 0) /\ (K(q) # {} => Cardinality(K(q)) # 0)
    BY <1>1, Zenon DEF SetFacts
  <1>3. \A q \in Queues :
          /\ queued[q] = Len(queue[q]) + Cardinality(E(q)) + Cardinality(U(q)) + Cardinality(K(q))
          /\ queue[q] \in Seq(Tasks)
    BY TypeFields, Zenon DEF QueuedCounts
  <1>4. c \in Queues  BY Numbers
  <1>5. pc[c] = "uncount" => U(c) # {}  OBVIOUS
  <1>6. pc[c] = "take" => theft[c].src \in Queues /\ K(theft[c].src) # {}
    BY SelfFacts DEF Locals, Hand, At, Holding
  <1> HIDE DEF E, U, K
  <1>7. ASSUME NEW q \in Queues, U(q) # {} \/ K(q) # {}
        PROVE  queued[q] - 1 \in Nat
    <2>1. Len(queue[q]) \in Nat  BY <1>3
    <2>2. /\ Cardinality(E(q)) \in Nat /\ Cardinality(U(q)) \in Nat /\ Cardinality(K(q)) \in Nat
          /\ Cardinality(U(q)) # 0 \/ Cardinality(K(q)) # 0
      BY <1>2, <1>7, Zenon
    <2>3. queued[q] = Len(queue[q]) + Cardinality(E(q)) + Cardinality(U(q)) + Cardinality(K(q))
      BY <1>3, Zenon
    <2> QED  BY <2>1, <2>2, <2>3
  <1> QED  BY <1>4, <1>5, <1>6, <1>7, Zenon

\* What the steps of try_steal do to its locals.
LEMMA ThiefMoves ==
  ASSUME SetFacts, TypeOK, Own
  PROVE  \A c \in Cpus :
           /\ TryInjector(c) => TryInjectorMoves(c)
           /\ InjectorLen(c) => InjectorLenMoves(c)
           /\ CountWorkers(c) => CountWorkersMoves(c)
           /\ Round(c) => RoundMoves(c)
           /\ Victim(c) => VictimMoves(c)
           /\ VictimLen(c) => VictimLenMoves(c)
           /\ Steal(c) => StealMoves(c)
           /\ Release(c) => ReleaseMoves(c)
           /\ Take(c) => TakeMoves(c)
  <1>NoTheftType. NoTheft \in TheftType
    BY Bounds DEF NoTheft, TheftType, Queues, None
  <1>GoesDoes. ASSUME NEW c \in Cpus, NEW to \in CpuPC, NEW w \in TheftType, Goes(c, to, w)
    PROVE  Thief(c, to, w.round, w.num, w.src, w.next, w.left, w.limit, w.stolen, w.task)
    <2> USE <1>GoesDoes
    <2>1. pc' = [pc EXCEPT ![c] = to] /\ theft' = [theft EXCEPT ![c] = w]
      BY DEF Goes
    <2>2. c \in Actors  BY DEF Actors
    <2> QED  BY <2>1, <2>2, TypeFields, Zenon DEF Thief
  <1>SetSrc. ASSUME NEW c \in Cpus, NEW to \in CpuPC, NEW s \in Queues \cup {None},
           Goes(c, to, [theft[c] EXCEPT !.src = s])
    PROVE  Thief(c, to, theft[c].round, theft[c].num, s, theft[c].next,
                 theft[c].left, theft[c].limit, theft[c].stolen, theft[c].task)
    <2> USE <1>SetSrc
    <2> DEFINE w == [theft[c] EXCEPT !.src = s]
    <2>1. theft[c] \in TheftType  BY FieldTypes
    <2>2. w \in TheftType  BY <2>1, Zenon DEF TheftType
    <2>3. /\ w.round = theft[c].round /\ w.num = theft[c].num /\ w.src = s
          /\ w.next = theft[c].next /\ w.left = theft[c].left /\ w.limit = theft[c].limit
          /\ w.stolen = theft[c].stolen /\ w.task = theft[c].task
      BY <2>1, Zenon DEF TheftType
    <2>4. Goes(c, to, w)  OBVIOUS
    <2> HIDE DEF w
    <2>5. Thief(c, to, w.round, w.num, w.src, w.next, w.left, w.limit, w.stolen, w.task)
      BY <2>2, <2>4, <1>GoesDoes, Zenon
    <2> QED  BY <2>3, <2>5, Zenon
  <1>SetLimit. ASSUME NEW c \in Cpus, NEW to \in CpuPC, NEW m \in Nat,
           Goes(c, to, [theft[c] EXCEPT !.limit = m])
    PROVE  Thief(c, to, theft[c].round, theft[c].num, theft[c].src, theft[c].next,
                 theft[c].left, m, theft[c].stolen, theft[c].task)
    <2> USE <1>SetLimit
    <2> DEFINE w == [theft[c] EXCEPT !.limit = m]
    <2>1. theft[c] \in TheftType  BY FieldTypes
    <2>2. w \in TheftType  BY <2>1, Zenon DEF TheftType
    <2>3. /\ w.round = theft[c].round /\ w.num = theft[c].num /\ w.src = theft[c].src
          /\ w.next = theft[c].next /\ w.left = theft[c].left /\ w.limit = m
          /\ w.stolen = theft[c].stolen /\ w.task = theft[c].task
      BY <2>1, Zenon DEF TheftType
    <2>4. Goes(c, to, w)  OBVIOUS
    <2> HIDE DEF w
    <2>5. Thief(c, to, w.round, w.num, w.src, w.next, w.left, w.limit, w.stolen, w.task)
      BY <2>2, <2>4, <1>GoesDoes, Zenon
    <2> QED  BY <2>3, <2>5, Zenon
  <1>SetNum. ASSUME NEW c \in Cpus, NEW to \in CpuPC, NEW n \in 0 .. NumCpus,
           Goes(c, to, [theft[c] EXCEPT !.num = n])
    PROVE  Thief(c, to, theft[c].round, n, theft[c].src, theft[c].next,
                 theft[c].left, theft[c].limit, theft[c].stolen, theft[c].task)
    <2> USE <1>SetNum
    <2> DEFINE w == [theft[c] EXCEPT !.num = n]
    <2>1. theft[c] \in TheftType  BY FieldTypes
    <2>2. w \in TheftType  BY <2>1, Zenon DEF TheftType
    <2>3. /\ w.round = theft[c].round /\ w.num = n /\ w.src = theft[c].src
          /\ w.next = theft[c].next /\ w.left = theft[c].left /\ w.limit = theft[c].limit
          /\ w.stolen = theft[c].stolen /\ w.task = theft[c].task
      BY <2>1, Zenon DEF TheftType
    <2>4. Goes(c, to, w)  OBVIOUS
    <2> HIDE DEF w
    <2>5. Thief(c, to, w.round, w.num, w.src, w.next, w.left, w.limit, w.stolen, w.task)
      BY <2>2, <2>4, <1>GoesDoes, Zenon
    <2> QED  BY <2>3, <2>5, Zenon
  <1>SetTask. ASSUME NEW c \in Cpus, NEW to \in CpuPC, NEW t \in Tasks,
           Goes(c, to, [theft[c] EXCEPT !.task = t])
    PROVE  Thief(c, to, theft[c].round, theft[c].num, theft[c].src, theft[c].next,
                 theft[c].left, theft[c].limit, theft[c].stolen, t)
    <2> USE <1>SetTask
    <2> DEFINE w == [theft[c] EXCEPT !.task = t]
    <2>1. theft[c] \in TheftType  BY FieldTypes
    <2>2. w \in TheftType  BY <2>1, Zenon DEF TheftType
    <2>3. /\ w.round = theft[c].round /\ w.num = theft[c].num /\ w.src = theft[c].src
          /\ w.next = theft[c].next /\ w.left = theft[c].left /\ w.limit = theft[c].limit
          /\ w.stolen = theft[c].stolen /\ w.task = t
      BY <2>1, Zenon DEF TheftType
    <2>4. Goes(c, to, w)  OBVIOUS
    <2> HIDE DEF w
    <2>5. Thief(c, to, w.round, w.num, w.src, w.next, w.left, w.limit, w.stolen, w.task)
      BY <2>2, <2>4, <1>GoesDoes, Zenon
    <2> QED  BY <2>3, <2>5, Zenon
  <1>SetNext. ASSUME NEW c \in Cpus, NEW to \in CpuPC, NEW x \in 0 .. NumCpus, NEW l \in 0 .. NumCpus,
           Goes(c, to, [theft[c] EXCEPT !.next = x, !.left = l])
    PROVE  Thief(c, to, theft[c].round, theft[c].num, theft[c].src, x,
                 l, theft[c].limit, theft[c].stolen, theft[c].task)
    <2> USE <1>SetNext
    <2> DEFINE w == [theft[c] EXCEPT !.next = x, !.left = l]
    <2>1. theft[c] \in TheftType  BY FieldTypes
    <2>2. w \in TheftType  BY <2>1, Zenon DEF TheftType
    <2>3. /\ w.round = theft[c].round /\ w.num = theft[c].num /\ w.src = theft[c].src
          /\ w.next = x /\ w.left = l /\ w.limit = theft[c].limit
          /\ w.stolen = theft[c].stolen /\ w.task = theft[c].task
      BY <2>1, Zenon DEF TheftType
    <2>4. Goes(c, to, w)  OBVIOUS
    <2> HIDE DEF w
    <2>5. Thief(c, to, w.round, w.num, w.src, w.next, w.left, w.limit, w.stolen, w.task)
      BY <2>2, <2>4, <1>GoesDoes, Zenon
    <2> QED  BY <2>3, <2>5, Zenon
  <1>SetVictim. ASSUME NEW c \in Cpus, NEW to \in CpuPC, NEW x \in 0 .. NumCpus, NEW l \in 0 .. NumCpus, NEW s \in Queues \cup {None},
           Goes(c, to, [theft[c] EXCEPT !.next = x, !.left = l, !.src = s])
    PROVE  Thief(c, to, theft[c].round, theft[c].num, s, x,
                 l, theft[c].limit, theft[c].stolen, theft[c].task)
    <2> USE <1>SetVictim
    <2> DEFINE w == [theft[c] EXCEPT !.next = x, !.left = l, !.src = s]
    <2>1. theft[c] \in TheftType  BY FieldTypes
    <2>2. w \in TheftType  BY <2>1, Zenon DEF TheftType
    <2>3. /\ w.round = theft[c].round /\ w.num = theft[c].num /\ w.src = s
          /\ w.next = x /\ w.left = l /\ w.limit = theft[c].limit
          /\ w.stolen = theft[c].stolen /\ w.task = theft[c].task
      BY <2>1, Zenon DEF TheftType
    <2>4. Goes(c, to, w)  OBVIOUS
    <2> HIDE DEF w
    <2>5. Thief(c, to, w.round, w.num, w.src, w.next, w.left, w.limit, w.stolen, w.task)
      BY <2>2, <2>4, <1>GoesDoes, Zenon
    <2> QED  BY <2>3, <2>5, Zenon
  <1>CleanDoes. ASSUME NEW c \in Cpus, NEW to \in CpuPC, Goes(c, to, NoTheft)
    PROVE  Thief(c, to, 0, 0, None, 0, 0, 0, 0, None)
    <2> USE <1>CleanDoes
    <2>1. /\ NoTheft.round = 0 /\ NoTheft.num = 0 /\ NoTheft.src = None
          /\ NoTheft.next = 0 /\ NoTheft.left = 0 /\ NoTheft.limit = 0
          /\ NoTheft.stolen = 0 /\ NoTheft.task = None
      BY DEF NoTheft
    <2>2. Thief(c, to, NoTheft.round, NoTheft.num, NoTheft.src, NoTheft.next, NoTheft.left,
                NoTheft.limit, NoTheft.stolen, NoTheft.task)
      BY <1>NoTheftType, <1>GoesDoes, Zenon
    <2> QED  BY <2>1, <2>2, Zenon
  <1>NextRoundDoes. ASSUME NEW c \in Cpus, NextRound(c), theft[c].round < Rounds
    PROVE  Thief(c, "round", theft[c].round + 1, theft[c].num, None, 0, 0, 0, 0, None)
    <2> USE <1>NextRoundDoes
    <2> DEFINE w == [NoTheft EXCEPT !.round = theft[c].round + 1, !.num = theft[c].num]
    <2>1. theft[c].round + 1 \in 0 .. Rounds /\ theft[c].num \in 0 .. NumCpus
      BY FieldTypes, Bounds
    <2>2. w \in TheftType
      BY <2>1, <1>NoTheftType, Zenon DEF TheftType
    <2>3. /\ w.round = theft[c].round + 1 /\ w.num = theft[c].num /\ w.src = None
          /\ w.next = 0 /\ w.left = 0 /\ w.limit = 0 /\ w.stolen = 0 /\ w.task = None
      BY DEF NoTheft
    <2>4. Goes(c, "round", w) /\ "round" \in CpuPC  BY DEF NextRound, CpuPC
    <2> HIDE DEF w
    <2>5. Thief(c, "round", w.round, w.num, w.src, w.next, w.left, w.limit, w.stolen, w.task)
      BY <2>2, <2>4, <1>GoesDoes, Zenon
    <2> QED  BY <2>3, <2>5, Zenon
  <1>AdvanceDoes. ASSUME NEW c \in Cpus, Advance(c),
           theft[c].num > 0, theft[c].next < theft[c].num, theft[c].left > 0
    PROVE  Thief(c, "victim", theft[c].round, theft[c].num, None,
                 IF theft[c].next + 1 = theft[c].num THEN 0 ELSE theft[c].next + 1,
                 theft[c].left - 1, theft[c].limit, theft[c].stolen, theft[c].task)
    <2> USE <1>AdvanceDoes
    <2> DEFINE x == (theft[c].next + 1) % theft[c].num
               l == theft[c].left - 1
    <2>1. x = IF theft[c].next + 1 = theft[c].num THEN 0 ELSE theft[c].next + 1
      BY FieldTypes
    <2>2. x \in 0 .. NumCpus /\ l \in 0 .. NumCpus
      BY <2>1, FieldTypes, Bounds
    <2>3. /\ None \in Queues \cup {None} /\ "victim" \in CpuPC
          /\ Goes(c, "victim", [theft[c] EXCEPT !.next = x, !.left = l, !.src = None])
      BY Zenon DEF Advance, CpuPC
    <2> HIDE DEF x, l
    <2>4. Thief(c, "victim", theft[c].round, theft[c].num, None, x,
                l, theft[c].limit, theft[c].stolen, theft[c].task)
      BY <2>2, <2>3, <1>SetVictim, Zenon
    <2> QED  BY <2>1, <2>4, Zenon DEF l
  \* Where try_steal goes on without the injector.
  <1>InjectorFailedDoes. ASSUME NEW c \in Cpus, InjectorFailed(c)
    PROVE  IF theft[c].round = Rounds
           THEN Thief(c, "wait", 0, 0, None, 0, 0, 0, 0, None)
           ELSE Thief(c, "round", theft[c].round, theft[c].num, None, theft[c].next,
                      theft[c].left, theft[c].limit, theft[c].stolen, theft[c].task)
    <2> USE <1>InjectorFailedDoes
    <2>1. /\ "wait" \in CpuPC /\ "round" \in CpuPC /\ None \in Queues \cup {None}
          /\ IF theft[c].round = Rounds THEN Goes(c, "wait", NoTheft)
             ELSE Goes(c, "round", [theft[c] EXCEPT !.src = None])
      BY Zenon DEF InjectorFailed, LastRound, StealFailed, CpuPC
    <2> QED  BY <2>1, <1>CleanDoes, <1>SetSrc, Zenon
  <1>Stays. ASSUME NEW c \in Cpus, NEW to \in CpuPC, Goes(c, to, theft[c])
    PROVE  Kept(c, to, theft[c].src)
    <2> USE <1>Stays
    <2>1. theft[c] \in TheftType  BY FieldTypes
    <2> QED  BY <2>1, <1>GoesDoes, Zenon DEF Kept
  <1>TryInjectorThief. ASSUME NEW c \in Cpus, TryInjector(c)
    PROVE  \/ consumer[Injector] = None /\ Kept(c, "inject_len", Injector)
           \/ consumer[Injector] # None /\ theft[c].round = Rounds /\ Cleared(c, "wait")
           \/ consumer[Injector] # None /\ theft[c].round # Rounds /\ Kept(c, "round", None)
    <2> USE <1>TryInjectorThief
    <2>1. \/ consumer[Injector] = None /\ Goes(c, "inject_len", [theft[c] EXCEPT !.src = Injector])
          \/ consumer[Injector] # None /\ InjectorFailed(c)
      BY Zenon DEF TryInjector
    <2>2. "inject_len" \in CpuPC /\ Injector \in Queues \cup {None}
      BY Bounds DEF CpuPC, Injector, Queues
    <2> QED  BY <2>1, <2>2, <1>SetSrc, <1>InjectorFailedDoes, Zenon DEF Kept, Cleared
  <1>InjectorLenThief. ASSUME NEW c \in Cpus, InjectorLen(c)
    PROVE  \/ /\ queued[Injector] > 0
              /\ Thief(c, "steal", theft[c].round, theft[c].num, theft[c].src, theft[c].next,
                       theft[c].left, MaxStolen, theft[c].stolen, theft[c].task)
           \/ queued[Injector] = 0 /\ Kept(c, "release", theft[c].src)
    <2> USE <1>InjectorLenThief
    <2>1. \/ queued[Injector] > 0 /\ Goes(c, "steal", [theft[c] EXCEPT !.limit = MaxStolen])
          \/ queued[Injector] = 0 /\ Goes(c, "release", theft[c])
      BY Zenon DEF InjectorLen
    <2>2. "steal" \in CpuPC /\ "release" \in CpuPC /\ MaxStolen \in Nat
      BY Bounds DEF CpuPC
    <2> QED  BY <2>1, <2>2, <1>SetLimit, <1>Stays, Zenon
  <1>CountWorkersThief. ASSUME NEW c \in Cpus, CountWorkers(c)
    PROVE  \/ Cardinality(online) <= 1 /\ Cleared(c, "wait")
           \/ /\ Cardinality(online) > 1
              /\ Thief(c, "round", theft[c].round, Cardinality(online), theft[c].src, theft[c].next,
                       theft[c].left, theft[c].limit, theft[c].stolen, theft[c].task)
    <2> USE <1>CountWorkersThief
    <2>1. \/ Cardinality(online) <= 1 /\ Goes(c, "wait", NoTheft)
          \/ /\ ~ (Cardinality(online) <= 1)
             /\ Goes(c, "round", [theft[c] EXCEPT !.num = Cardinality(online)])
      BY Zenon DEF CountWorkers, StealFailed
    <2>2. /\ "wait" \in CpuPC /\ "round" \in CpuPC /\ Cardinality(online) \in 0 .. NumCpus
          /\ ~ (Cardinality(online) <= 1) => Cardinality(online) > 1
      BY OnlineFacts DEF CpuPC
    <2> QED  BY <2>1, <2>2, <1>SetNum, <1>CleanDoes, Zenon DEF Cleared
  <1>RoundThief. ASSUME NEW c \in Cpus, Round(c)
    PROVE  \/ theft[c].round = Rounds /\ Kept(c, "inject", theft[c].src)
           \/ /\ theft[c].round # Rounds
              /\ \E start \in 0 .. theft[c].num - 1 :
                    Thief(c, "victim", theft[c].round, theft[c].num, theft[c].src, start,
                          theft[c].num, theft[c].limit, theft[c].stolen, theft[c].task)
    <2> USE <1>RoundThief
    <2>1. /\ "inject" \in CpuPC /\ "victim" \in CpuPC /\ theft[c].num \in 0 .. NumCpus
          /\ \A start \in 0 .. theft[c].num - 1 : start \in 0 .. NumCpus
      BY FieldTypes, Bounds DEF CpuPC
    <2>2. CASE theft[c].round = Rounds
      <3>1. Goes(c, "inject", theft[c])  BY <2>2, Zenon DEF Round, LastRound
      <3> QED  BY <2>1, <2>2, <3>1, <1>Stays, Zenon
    <2>3. CASE theft[c].round # Rounds
      <3>1. PICK start \in 0 .. theft[c].num - 1 :
              Goes(c, "victim", [theft[c] EXCEPT !.next = start, !.left = theft[c].num])
        BY <2>3, Zenon DEF Round, LastRound
      <3>2. Thief(c, "victim", theft[c].round, theft[c].num, theft[c].src, start,
                  theft[c].num, theft[c].limit, theft[c].stolen, theft[c].task)
        BY <2>1, <3>1, <1>SetNext, Zenon
      <3> QED  BY <2>3, <3>2, Zenon
    <2> QED  BY <2>2, <2>3
  <1>VictimThief. ASSUME NEW c \in Cpus, Victim(c), Theft(c, theft[c]), At(c) = "victim"
    PROVE  LET v == Nth(theft[c].next)
           IN  \/ /\ theft[c].left = 0 /\ NewRound(c)
                  /\ consumer' = consumer /\ excused' = excused
               \/ /\ theft[c].left > 0 /\ theft[c].next = id[c] /\ Stepped(c)
                  /\ consumer' = consumer /\ excused' = excused
               \/ /\ theft[c].left > 0 /\ theft[c].next # id[c] /\ MaybeBusy(v) /\ Stepped(c)
                  /\ consumer' = consumer /\ excused' = excused \cup PassedOver(v)
               \/ /\ theft[c].left > 0 /\ theft[c].next # id[c] /\ consumer[v] = None
                  /\ consumer' = [consumer EXCEPT ![v] = c] /\ excused' = excused
                  /\ Kept(c, "victim_len", v)
    <2> USE <1>VictimThief
    <2> DEFINE v == Nth(theft[c].next)
    <2>1. /\ v \in Queues \cup {None} /\ "victim_len" \in CpuPC
          /\ theft[c].num > 0 /\ theft[c].next < theft[c].num /\ theft[c].round < Rounds
      BY VictimFacts DEF CpuPC
    <2>2. \/ /\ theft[c].left = 0 /\ NextRound(c)
             /\ consumer' = consumer /\ excused' = excused
          \/ /\ theft[c].left > 0 /\ theft[c].next = id[c] /\ Advance(c)
             /\ consumer' = consumer /\ excused' = excused
          \/ /\ theft[c].left > 0 /\ theft[c].next # id[c] /\ MaybeBusy(v) /\ Advance(c)
             /\ consumer' = consumer /\ excused' = excused \cup PassedOver(v)
          \/ /\ theft[c].left > 0 /\ theft[c].next # id[c] /\ consumer[v] = None
             /\ consumer' = [consumer EXCEPT ![v] = c] /\ excused' = excused
             /\ Goes(c, "victim_len", [theft[c] EXCEPT !.src = v])
      BY Zenon DEF Victim
    <2> HIDE DEF v
    <2>3. NextRound(c) => NewRound(c)
      BY <2>1, <1>NextRoundDoes, Zenon DEF NewRound
    <2>4. Advance(c) /\ theft[c].left > 0 => Stepped(c)
      BY <2>1, <1>AdvanceDoes, Zenon DEF Stepped
    <2>5. Goes(c, "victim_len", [theft[c] EXCEPT !.src = v]) => Kept(c, "victim_len", v)
      BY <2>1, <1>SetSrc, Zenon DEF Kept
    <2>6. \/ /\ theft[c].left = 0 /\ NewRound(c)
             /\ consumer' = consumer /\ excused' = excused
          \/ /\ theft[c].left > 0 /\ theft[c].next = id[c] /\ Stepped(c)
             /\ consumer' = consumer /\ excused' = excused
          \/ /\ theft[c].left > 0 /\ theft[c].next # id[c] /\ MaybeBusy(v) /\ Stepped(c)
             /\ consumer' = consumer /\ excused' = excused \cup PassedOver(v)
          \/ /\ theft[c].left > 0 /\ theft[c].next # id[c] /\ consumer[v] = None
             /\ consumer' = [consumer EXCEPT ![v] = c] /\ excused' = excused
             /\ Kept(c, "victim_len", v)
      BY <2>2, <2>3, <2>4, <2>5, Zenon
    <2> QED  BY <2>6 DEF v
  <1>VictimLenThief. ASSUME NEW c \in Cpus, VictimLen(c), theft[c].src \in Queues
    PROVE  \/ /\ queued[theft[c].src] > 0
              /\ \E m \in Nat \ {0} :
                   Thief(c, "steal", theft[c].round, theft[c].num, theft[c].src, theft[c].next,
                         theft[c].left, m, theft[c].stolen, theft[c].task)
           \/ queued[theft[c].src] = 0 /\ Kept(c, "release", theft[c].src)
    <2> USE <1>VictimLenThief
    <2> DEFINE m == (queued[theft[c].src] + 1) \div 2
    <2>1. queued[theft[c].src] \in Nat /\ "steal" \in CpuPC /\ "release" \in CpuPC
      BY TypeFields DEF CpuPC
    <2>2. queued[theft[c].src] > 0 => m \in Nat \ {0}
      BY <2>1
    <2>3. \/ queued[theft[c].src] > 0 /\ Goes(c, "steal", [theft[c] EXCEPT !.limit = m])
          \/ queued[theft[c].src] = 0 /\ Goes(c, "release", theft[c])
      BY Zenon DEF VictimLen
    <2> HIDE DEF m
    <2>4. CASE queued[theft[c].src] > 0 /\ Goes(c, "steal", [theft[c] EXCEPT !.limit = m])
      <3>1. m \in Nat \ {0} /\ m \in Nat  BY <2>2, <2>4
      <3>2. Thief(c, "steal", theft[c].round, theft[c].num, theft[c].src, theft[c].next,
                  theft[c].left, m, theft[c].stolen, theft[c].task)
        BY <2>1, <2>4, <3>1, <1>SetLimit, Zenon
      <3> QED  BY <2>4, <3>1, <3>2, Zenon
    <2>5. CASE queued[theft[c].src] = 0 /\ Goes(c, "release", theft[c])
      BY <2>1, <2>5, <1>Stays, Zenon
    <2> QED  BY <2>3, <2>4, <2>5
  <1>StealThief. ASSUME NEW c \in Cpus, Steal(c), theft[c].src \in Queues
    PROVE  LET q == theft[c].src
           IN  \/ /\ theft[c].stolen <= theft[c].limit /\ queue[q] # <<>>
                  /\ Head(queue[q]) \in Tasks
                  /\ Thief(c, "take", theft[c].round, theft[c].num, q, theft[c].next,
                           theft[c].left, theft[c].limit, theft[c].stolen, Head(queue[q]))
                  /\ queue' = [queue EXCEPT ![q] = Tail(queue[q])]
                  /\ excused' = excused \ {Head(queue[q])}
               \/ /\ ~ (theft[c].stolen <= theft[c].limit) \/ queue[q] = <<>>
                  /\ Kept(c, "release", q)
                  /\ queue' = queue /\ excused' = excused
    <2> USE <1>StealThief
    <2> DEFINE q == theft[c].src
               t == Head(queue[q])
    <2>1. queue[q] \in Seq(Tasks) /\ "take" \in CpuPC /\ "release" \in CpuPC
      BY TypeFields DEF CpuPC
    <2>2. queue[q] # <<>> => t \in Tasks
      BY <2>1
    <2>3. CASE theft[c].stolen <= theft[c].limit /\ queue[q] # <<>>
      <3>1. /\ Goes(c, "take", [theft[c] EXCEPT !.task = t])
            /\ queue' = [queue EXCEPT ![q] = Tail(queue[q])]
            /\ excused' = excused \ {t}
        BY <2>3, Zenon DEF Steal
      <3>2. t \in Tasks  BY <2>2, <2>3
      <3> HIDE DEF t
      <3>3. Thief(c, "take", theft[c].round, theft[c].num, theft[c].src, theft[c].next,
                  theft[c].left, theft[c].limit, theft[c].stolen, t)
        BY <2>1, <3>1, <3>2, <1>SetTask, Zenon
      <3> QED  BY <2>3, <3>1, <3>2, <3>3, Zenon DEF t
    <2>4. CASE ~ (theft[c].stolen <= theft[c].limit /\ queue[q] # <<>>)
      <3>1. Goes(c, "release", theft[c]) /\ queue' = queue /\ excused' = excused
        BY <2>4, Zenon DEF Steal
      <3>2. Kept(c, "release", theft[c].src)
        BY <2>1, <3>1, <1>Stays, Zenon
      <3> QED  BY <2>4, <3>1, <3>2, Zenon
    <2> QED  BY <2>3, <2>4
  <1>ReleaseThief. ASSUME NEW c \in Cpus, Release(c), Theft(c, theft[c]), At(c) = "release"
    PROVE  \/ theft[c].stolen > 0 /\ Cleared(c, "tick")
           \/ /\ theft[c].stolen = 0 /\ theft[c].src = Injector
              /\ \/ theft[c].limit > 0 /\ Cleared(c, "wait")
                 \/ theft[c].limit = 0 /\ theft[c].round = Rounds /\ Cleared(c, "wait")
                 \/ theft[c].limit = 0 /\ theft[c].round # Rounds /\ Kept(c, "round", None)
           \/ /\ theft[c].stolen = 0 /\ theft[c].src # Injector
              /\ \/ theft[c].limit > 0 /\ NewRound(c)
                 \/ theft[c].limit = 0 /\ Stepped(c)
    <2> USE <1>ReleaseThief
    <2>1. theft[c].limit \in Nat /\ "tick" \in CpuPC /\ "wait" \in CpuPC
      BY FieldTypes DEF CpuPC
    <2>2. theft[c].limit = 0 <=> ~ (theft[c].limit > 0)
      BY <2>1
    <2>3. \/ theft[c].stolen > 0 /\ Goes(c, "tick", NoTheft)
          \/ /\ theft[c].stolen = 0 /\ theft[c].src = Injector
             /\ \/ theft[c].limit > 0 /\ Goes(c, "wait", NoTheft)
                \/ theft[c].limit = 0 /\ InjectorFailed(c)
          \/ /\ theft[c].stolen = 0 /\ theft[c].src # Injector
             /\ \/ theft[c].limit > 0 /\ NextRound(c)
                \/ theft[c].limit = 0 /\ Advance(c)
      BY <2>2, Zenon DEF Release, StealFailed
    <2>4. /\ Goes(c, "tick", NoTheft) => Cleared(c, "tick")
          /\ Goes(c, "wait", NoTheft) => Cleared(c, "wait")
      BY <2>1, <1>CleanDoes, Zenon DEF Cleared
    <2>5. InjectorFailed(c) => \/ theft[c].round = Rounds /\ Cleared(c, "wait")
                               \/ theft[c].round # Rounds /\ Kept(c, "round", None)
      BY <1>InjectorFailedDoes, Zenon DEF Cleared, Kept
    <2>6. theft[c].src # Injector => theft[c].round < Rounds
      BY DEF Theft, Fits
    <2>7. theft[c].src # Injector /\ NextRound(c) => NewRound(c)
      BY <2>6, <1>NextRoundDoes, Zenon DEF NewRound
    <2>8. theft[c].src # Injector /\ theft[c].limit = 0 =>
            theft[c].num > 0 /\ theft[c].next < theft[c].num /\ theft[c].left > 0
      BY FieldTypes DEF Theft, Fits
    <2>9. theft[c].src # Injector /\ theft[c].limit = 0 /\ Advance(c) => Stepped(c)
      BY <2>8, <1>AdvanceDoes, Zenon DEF Stepped
    <2> QED  BY <2>3, <2>4, <2>5, <2>7, <2>9, Zenon
  <1>TakeThief. ASSUME NEW c \in Cpus, Take(c)
    PROVE  Thief(c, "count", theft[c].round, theft[c].num, theft[c].src, theft[c].next,
                 theft[c].left, theft[c].limit, theft[c].stolen + 1, None)
    <2> USE <1>TakeThief
    <2> DEFINE w == [[theft[c] EXCEPT !.task = None] EXCEPT !.stolen = theft[c].stolen + 1]
    <2>1. theft[c] \in TheftType /\ theft[c].stolen + 1 \in Nat /\ "count" \in CpuPC
      BY FieldTypes DEF CpuPC
    <2>2. w \in TheftType  BY <2>1, Zenon DEF TheftType
    <2>3. /\ w.round = theft[c].round /\ w.num = theft[c].num /\ w.src = theft[c].src
          /\ w.next = theft[c].next /\ w.left = theft[c].left /\ w.limit = theft[c].limit
          /\ w.stolen = theft[c].stolen + 1 /\ w.task = None
      BY <2>1, Zenon DEF TheftType
    <2>4. theft' = [theft EXCEPT ![c] = w]
      BY <2>1, TypeFields, Zenon DEF Take, TheftType
    <2>5. Goes(c, "count", w)
      BY <2>4, Zenon DEF Take, CallSchedule, Goes
    <2> HIDE DEF w
    <2>6. Thief(c, "count", w.round, w.num, w.src, w.next, w.left, w.limit, w.stolen, w.task)
      BY <2>1, <2>2, <2>5, <1>GoesDoes, Zenon
    <2> QED  BY <2>3, <2>6, Zenon
  <1>1. ASSUME NEW c \in Cpus
        PROVE  /\ Victim(c) => Theft(c, theft[c]) /\ At(c) = "victim"
               /\ Release(c) => Theft(c, theft[c]) /\ At(c) = "release"
               /\ VictimLen(c) \/ Steal(c) => theft[c].src \in Queues
    <2>1. /\ Victim(c) => pc[c] = "victim"
          /\ Release(c) => pc[c] = "release"
          /\ VictimLen(c) \/ Steal(c) => pc[c] \in {"victim_len", "steal"}
      BY <1>1, Zenon DEF Victim, Release, VictimLen, Steal
    <2>2. Locals(c) /\ (theft[c].src # None => theft[c].src \in Queues)  BY <1>1, SelfFacts
    <2> QED  BY <2>1, <2>2 DEF Locals, Hand, Holding, At
  <1>TryInjector. ASSUME NEW c \in Cpus, TryInjector(c)  PROVE TryInjectorMoves(c)
    BY <1>1, <1>TryInjector, <1>TryInjectorThief, Zenon DEF TryInjectorMoves
  <1>InjectorLen. ASSUME NEW c \in Cpus, InjectorLen(c)  PROVE InjectorLenMoves(c)
    BY <1>1, <1>InjectorLen, <1>InjectorLenThief, Zenon DEF InjectorLenMoves
  <1>CountWorkers. ASSUME NEW c \in Cpus, CountWorkers(c)  PROVE CountWorkersMoves(c)
    BY <1>1, <1>CountWorkers, <1>CountWorkersThief, Zenon DEF CountWorkersMoves
  <1>Round. ASSUME NEW c \in Cpus, Round(c)  PROVE RoundMoves(c)
    BY <1>1, <1>Round, <1>RoundThief, Zenon DEF RoundMoves
  <1>Victim. ASSUME NEW c \in Cpus, Victim(c)  PROVE VictimMoves(c)
    BY <1>1, <1>Victim, <1>VictimThief, Zenon DEF VictimMoves
  <1>VictimLen. ASSUME NEW c \in Cpus, VictimLen(c)  PROVE VictimLenMoves(c)
    BY <1>1, <1>VictimLen, <1>VictimLenThief, Zenon DEF VictimLenMoves
  <1>Steal. ASSUME NEW c \in Cpus, Steal(c)  PROVE StealMoves(c)
    BY <1>1, <1>Steal, <1>StealThief, Zenon DEF StealMoves
  <1>Release. ASSUME NEW c \in Cpus, Release(c)  PROVE ReleaseMoves(c)
    BY <1>1, <1>Release, <1>ReleaseThief, Zenon DEF ReleaseMoves
  <1>Take. ASSUME NEW c \in Cpus, Take(c)  PROVE TakeMoves(c)
    BY <1>1, <1>Take, <1>TakeThief, Zenon DEF TakeMoves
  <1> QED  BY <1>TryInjector, <1>InjectorLen, <1>CountWorkers, <1>Round, <1>Victim, <1>VictimLen, <1>Steal, <1>Release, <1>Take, Zenon

\* Every step keeps what each actor has to itself.
LEMMA OwnStep ==
  ASSUME SetFacts, TypeOK, Own, Binding, Next
  PROVE  Own'
  <1>Others. ASSUME NEW a \in Actors, Frame(a), Call(a)', a \in Cpus => Locals(a)',
                    online' = online \/ Cardinality(online)' = Cardinality(online) + 1
             PROVE  Own'
    <2> USE <1>Others
    <2>1. ASSUME NEW b \in Actors, b # a  PROVE Call(b)'
      <3>1. Call(b) /\ pc'[b] = pc[b] /\ sched'[b] = sched[b]
        BY <2>1, Zenon DEF Own, Calls, Frame
      <3> QED  BY <3>1, Zenon DEF Call
    <2>2. ASSUME NEW d \in Cpus, d # a  PROVE Hand(d)' /\ Theft(d, theft[d])'
      <3>1. /\ Hand(d) /\ Theft(d, theft[d]) /\ pc'[d] = pc[d] /\ sched'[d] = sched[d]
            /\ cur'[d] = cur[d] /\ polled'[d] = polled[d] /\ id'[d] = id[d]
            /\ theft'[d] = theft[d] /\ (d \in online' <=> d \in online)
        BY <2>2, Zenon DEF Own, Hands, Thefts, Frame, Actors
      <3>2. At(d)' = At(d)  BY <3>1 DEF At
      <3>3. Hand(d)'  BY <3>1, <3>2, Zenon DEF Hand
      <3>4. theft[d].num <= Cardinality(online)'
        <4>1. theft[d].num <= Cardinality(online)  BY <3>1 DEF Theft
        <4>2. Cardinality(online)' = Cardinality(online) \/ Cardinality(online)' = Cardinality(online) + 1
          BY Zenon
        <4>3. Cardinality(online) \in Nat /\ theft[d].num \in Nat  BY OnlineFacts, FieldTypes
        <4> QED BY <4>1, <4>2, <4>3
      <3>5. Theft(d, theft[d])'
        BY <3>1, <3>2, <3>4, Zenon DEF Theft
      <3> QED  BY <3>3, <3>5
    <2> QED  BY <2>1, <2>2, Zenon DEF Own, Calls, Hands, Thefts, Locals
  \* A worker that is not in try_steal, or just begins it.
  <1>Clean. ASSUME NEW c \in Cpus, Clean(theft[c]), theft'[c] = theft[c],
                   At(c)' \notin Stealing \ {"inject"}, At(c)' # "steal",
                   online' = online \/ Cardinality(online)' = Cardinality(online) + 1
            PROVE  Theft(c, theft[c])'
    <2> USE <1>Clean
    <2>1. \A at : at \notin Stealing \ {"inject"} => Fits(at, 0, 0, None, 0, 0, 0, 0)
      BY DEF Fits, Stealing, Holding
    <2>2. 0 <= Cardinality(online)'
      <3>1. Cardinality(online)' = Cardinality(online) \/ Cardinality(online)' = Cardinality(online) + 1
        BY Zenon
      <3>2. Cardinality(online) \in Nat  BY OnlineFacts
      <3> QED  BY <3>1, <3>2
    <2>3. ~ (pc'[c] \in {"count", "enqueue"} /\ sched'[c].ret = "steal")  BY Zenon DEF At
    <2> QED  BY <2>1, <2>2, <2>3, Zenon DEF Theft, Clean
  \* The steps of try_steal, but for the move of a stolen task.
  <1>Thieves. ASSUME NEW c \in Cpus,
                     \/ TryInjector(c) \/ InjectorLen(c) \/ CountWorkers(c) \/ Round(c)
                     \/ Victim(c) \/ VictimLen(c) \/ Steal(c) \/ Release(c)
              PROVE  Own'
    <2>0. c \in Cpus  BY <1>Thieves
    <2> USE <2>0
    <2>1. Locals(c) /\ c \in Actors  BY SelfFacts
    <2>2. /\ pc[c] \in {"inject", "inject_len", "round", "victim", "victim_len", "steal", "release"}
          /\ UNCHANGED <<online, id, cur, polled, sched>>
      BY <1>Thieves, Zenon DEF TryInjector, InjectorLen, CountWorkers, Round, Victim, VictimLen,
                               Steal, Release
    <2> DEFINE r == theft[c].round
               n == theft[c].num
               s == theft[c].src
               x == theft[c].next
               l == theft[c].left
               m == theft[c].limit
               k == theft[c].stolen
    <2>3. /\ At(c) = pc[c] /\ Fits(pc[c], r, n, s, x, l, m, k) /\ theft[c].task = None
          /\ (s # None <=> pc[c] \in Holding) /\ n <= Cardinality(online)
      <3>1. At(c) = pc[c]  BY <2>2 DEF At
      <3> QED  BY <2>1, <2>2, <3>1 DEF Locals, Hand, Theft
    <2>4. /\ r \in Nat /\ n \in Nat /\ x \in Nat /\ l \in Nat /\ m \in Nat /\ k \in Nat
          /\ Cardinality(online) \in Nat /\ Injector # None
          /\ Rounds \in Nat \ {0} /\ MaxStolen \in Nat \ {0}
      BY SelfFacts
    <2> HIDE DEF r, n, s, x, l, m, k
    <2>Moved. ASSUME NEW to \in Stealing \cup {"tick", "wait"}, pc'[c] = to,
                     \A a \in Actors \ {c} : pc'[a] = pc[a],
                     \A d \in Cpus \ {c} : theft'[d] = theft[d],
                     theft'[c].task # None <=> to = "take",
                     theft'[c].src # None <=> to \in Holding,
                     to \in {"tick", "wait"} => Clean(theft'[c]),
                     At(c)' = to => Theft(c, theft[c])'
              PROVE  Own'
      <3>1. /\ to \in CpuPC /\ to \notin {"count", "enqueue", "uncount", "poll", "new", "register"}
            /\ pc[c] \notin {"count", "enqueue", "uncount", "poll", "new", "register"}
        BY <2>2, <2>Moved DEF Stealing, Holding, CpuPC
      <3>2. At(c)' = to  BY <2>Moved, <3>1, Zenon DEF At
      <3>3. Call(c)'  BY <2>1, <2>2, <2>Moved, <3>1, Zenon DEF Call, Locals
      <3>4. Hand(c)'  BY <2>1, <2>2, <2>3, <2>Moved, <3>1, <3>2 DEF Hand, Locals, Starting
      <3>5. Frame(c)  BY <2>2, <2>Moved, Zenon DEF Frame
      <3> QED  BY <2>1, <2>2, <2>Moved, <3>2, <3>3, <3>4, <3>5, <1>Others, Zenon DEF Locals
    <2>Over. ASSUME NEW to \in {"tick", "wait"}, Cleared(c, to)  PROVE Own'
      <3>1. /\ pc'[c] = to /\ Clean(theft'[c])
            /\ \A a \in Actors \ {c} : pc'[a] = pc[a]
            /\ \A d \in Cpus \ {c} : theft'[d] = theft[d]
            /\ theft'[c].num = 0 /\ theft'[c].stolen = 0
        BY <2>Over, Zenon DEF Cleared, Thief, Clean
      <3>2. to # "take" /\ to \notin Holding /\ to \in Stealing \cup {"tick", "wait"}
        BY <2>Over DEF Holding
      <3>3. Fits(to, 0, 0, None, 0, 0, 0, 0)  BY <2>Over DEF Fits
      <3>4. 0 <= Cardinality(online)'  BY <2>2, <2>4
      <3>5. pc'[c] \notin {"count", "enqueue"}  BY <2>Over, <3>1
      <3>6. At(c)' = to => Theft(c, theft[c])'
        BY <3>1, <3>3, <3>4, <3>5, Zenon DEF Theft, Clean
      <3>7. theft'[c].task = None /\ theft'[c].src = None  BY <3>1, Zenon DEF Clean
      <3> QED  BY <3>1, <3>2, <3>6, <3>7, <2>Moved, Zenon
    <2>On. ASSUME NEW to \in Stealing, NEW r1, NEW n1, NEW s1, NEW x1, NEW l1, NEW m1, NEW k1, NEW t1,
                  Thief(c, to, r1, n1, s1, x1, l1, m1, k1, t1), Fits(to, r1, n1, s1, x1, l1, m1, k1),
                  t1 # None <=> to = "take", s1 # None <=> to \in Holding, n1 <= Cardinality(online)
           PROVE  Own'
      <3>1. /\ pc'[c] = to
            /\ \A a \in Actors \ {c} : pc'[a] = pc[a]
            /\ \A d \in Cpus \ {c} : theft'[d] = theft[d]
            /\ theft'[c].round = r1 /\ theft'[c].num = n1 /\ theft'[c].src = s1
            /\ theft'[c].next = x1 /\ theft'[c].left = l1 /\ theft'[c].limit = m1
            /\ theft'[c].stolen = k1 /\ theft'[c].task = t1
        BY <2>On, Zenon DEF Thief
      <3>2. to \notin {"tick", "wait", "count", "enqueue"}  BY <2>On DEF Stealing, Holding
      <3>3. n1 <= Cardinality(online)'  BY <2>2, <2>On, Zenon
      <3>4. At(c)' = to => Theft(c, theft[c])'
        BY <2>On, <3>1, <3>2, <3>3, Zenon DEF Theft
      <3> QED  BY <2>On, <3>1, <3>2, <3>4, <2>Moved, Zenon
    <2>Places. /\ {"inject", "inject_len", "round", "victim", "victim_len", "steal", "take", "release"} \subseteq Stealing
               /\ {"inject_len", "victim_len", "steal", "take", "release"} \subseteq Holding
               /\ {"inject", "round", "victim"} \cap Holding = {}
      BY DEF Stealing, Holding
    <2>TryInjector. CASE TryInjector(c)
      <3>1. pc[c] = "inject"  BY <2>TryInjector, Zenon DEF TryInjector
      <3>2. CASE Kept(c, "inject_len", Injector)
        <4>1. Fits("inject_len", r, n, Injector, x, l, m, k)  BY <2>3, <3>1 DEF Fits
        <4> QED  BY <2>3, <2>4, <2>Places, <3>2, <4>1, <2>On DEF Kept, r, n, s, x, l, m, k
      <3>3. CASE r # Rounds /\ Kept(c, "round", None)
        <4>1. Fits("round", r, n, None, x, l, m, k)  BY <2>3, <3>1, <3>3 DEF Fits
        <4> QED  BY <2>3, <2>4, <2>Places, <3>3, <4>1, <2>On DEF Kept, r, n, s, x, l, m, k
      <3> QED  BY <2>TryInjector, <3>2, <3>3, <2>Over, ThiefMoves, Zenon DEF TryInjectorMoves, r
    <2>InjectorLen. CASE InjectorLen(c)
      <3>1. pc[c] = "inject_len"  BY <2>InjectorLen, Zenon DEF InjectorLen
      <3>2. Fits("steal", r, n, s, x, l, MaxStolen, k)  BY <2>3, <2>4, <3>1 DEF Fits
      <3>3. Fits("release", r, n, s, x, l, m, k)  BY <2>3, <2>4, <3>1 DEF Fits
      <3>4. s # None  BY <2>3, <2>Places, <3>1
      <3>5. CASE Thief(c, "steal", r, n, s, x, l, MaxStolen, k, theft[c].task)
        BY <2>3, <2>Places, <3>2, <3>4, <3>5, <2>On
      <3>6. CASE Kept(c, "release", s)
        BY <2>3, <2>Places, <3>3, <3>4, <3>6, <2>On DEF Kept, r, n, s, x, l, m, k
      <3> QED  BY <2>InjectorLen, <3>5, <3>6, ThiefMoves, Zenon DEF InjectorLenMoves, r, n, s, x, l, m, k
    <2>CountWorkers. CASE CountWorkers(c)
      <3>1. pc[c] = "round"  BY <2>CountWorkers, Zenon DEF CountWorkers
      <3>2. CASE Cardinality(online) > 1 /\
                  Thief(c, "round", r, Cardinality(online), s, x, l, m, k, theft[c].task)
        <4>1. Fits("round", r, Cardinality(online), s, x, l, m, k)
          BY <2>3, <2>4, <3>1, <3>2 DEF Fits
        <4> QED  BY <2>3, <2>4, <2>Places, <3>1, <3>2, <4>1, <2>On
      <3> QED  BY <2>CountWorkers, <3>2, <2>Over, ThiefMoves, Zenon DEF CountWorkersMoves, r, s, x, l, m, k
    <2>Round. CASE Round(c)
      <3>1. pc[c] = "round" /\ n > 0  BY <2>Round, Zenon DEF Round, n
      <3>2. CASE r = Rounds /\ Kept(c, "inject", s)
        <4>1. Fits("inject", r, n, s, x, l, m, k)  BY <2>3, <2>4, <3>1, <3>2 DEF Fits
        <4> QED  BY <2>3, <2>Places, <3>1, <3>2, <4>1, <2>On DEF Kept, r, n, s, x, l, m, k
      <3>3. CASE r # Rounds /\ \E start \in 0 .. n - 1 :
                   Thief(c, "victim", r, n, s, start, n, m, k, theft[c].task)
        <4>1. PICK start \in 0 .. n - 1 : Thief(c, "victim", r, n, s, start, n, m, k, theft[c].task)
          BY <3>3
        <4>2. r <= Rounds  BY FieldTypes, <2>4 DEF r
        <4>3. Fits("victim", r, n, s, start, n, m, k)  BY <2>3, <2>4, <3>1, <3>3, <4>2 DEF Fits
        <4> QED  BY <2>3, <2>Places, <3>1, <4>1, <4>3, <2>On
      <3> QED  BY <2>Round, <3>2, <3>3, ThiefMoves, Zenon DEF RoundMoves, r, n, s, m, k
    <2>Victim. CASE Victim(c)
      <3>1. pc[c] = "victim"  BY <2>Victim, Zenon DEF Victim
      <3>2. Nth(x) # None /\ Nth(x) # Injector
        <4>1. Nth(x) \in Cpus  BY <2>1, <2>3, <3>1, VictimFacts, Zenon DEF Locals, x
        <4> QED  BY <4>1, Numbers, Zenon
      <3>3. CASE NewRound(c)
        <4>1. Fits("round", r + 1, n, None, 0, 0, 0, 0)  BY <2>3, <2>4, <3>1 DEF Fits
        <4> QED  BY <2>3, <2>Places, <3>3, <4>1, <2>On DEF NewRound, r, n
      <3>4. CASE l > 0 /\ Stepped(c)
        <4> DEFINE y == IF x + 1 = n THEN 0 ELSE x + 1
        <4>1. Fits("victim", r, n, None, y, l - 1, m, k)  BY <2>3, <2>4, <3>1, <3>4 DEF Fits
        <4> QED  BY <2>3, <2>Places, <3>4, <4>1, <2>On DEF Stepped, r, n, s, x, l, m, k
      <3>5. CASE l > 0 /\ Kept(c, "victim_len", Nth(x))
        <4>1. Fits("victim_len", r, n, Nth(x), x, l, m, k)  BY <2>3, <2>4, <3>1, <3>2, <3>5 DEF Fits
        <4> QED  BY <2>3, <2>Places, <3>2, <3>5, <4>1, <2>On DEF Kept, r, n, s, x, l, m, k
      <3> QED  BY <2>Victim, <3>3, <3>4, <3>5, ThiefMoves, Zenon DEF VictimMoves, x, l
    <2>VictimLen. CASE VictimLen(c)
      <3>1. pc[c] = "victim_len"  BY <2>VictimLen, Zenon DEF VictimLen
      <3>2. s # None  BY <2>3, <2>Places, <3>1
      <3>3. CASE \E m1 \in Nat \ {0} : Thief(c, "steal", r, n, s, x, l, m1, k, theft[c].task)
        <4>1. PICK m1 \in Nat \ {0} : Thief(c, "steal", r, n, s, x, l, m1, k, theft[c].task)
          BY <3>3
        <4>2. Fits("steal", r, n, s, x, l, m1, k)  BY <2>3, <2>4, <3>1 DEF Fits
        <4> QED  BY <2>3, <2>Places, <3>2, <4>1, <4>2, <2>On
      <3>4. CASE Kept(c, "release", s)
        <4>1. Fits("release", r, n, s, x, l, m, k)  BY <2>3, <2>4, <3>1 DEF Fits
        <4> QED  BY <2>3, <2>Places, <3>2, <3>4, <4>1, <2>On DEF Kept, r, n, s, x, l, m, k
      <3> QED  BY <2>VictimLen, <3>3, <3>4, ThiefMoves, Zenon DEF VictimLenMoves, r, n, s, x, l, k
    <2>Steal. CASE Steal(c)
      <3>1. pc[c] = "steal"  BY <2>Steal, Zenon DEF Steal
      <3>2. s # None  BY <2>3, <2>Places, <3>1
      <3>3. CASE Head(queue[s]) \in Tasks /\ Thief(c, "take", r, n, s, x, l, m, k, Head(queue[s]))
        <4>1. Fits("take", r, n, s, x, l, m, k)  BY <2>3, <3>1 DEF Fits
        <4>2. Head(queue[s]) # None  BY <3>3, Numbers, Zenon
        <4> QED  BY <2>3, <2>Places, <3>2, <3>3, <4>1, <4>2, <2>On
      <3>4. CASE Kept(c, "release", s)
        <4>1. Fits("release", r, n, s, x, l, m, k)  BY <2>3, <2>4, <3>1 DEF Fits
        <4> QED  BY <2>3, <2>Places, <3>2, <3>4, <4>1, <2>On DEF Kept, r, n, s, x, l, m, k
      <3> QED  BY <2>Steal, <3>3, <3>4, ThiefMoves, Zenon DEF StealMoves, r, n, s, x, l, m, k
    <2>Release. CASE Release(c)
      <3>1. pc[c] = "release"  BY <2>Release, Zenon DEF Release
      <3>2. CASE k = 0 /\ s = Injector /\ m = 0 /\ r # Rounds /\ Kept(c, "round", None)
        <4>1. Fits("round", r, n, None, x, l, m, k)  BY <2>3, <2>4, <3>1, <3>2 DEF Fits
        <4> QED  BY <2>3, <2>Places, <3>2, <4>1, <2>On DEF Kept, r, n, s, x, l, m, k
      <3>3. CASE s # Injector /\ NewRound(c)
        <4>1. Fits("round", r + 1, n, None, 0, 0, 0, 0)  BY <2>3, <2>4, <3>1, <3>3 DEF Fits
        <4> QED  BY <2>3, <2>Places, <3>3, <4>1, <2>On DEF NewRound, r, n
      <3>4. CASE s # Injector /\ m = 0 /\ Stepped(c)
        <4> DEFINE y == IF x + 1 = n THEN 0 ELSE x + 1
        <4>1. Fits("victim", r, n, None, y, l - 1, m, k)  BY <2>3, <2>4, <3>1, <3>4 DEF Fits
        <4> QED  BY <2>3, <2>Places, <3>4, <4>1, <2>On DEF Stepped, r, n, s, x, l, m, k
      <3> QED  BY <2>Release, <3>2, <3>3, <3>4, <2>Over, ThiefMoves, Zenon DEF ReleaseMoves, r, s, m, k
    <2> QED  BY <1>Thieves, <2>TryInjector, <2>InjectorLen, <2>CountWorkers, <2>Round, <2>Victim,
                <2>VictimLen, <2>Steal, <2>Release
  \* The steps of tick_n, and those between it and sleeping.
  <1>Ticks. ASSUME NEW c \in Cpus,
                   \/ Run(c) \/ Tick(c) \/ Uncount(c) \/ PollReady(c) \/ Check(c)
                   \/ Wait(c) \/ WakeUp(c) \/ PollClose(c)
            PROVE  Own'
    <2>0. c \in Cpus  BY <1>Ticks
    <2> USE <2>0
    <2>1. Locals(c) /\ c \in Actors  BY SelfFacts
    <2>Moved. ASSUME NEW to \in {"tick", "uncount", "poll", "check", "inject", "asleep", "done"},
                     pc[c] \in {"run", "tick", "uncount", "poll", "check", "wait", "asleep"},
                     pc' = [pc EXCEPT ![c] = to], UNCHANGED <<online, id, theft, sched>>,
                     \A d \in Cpus \ {c} : cur'[d] = cur[d] /\ polled'[d] = polled[d],
                     cur'[c] # None <=> to \in {"uncount", "poll"},
                     to \in {"uncount", "poll"} => polled'[c] < TickBudget
              PROVE  Own'
      <3>1. /\ pc'[c] = to /\ \A a \in Actors \ {c} : pc'[a] = pc[a]
        BY <2>1, <2>Moved, TypeFields, Zenon
      <3>2. /\ to \in CpuPC /\ to \notin {"count", "enqueue", "new", "register"} \cup (Stealing \ {"inject"})
            /\ pc[c] \notin {"count", "enqueue", "new", "register"} \cup Stealing
        BY <2>Moved DEF Stealing, Holding, CpuPC
      <3>3. At(c)' = to /\ At(c) = pc[c]  BY <3>1, <3>2, Zenon DEF At
      <3>4. Call(c)'  BY <2>1, <2>Moved, <3>1, <3>2, Zenon DEF Call, Locals
      <3>5. Hand(c)'
        BY <2>1, <2>Moved, <3>1, <3>2, <3>3 DEF Hand, Locals, Starting, Stealing, Holding
      <3>6. Theft(c, theft[c])'
        BY <2>1, <2>Moved, <3>1, <3>2, <3>3, <1>Clean, Zenon DEF Locals, Hand
      <3>7. Frame(c)  BY <2>Moved, <3>1, Zenon DEF Frame
      <3>8. online' = online  BY <2>Moved, SMTT(30)
      <3> QED  BY <2>1, <3>4, <3>5, <3>6, <3>7, <3>8, <1>Others, Zenon DEF Locals
    <2>2. pc[c] \notin {"count", "enqueue"} =>
            /\ cur[c] # None <=> pc[c] \in {"uncount", "poll"}
            /\ pc[c] \in {"uncount", "poll"} => polled[c] < TickBudget
      BY <2>1, Zenon DEF Locals, Hand, At
    <2>Run. CASE Run(c)
      BY <2>Run, <2>2, <2>Moved, Zenon DEF Run, Goto
    <2>Tick. CASE Tick(c)
      <3>1. /\ pc[c] = "tick" /\ UNCHANGED <<online, id, polled, theft, sched>>
            /\ IF polled[c] < TickBudget /\ consumer[c] = None /\ queue[c] # <<>>
               THEN cur' = [cur EXCEPT ![c] = Head(queue[c])] /\ pc' = [pc EXCEPT ![c] = "uncount"]
               ELSE cur' = cur /\ pc' = [pc EXCEPT ![c] = "check"]
        BY <2>Tick, Zenon DEF Tick
      <3>2. cur \in [Cpus -> Tasks \cup {None}] /\ queue[c] \in Seq(Tasks) /\ None \notin Tasks
        BY TypeFields, Numbers, Zenon
      <3> QED  BY <2>2, <3>1, <3>2, <2>Moved
    <2>Uncount. CASE Uncount(c)
      BY <2>Uncount, <2>2, <2>Moved DEF Uncount, Goto
    <2>PollReady. CASE PollReady(c)
      <3>1. cur \in [Cpus -> Tasks \cup {None}] /\ polled \in [Cpus -> 0 .. TickBudget]
        BY TypeFields, Zenon
      <3> QED  BY <2>PollReady, <2>2, <2>Moved, <3>1 DEF PollReady, Goto
    <2>Check. CASE Check(c)
      <3>1. polled \in [Cpus -> 0 .. TickBudget]  BY TypeFields, Zenon
      <3> QED  BY <2>Check, <2>2, <2>Moved, <3>1, Zenon DEF Check, Goto
    <2>Wait. CASE Wait(c)
      BY <2>Wait, <2>2, <2>Moved DEF Wait
    <2>WakeUp. CASE WakeUp(c)
      BY <2>WakeUp, <2>2, <2>Moved, Zenon DEF WakeUp, Goto
    <2>PollClose. CASE PollClose(c)
      <3>1. pc' = [pc EXCEPT ![c] = "poll"] /\ pc[c] = "poll"
        BY <2>PollClose, TypeFields, Zenon DEF PollClose
      <3> QED  BY <2>PollClose, <2>2, <2>Moved, <3>1, Zenon DEF PollClose
    <2> QED  BY <1>Ticks, <2>Run, <2>Tick, <2>Uncount, <2>PollReady, <2>Check, <2>Wait, <2>WakeUp,
                <2>PollClose
  <1>SameOwn. ASSUME UNCHANGED <<pc, online, id, cur, polled, theft, sched>>
    PROVE  Own'
    <2> USE <1>SameOwn
    <2>1. \A a : At(a)' = At(a)  BY DEF At
    <2>2. \A a : Call(a)' <=> Call(a)  BY DEF Call
    <2>3. \A c : Hand(c)' <=> Hand(c)  BY <2>1 DEF Hand
    <2>4. \A c : Theft(c, theft[c])' <=> Theft(c, theft[c])  BY <2>1 DEF Theft
    <2> QED  BY <2>2, <2>3, <2>4, Zenon DEF Own, Calls, Hands, Thefts
  \* A trap handler has nothing but its call of schedule.
  <1>HandlerOwn. ASSUME NEW i \in Irqs, Call(i)',
           \A b \in Actors \ {i} : pc'[b] = pc[b] /\ sched'[b] = sched[b],
           UNCHANGED <<online, id, cur, polled, theft>>
    PROVE  Own'
    <2> USE <1>HandlerOwn
    <2>1. i \in Actors /\ i \notin Cpus  BY Numbers, Zenon
    <2>2. Frame(i)  BY Zenon DEF Frame
    <2>3. online' = online  OBVIOUS
    <2> QED  BY <2>1, <2>2, <2>3, <1>Others, Zenon
  \* A worker calls schedule.
  <1>Calling. ASSUME NEW c \in Cpus, NEW t \in Tasks, NEW q \in Queues,
                     NEW ret \in {"new", "poll", "tick", "asleep"},
                     pc[c] \in {"new", "poll", "asleep"}, ret = "new" <=> pc[c] = "new",
                     pc'[c] = "count" /\ sched'[c].task = t /\ sched'[c].dest = q /\ sched'[c].ret = ret,
                     \A b \in Actors \ {c} : pc'[b] = pc[b] /\ sched'[b] = sched[b],
                     q = Injector => ret = "new", ret = "asleep" => c \in Driving,
                     UNCHANGED <<online, id, theft>>,
                     \A d \in Cpus \ {c} : cur'[d] = cur[d] /\ polled'[d] = polled[d],
                     cur'[c] # None <=> ret = "poll", ret = "poll" => polled'[c] < TickBudget
              PROVE  Own'
    <2> USE <1>Calling
    <2>1. Locals(c) /\ c \in Actors  BY SelfFacts
    <2>2. At(c) = pc[c] /\ At(c)' = ret  BY DEF At
    <2>3. Call(c)'  BY DEF Call
    <2>3a. /\ "count" \in CpuPC /\ pc[c] \notin Stealing /\ ret \notin Stealing /\ ret # "take"
           /\ ret \notin Holding /\ (ret \in {"uncount", "poll"} <=> ret = "poll")
           /\ (ret \in Starting <=> pc[c] \in Starting) /\ (ret = "new" <=> pc[c] = "new")
      BY DEF CpuPC, Stealing, Holding, Starting
    <2>4. Hand(c)'
      <3>1. Hand(c) /\ Clean(theft[c])  BY <2>1, <2>2, <2>3a, Zenon DEF Locals, Hand
      <3>2. /\ theft'[c] = theft[c] /\ online' = online /\ id' = id /\ pc'[c] = "count"
            /\ (cur'[c] # None <=> ret = "poll") /\ (ret = "poll" => polled'[c] < TickBudget)
        BY Zenon
      <3> QED  BY <2>2, <2>3a, <3>1, <3>2, Zenon DEF Hand, Clean
    <2>5. Theft(c, theft[c])'
      BY <2>1, <2>2, <2>3a, <1>Clean, Zenon DEF Locals, Hand
    <2>6. Frame(c)  BY ZenonT(30) DEF Frame
    <2>7. online' = online  OBVIOUS
    <2> QED  BY <2>1, <2>3, <2>4, <2>5, <2>6, <2>7, <1>Others, Zenon DEF Locals
  <1>PollPendingOwn. ASSUME NEW c \in Cpus, PollPending(c)  PROVE Own'
    <2>0. c \in Cpus  BY <1>PollPendingOwn
    <2> USE <2>0
    <2>1. Locals(c) /\ c \in Actors  BY SelfFacts
    <2>2. /\ pc[c] = "poll" /\ UNCHANGED <<online, id, theft>>
          /\ cur' = [cur EXCEPT ![c] = None] /\ polled' = [polled EXCEPT ![c] = polled[c] + 1]
          /\ \/ pc' = [pc EXCEPT ![c] = "tick"] /\ sched' = sched
             \/ CallSchedule(c, cur[c], c, "tick")
      BY <1>PollPendingOwn, Zenon DEF PollPending
    <2>3. cur[c] # None  BY <2>1, <2>2 DEF Locals, Hand, At
    <2>4. /\ cur[c] \in Tasks /\ c \in Queues /\ c # Injector /\ "tick" \in CpuPC \cup IrqPC
          /\ cur'[c] = None
          /\ \A d \in Cpus \ {c} : cur'[d] = cur[d] /\ polled'[d] = polled[d]
      BY <2>2, <2>3, TypeFields, Numbers DEF CpuPC
    <2>5. CASE pc' = [pc EXCEPT ![c] = "tick"] /\ sched' = sched
      <3>1. pc'[c] = "tick" /\ \A b \in Actors \ {c} : pc'[b] = pc[b]
        BY <2>1, <2>5, TypeFields, Zenon
      <3>2. At(c)' = "tick" /\ At(c) = "poll"  BY <2>2, <3>1 DEF At
      <3>3. Call(c)'  BY <2>1, <2>2, <2>5, <3>1 DEF Locals, Call
      <3>4. Hand(c)'
        BY <2>1, <2>2, <2>4, <3>1, <3>2, SMTT(30) DEF Locals, Hand, Starting, Stealing, Holding, CpuPC
      <3>5. Theft(c, theft[c])'
        BY <2>1, <2>2, <2>5, <3>1, <3>2, <1>Clean DEF Locals, Hand, Stealing, Holding
      <3>6. Frame(c)  BY <2>2, <2>4, <2>5, <3>1, Zenon DEF Frame
      <3>7. online' = online  BY <2>2, SMTT(30)
      <3> QED  BY <2>1, <3>3, <3>4, <3>5, <3>6, <3>7, <1>Others, Zenon DEF Locals
    <2>6. CASE CallSchedule(c, cur[c], c, "tick")
      <3>1. /\ pc'[c] = "count" /\ sched'[c].task = cur[c] /\ sched'[c].dest = c
            /\ sched'[c].ret = "tick"
            /\ \A b \in Actors \ {c} : pc'[b] = pc[b] /\ sched'[b] = sched[b]
        BY <2>1, <2>4, <2>6, CallDoes
      <3> QED  BY <2>2, <2>4, <3>1, <1>Calling, SMTT(30)
    <2> QED  BY <2>2, <2>5, <2>6
  <1>SpawnOwn. ASSUME NEW c \in Cpus, NEW t \in Tasks,
                      SpawnEarly(c, t) \/ PollSpawn(c, t) \/ DriveSpawn(c, t)
               PROVE  Own'
    <2>0. c \in Cpus  BY <1>SpawnOwn
    <2> USE <2>0
    <2>1. Locals(c) /\ c \in Actors  BY SelfFacts
    <2>2. /\ pc[c] \in {"new", "poll", "asleep"} /\ (pc[c] = "asleep" => c \in Driving)
          /\ CallSchedule(c, t, IF c \in online THEN c ELSE Injector, pc[c])
          /\ UNCHANGED <<online, id, theft, cur, polled>>
      BY <1>SpawnOwn, Zenon DEF SpawnEarly, PollSpawn, DriveSpawn, Spawn
    <2>3. /\ cur[c] # None <=> pc[c] = "poll"
          /\ pc[c] = "poll" => polled[c] < TickBudget
          /\ c \in online <=> pc[c] # "new"
      BY <2>1, <2>2, SMTT(30) DEF Locals, Hand, At, Starting
    <2> DEFINE q == IF c \in online THEN c ELSE Injector
    <2>4. /\ q \in Queues /\ (q = Injector => pc[c] = "new") /\ pc[c] \in CpuPC \cup IrqPC
          /\ pc[c] \in {"new", "poll", "tick", "asleep"}
      BY <2>2, <2>3, Numbers DEF CpuPC
    <2> HIDE DEF q
    <2>5. CallSchedule(c, t, q, pc[c])  BY <2>2 DEF q
    <2>6. /\ pc'[c] = "count" /\ sched'[c].task = t /\ sched'[c].dest = q /\ sched'[c].ret = pc[c]
          /\ \A b \in Actors \ {c} : pc'[b] = pc[b] /\ sched'[b] = sched[b]
      BY <1>SpawnOwn, <2>1, <2>4, <2>5, CallDoes, Zenon
    <2> QED  BY <1>SpawnOwn, <2>2, <2>3, <2>4, <2>6, <1>Calling, Zenon
  <1>PollWakeOwn. ASSUME NEW c \in Cpus, NEW t \in Tasks, PollWake(c, t)  PROVE Own'
    <2>0. c \in Cpus  BY <1>PollWakeOwn
    <2> USE <2>0
    <2>1. Locals(c) /\ c \in Actors  BY SelfFacts
    <2>2. /\ pc[c] = "poll" /\ WakeTask(c, t, "poll") /\ "poll" \in CpuPC \cup IrqPC
          /\ UNCHANGED <<online, id, cur, polled, theft>>
      BY <1>PollWakeOwn, Zenon DEF PollWake, CpuPC
    <2>3. cur[c] # None /\ polled[c] < TickBudget
      BY <2>1, <2>2 DEF Locals, Hand, At
    <2>4. CASE pc' = pc /\ sched' = sched
      BY <2>2, <2>4, <1>SameOwn, ZenonT(30)
    <2>5. CASE /\ pc'[c] = "count" /\ sched'[c].task = t /\ sched'[c].dest = bound[t]
               /\ sched'[c].ret = "poll" /\ bound[t] \in Queues /\ bound[t] # Injector
               /\ \A b \in Actors \ {c} : pc'[b] = pc[b] /\ sched'[b] = sched[b]
      <3>1. /\ "poll" \in {"new", "poll", "tick", "asleep"} /\ pc[c] \in {"new", "poll", "asleep"}
            /\ ("poll" = "new" <=> pc[c] = "new") /\ "poll" # "asleep"
            /\ UNCHANGED <<online, id, theft>>
            /\ (cur'[c] # None <=> "poll" = "poll") /\ polled'[c] < TickBudget
            /\ \A d \in Cpus \ {c} : cur'[d] = cur[d] /\ polled'[d] = polled[d]
        BY <2>2, <2>3, Zenon
      <3> QED  BY <1>PollWakeOwn, <2>5, <3>1, <1>Calling, Zenon
    <2>6. \/ pc' = pc /\ sched' = sched
          \/ /\ pc'[c] = "count" /\ sched'[c].task = t /\ sched'[c].dest = bound[t]
             /\ sched'[c].ret = "poll" /\ bound[t] \in Queues /\ bound[t] # Injector
             /\ \A b \in Actors \ {c} : pc'[b] = pc[b] /\ sched'[b] = sched[b]
      BY <1>PollWakeOwn, <2>1, <2>2, WakeDoes, Zenon
    <2> QED  BY <2>4, <2>5, <2>6, Zenon
  <1>DriveWakeOwn. ASSUME NEW c \in Cpus, NEW t \in Tasks, DriveWake(c, t)  PROVE Own'
    <2>0. c \in Cpus  BY <1>DriveWakeOwn
    <2> USE <2>0
    <2>1. Locals(c) /\ c \in Actors  BY SelfFacts
    <2>2. /\ c \in Driving /\ pc[c] = "asleep" /\ WakeTask(c, t, "asleep") /\ "asleep" \in CpuPC \cup IrqPC
          /\ UNCHANGED <<online, id, cur, polled, theft>>
      BY <1>DriveWakeOwn, Zenon DEF DriveWake, CpuPC
    <2>3. cur[c] = None
      BY <2>1, <2>2 DEF Locals, Hand, At
    <2>4. CASE pc' = pc /\ sched' = sched
      BY <2>2, <2>4, <1>SameOwn, ZenonT(30)
    <2>5. CASE /\ pc'[c] = "count" /\ sched'[c].task = t /\ sched'[c].dest = bound[t]
               /\ sched'[c].ret = "asleep" /\ bound[t] \in Queues /\ bound[t] # Injector
               /\ \A b \in Actors \ {c} : pc'[b] = pc[b] /\ sched'[b] = sched[b]
      <3>1. /\ "asleep" \in {"new", "poll", "tick", "asleep"} /\ pc[c] \in {"new", "poll", "asleep"}
            /\ ("asleep" = "new" <=> pc[c] = "new") /\ c \in Driving
            /\ UNCHANGED <<online, id, theft>> /\ "asleep" # "poll"
            /\ (cur'[c] # None <=> "asleep" = "poll")
            /\ \A d \in Cpus \ {c} : cur'[d] = cur[d] /\ polled'[d] = polled[d]
        BY <2>2, <2>3, Zenon
      <3> QED  BY <1>DriveWakeOwn, <2>5, <3>1, <1>Calling, Zenon
    <2>6. \/ pc' = pc /\ sched' = sched
          \/ /\ pc'[c] = "count" /\ sched'[c].task = t /\ sched'[c].dest = bound[t]
             /\ sched'[c].ret = "asleep" /\ bound[t] \in Queues /\ bound[t] # Injector
             /\ \A b \in Actors \ {c} : pc'[b] = pc[b] /\ sched'[b] = sched[b]
      BY <1>DriveWakeOwn, <2>1, <2>2, WakeDoes, Zenon
    <2> QED  BY <2>4, <2>5, <2>6, Zenon
  <1>CountOwn. ASSUME NEW a \in Actors, Count(a)
    PROVE  Own'
    <2> USE <1>CountOwn
    <2>1. /\ pc[a] = "count" /\ pc'[a] = "enqueue" /\ Frame(a) /\ Call(a)
          /\ UNCHANGED <<online, id, cur, polled, theft, sched>>
      BY TypeFields, Zenon DEF Count, Goto, Frame, Own, Calls
    <2>2. Call(a)'  BY <2>1, Zenon DEF Call
    <2>3. ASSUME a \in Cpus  PROVE Locals(a)'
      <3>1. Locals(a)  BY <2>3, SelfFacts
      <3>2. At(a)' = At(a)  BY <2>1 DEF At
      <3>3. Hand(a)'  BY <2>1, <3>1, <3>2, Zenon DEF Locals, Hand, CpuPC
      <3>4. Theft(a, theft[a])'  BY <2>1, <3>1, <3>2, Zenon DEF Locals, Theft
      <3> QED  BY <2>2, <3>3, <3>4 DEF Locals
    <2>4. online' = online  BY <2>1
    <2> QED  BY <2>1, <2>2, <2>3, <2>4, <1>Others, Zenon
  <1>EnqueueOwn. ASSUME NEW a \in Actors, Enqueue(a)
    PROVE  Own'
    <2> USE <1>EnqueueOwn
    <2>1. /\ pc[a] = "enqueue" /\ pc'[a] = sched[a].ret /\ Frame(a) /\ Call(a)
          /\ UNCHANGED <<online, id, cur, polled, theft>> /\ sched'[a] = NoSched
      BY TypeFields, Zenon DEF Enqueue, Goto, Frame, Own, Calls
    <2>2. /\ sched[a].ret \in {"new", "poll", "tick", "steal", "asleep", "handler"}
          /\ a \in Cpus => sched[a].ret \in {"new", "poll", "tick", "steal", "asleep"}
      BY <2>1 DEF Call
    <2>3. Call(a)'  BY <2>1, <2>2, SMTT(30) DEF Call
    <2>4. ASSUME a \in Cpus  PROVE Locals(a)'
      <3>1. Locals(a)  BY <2>4, SelfFacts
      <3>2. At(a)' = At(a) /\ pc'[a] \notin {"count", "enqueue"}  BY <2>1, <2>2 DEF At
      <3>3. pc'[a] \in CpuPC  BY <2>1, <2>2, <2>4 DEF CpuPC
      <3>4. Hand(a)'  BY <2>1, <3>1, <3>2, <3>3, Zenon DEF Locals, Hand
      <3>5. Theft(a, theft[a])'  BY <2>1, <3>1, <3>2, Zenon DEF Locals, Theft
      <3> QED  BY <2>3, <3>4, <3>5 DEF Locals
    <2>5. online' = online  BY <2>1
    <2> QED  BY <2>1, <2>3, <2>4, <2>5, <1>Others, SMTT(30)
  <1>WorkerIdOwn. ASSUME NEW c \in Cpus, WorkerId(c)
    PROVE  Own'
    <2> USE <1>WorkerIdOwn
    <2>1. Locals(c) /\ c \in Actors /\ Cardinality(online) \in Nat  BY SelfFacts
    <2>2. /\ pc[c] = "new" /\ pc'[c] = "register" /\ Frame(c) /\ id'[c] = Cardinality(online)
          /\ UNCHANGED <<online, cur, polled, theft, sched>>
      BY <2>1, TypeFields, Zenon DEF WorkerId, Goto, Frame
    <2>3. Call(c)'  BY <2>1, <2>2 DEF Locals, Call
    <2>4. id'[c] # None  BY <2>1, <2>2, SMTT(30) DEF None
    <2>5. Hand(c)' /\ Theft(c, theft[c])'
      <3>1. At(c) = "new" /\ At(c)' = "register"  BY <2>2 DEF At
      <3>2. Hand(c)'
        BY <2>1, <2>2, <2>4, <3>1 DEF Locals, Hand, Stealing, Holding, Starting, CpuPC
      <3>3. Theft(c, theft[c])'
        BY <2>1, <2>2, <3>1, <1>Clean DEF Locals, Hand, Stealing, Holding
      <3> QED  BY <3>2, <3>3
    <2>6. online' = online  BY <2>2
    <2> QED  BY <2>1, <2>2, <2>3, <2>5, <2>6, <1>Others, SMTT(30) DEF Locals
  <1>RegisterOwn. ASSUME NEW c \in Cpus, Register(c)
    PROVE  Own'
    <2> USE <1>RegisterOwn
    <2>1. Locals(c) /\ c \in Actors /\ Cardinality(online) \in Nat  BY SelfFacts
    <2>2. /\ pc[c] = "register" /\ pc'[c] = "run" /\ Frame(c) /\ online' = online \cup {c}
          /\ UNCHANGED <<id, cur, polled, theft, sched>>
      BY <2>1, TypeFields, ZenonT(30) DEF Register, Goto, Frame
    <2>3. Call(c)'  BY <2>1, <2>2, ZenonT(30) DEF Locals, Call
    <2>4. Cardinality(online)' = Cardinality(online) + 1
      BY <2>2, NextId, ZenonT(30) DEF At, Starting
    <2>5. Hand(c)'
      BY <2>1, <2>2, ZenonT(30) DEF Locals, Hand, At, Stealing, Holding, Starting, CpuPC
    <2>6. Theft(c, theft[c])'
      <3>1. At(c) = "register" /\ At(c)' = "run"  BY <2>2 DEF At
      <3> QED  BY <2>1, <2>2, <2>4, <3>1, <1>Clean, Zenon DEF Locals, Hand, Stealing, Holding
    <2> QED  BY <2>1, <2>2, <2>3, <2>4, <2>5, <2>6, <1>Others, Zenon DEF Locals
  <1>IrqWakeOwn. ASSUME NEW i \in Irqs, NEW t \in Tasks, IrqWake(i, t)
    PROVE  Own'
    <2> USE <1>IrqWakeOwn
    <2>1. i \in Actors /\ i \notin Cpus  BY Numbers, Zenon
    <2>2. /\ pc[i] = "handler" /\ WakeTask(i, t, "handler") /\ "handler" \in CpuPC \cup IrqPC
          /\ UNCHANGED <<online, id, cur, polled, theft>>
      BY Zenon DEF IrqWake, IrqPC
    <2>3. CASE pc' = pc /\ sched' = sched
      BY <2>2, <2>3, <1>SameOwn, Zenon
    <2>4. CASE /\ pc'[i] = "count" /\ sched'[i].task = t /\ sched'[i].dest = bound[t]
               /\ sched'[i].ret = "handler" /\ bound[t] \in Queues /\ bound[t] # Injector
               /\ \A b \in Actors \ {i} : pc'[b] = pc[b] /\ sched'[b] = sched[b]
      <3>1. Call(i)'  BY <2>1, <2>4 DEF Call
      <3> QED  BY <2>2, <2>4, <3>1, <1>HandlerOwn, ZenonT(30)
    <2> QED  BY <2>1, <2>2, <2>3, <2>4, WakeDoes, Zenon
  <1>WakeOneOwn. ASSUME NEW i \in Irqs, WakeOne(i)
    PROVE  Own'
    <2> USE <1>WakeOneOwn
    <2>1. i \in Actors /\ Call(i)  BY Numbers, Zenon DEF Own, Calls
    <2>2. /\ pc[i] = "handler" /\ pc'[i] = "idle"
          /\ \A b \in Actors \ {i} : pc'[b] = pc[b] /\ sched'[b] = sched[b]
          /\ UNCHANGED <<online, id, cur, polled, theft, sched>>
      BY <2>1, TypeFields, Zenon DEF WakeOne, Goto
    <2>3. Call(i)'  BY <2>1, <2>2 DEF Call
    <2> QED  BY <2>2, <2>3, <1>HandlerOwn, Zenon
  <1>InterruptOwn. ASSUME NEW i \in Irqs, Interrupt(i)
    PROVE  Own'
    <2> USE <1>InterruptOwn
    <2>1. i \in Actors /\ Call(i)  BY Numbers, Zenon DEF Own, Calls
    <2>2. /\ pc[i] = "idle" /\ pc'[i] = "handler"
          /\ \A b \in Actors \ {i} : pc'[b] = pc[b] /\ sched'[b] = sched[b]
          /\ UNCHANGED <<online, id, cur, polled, theft, sched>>
      BY <2>1, TypeFields, Zenon DEF Interrupt, Goto
    <2>3. Call(i)'  BY <2>1, <2>2 DEF Call
    <2> QED  BY <2>2, <2>3, <1>HandlerOwn, Zenon
  <1>TakeOwn. ASSUME NEW c \in Cpus, Take(c)
    PROVE  Own'
    <2> USE <1>TakeOwn
    <2>1. Locals(c) /\ c \in Actors /\ Cardinality(online) \in Nat /\ theft[c].stolen \in Nat
      BY SelfFacts
    <2>2. /\ pc[c] = "take" /\ CallSchedule(c, theft[c].task, c, "steal")
          /\ UNCHANGED <<online, id, cur, polled>>
      BY ZenonT(30) DEF Take
    <2>3. theft[c].task \in Tasks /\ c \in Queues /\ "steal" \in CpuPC \cup IrqPC /\ c # Injector
      <3>1. theft[c].task # None  BY <2>1, <2>2, Zenon DEF Locals, Hand, At
      <3>2. theft[c].task \in Tasks \cup {None}  BY FieldTypes, Zenon
      <3> QED  BY <3>1, <3>2, Numbers, Zenon DEF CpuPC
    <2>4. /\ pc'[c] = "count" /\ sched'[c].task = theft[c].task /\ sched'[c].dest = c
          /\ sched'[c].ret = "steal"
          /\ \A b \in Actors \ {c} : pc'[b] = pc[b] /\ sched'[b] = sched[b]
      BY <2>1, <2>2, <2>3, CallDoes, SMTT(30)
    <2>5. Call(c)'  BY <2>3, <2>4 DEF Call
    <2>6. At(c) = "take" /\ At(c)' = "steal"  BY <2>2, <2>4 DEF At
    <2>7. /\ \A d \in Cpus \ {c} : theft'[d] = theft[d]
          /\ theft'[c].round = theft[c].round /\ theft'[c].num = theft[c].num
          /\ theft'[c].src = theft[c].src /\ theft'[c].limit = theft[c].limit
          /\ theft'[c].next = theft[c].next /\ theft'[c].left = theft[c].left
          /\ theft'[c].stolen = theft[c].stolen + 1 /\ theft'[c].task = None
      BY ThiefMoves, Zenon DEF TakeMoves, Thief
    <2>8. Frame(c)  BY <2>2, <2>4, <2>7, Zenon DEF Frame
    <2>9. Hand(c)'
      BY <2>1, <2>2, <2>4, <2>6, <2>7, ZenonT(30) DEF Locals, Hand, Holding, Stealing, Starting, CpuPC
    <2>10. Theft(c, theft[c])'
      <3>1. /\ Fits("take", theft[c].round, theft[c].num, theft[c].src, theft[c].next,
                    theft[c].left, theft[c].limit, theft[c].stolen)
            /\ theft[c].num <= Cardinality(online)
        BY <2>1, <2>6, Zenon DEF Locals, Theft
      <3>2. /\ Fits("steal", theft[c].round, theft[c].num, theft[c].src, theft[c].next,
                    theft[c].left, theft[c].limit, theft[c].stolen + 1)
            /\ theft[c].stolen + 1 > 0
        BY <2>1, <3>1, TakeFits, Zenon
      <3> QED  BY <2>2, <2>6, <2>7, <3>1, <3>2, Zenon DEF Theft
    <2>11. online' = online  BY <2>2
    <2> QED  BY <2>1, <2>5, <2>8, <2>9, <2>10, <2>11, <1>Others, Zenon DEF Locals
  <1> QED
    BY <1>Thieves, <1>Ticks, <1>PollPendingOwn, <1>SpawnOwn, <1>PollWakeOwn, <1>DriveWakeOwn, <1>CountOwn, <1>EnqueueOwn,
       <1>WorkerIdOwn, <1>RegisterOwn, <1>IrqWakeOwn, <1>WakeOneOwn, <1>InterruptOwn, <1>TakeOwn,
       Numbers, Zenon
       DEF Next, CpuProgress, CpuChoice, IrqProgress

\* Every step keeps the types.
LEMMA TypeStep ==
  ASSUME SetFacts, TypeOK, Own, Binding, QueuedCounts, Next
  PROVE  TypeOK'
  <1>Thieves. ASSUME NEW c \in Cpus,
               \/ TryInjector(c) \/ InjectorLen(c) \/ CountWorkers(c) \/ Round(c)
               \/ Victim(c) \/ VictimLen(c) \/ Steal(c) \/ Release(c)
         PROVE  TypeOK'
    <2>0. c \in Cpus  BY <1>Thieves
    <2> USE <2>0
    <2>TryInjector. CASE TryInjector(c)
      <3> USE <2>TryInjector
      <3>1. pc' \in [Actors -> CpuPC \cup IrqPC] /\ theft' \in [Cpus -> TheftType]
        <4>1. pc[c] = "inject"  BY ZenonT(30) DEF TryInjector
        <4>2. At(c) = "inject" /\ Locals(c)  BY <4>1, SelfFacts, Zenon DEF At
        <4>3. Theft(c, theft[c]) /\ ("inject" \in Holding => theft[c].src \in Queues)
          BY <4>2, SelfFacts, Zenon DEF Locals, Hand
        <4> QED  BY <4>2, <4>3, ThiefMoves, Zenon DEF TryInjectorMoves, Thief, Kept, Cleared, Holding
      <3>2. consumer' \in [Queues -> Cpus \cup {None}]
        <4>1. consumer' = [consumer EXCEPT ![Injector] = c] \/ consumer' = consumer
          BY Zenon DEF TryInjector
        <4>2. consumer \in [Queues -> Cpus \cup {None}]  BY TypeFields, Zenon
        <4> QED  BY <4>1, <4>2
      <3>3. excused' \subseteq Tasks
        BY TypeFields, Zenon DEF TryInjector, PassedOver
      <3>4. UNCHANGED <<online, id, cur, polled, sched, queue, queued, bound, task, sleepers, notified>>
        BY Zenon DEF TryInjector
      <3> QED  BY <3>1, <3>2, <3>3, <3>4, TypeFields, Zenon DEF TypeOK, SchedType
    <2>InjectorLen. CASE InjectorLen(c)
      <3> USE <2>InjectorLen
      <3>1. pc' \in [Actors -> CpuPC \cup IrqPC] /\ theft' \in [Cpus -> TheftType]
        <4>1. pc[c] = "inject_len"  BY Zenon DEF InjectorLen
        <4>2. At(c) = "inject_len" /\ Locals(c)  BY <4>1, SelfFacts DEF At
        <4>3. Theft(c, theft[c]) /\ ("inject_len" \in Holding => theft[c].src \in Queues)
          BY <4>2, SelfFacts, Zenon DEF Locals, Hand
        <4> QED  BY <4>2, <4>3, ThiefMoves, Zenon DEF InjectorLenMoves, Thief, Kept, Holding
      <3>2. UNCHANGED <<online, id, cur, polled, sched, queue, queued, consumer, bound, task, sleepers, notified, excused>>
        BY Zenon DEF InjectorLen
      <3> QED  BY <3>1, <3>2, TypeFields, Zenon DEF TypeOK, SchedType
    <2>CountWorkers. CASE CountWorkers(c)
      <3> USE <2>CountWorkers
      <3>1. pc' \in [Actors -> CpuPC \cup IrqPC] /\ theft' \in [Cpus -> TheftType]
        <4>1. pc[c] = "round"  BY Zenon DEF CountWorkers
        <4>2. At(c) = "round" /\ Locals(c)  BY <4>1, SelfFacts DEF At
        <4>3. Theft(c, theft[c]) /\ ("round" \in Holding => theft[c].src \in Queues)
          BY <4>2, SelfFacts, Zenon DEF Locals, Hand
        <4> QED  BY <4>2, <4>3, ThiefMoves, Zenon DEF CountWorkersMoves, Thief, Cleared, Holding
      <3>2. UNCHANGED <<online, id, cur, polled, sched, queue, queued, consumer, bound, task, sleepers, notified, excused>>
        BY Zenon DEF CountWorkers
      <3> QED  BY <3>1, <3>2, TypeFields, Zenon DEF TypeOK, SchedType
    <2>Round. CASE Round(c)
      <3> USE <2>Round
      <3>1. pc' \in [Actors -> CpuPC \cup IrqPC] /\ theft' \in [Cpus -> TheftType]
        <4>1. pc[c] = "round"  BY Zenon DEF Round
        <4>2. At(c) = "round" /\ Locals(c)  BY <4>1, SelfFacts DEF At
        <4>3. Theft(c, theft[c]) /\ ("round" \in Holding => theft[c].src \in Queues)
          BY <4>2, SelfFacts, Zenon DEF Locals, Hand
        <4> QED  BY <4>2, <4>3, ThiefMoves, Zenon DEF RoundMoves, Thief, Kept, Holding
      <3>2. UNCHANGED <<online, id, cur, polled, sched, queue, queued, consumer, bound, task, sleepers, notified, excused>>
        BY Zenon DEF Round
      <3> QED  BY <3>1, <3>2, TypeFields, Zenon DEF TypeOK, SchedType
    <2>Victim. CASE Victim(c)
      <3> USE <2>Victim
      <3>1. pc' \in [Actors -> CpuPC \cup IrqPC] /\ theft' \in [Cpus -> TheftType]
        <4>1. pc[c] = "victim"  BY Zenon DEF Victim
        <4>2. At(c) = "victim" /\ Locals(c)  BY <4>1, SelfFacts DEF At
        <4>3. Theft(c, theft[c]) /\ ("victim" \in Holding => theft[c].src \in Queues)
          BY <4>2, SelfFacts, Zenon DEF Locals, Hand
        <4> QED  BY <4>2, <4>3, ThiefMoves, Zenon DEF VictimMoves, Thief, Kept, Stepped, NewRound, Holding
      <3>2. consumer' \in [Queues -> Cpus \cup {None}] /\ excused' \subseteq Tasks
        <4>1. pc[c] = "victim"  BY Zenon DEF Victim
        <4>2. Nth(theft[c].next) \in Queues
          BY <4>1, SelfFacts, VictimFacts, Numbers DEF Locals, At
        <4>3. \/ UNCHANGED <<consumer, excused>>
              \/ consumer' = consumer /\ excused' = excused \cup PassedOver(Nth(theft[c].next))
              \/ consumer' = [consumer EXCEPT ![Nth(theft[c].next)] = c] /\ excused' = excused
          BY Zenon DEF Victim
        <4>4. PassedOver(Nth(theft[c].next)) \subseteq Tasks  BY Zenon DEF PassedOver
        <4>5. c \in Cpus  OBVIOUS
        <4> QED  BY <4>2, <4>3, <4>4, <4>5, TypeFields
      <3>3. UNCHANGED <<online, id, cur, polled, sched, queue, queued, bound, task, sleepers, notified>>
        BY Zenon DEF Victim
      <3> QED  BY <3>1, <3>2, <3>3, TypeFields, Zenon DEF TypeOK, SchedType
    <2>VictimLen. CASE VictimLen(c)
      <3> USE <2>VictimLen
      <3>1. pc' \in [Actors -> CpuPC \cup IrqPC] /\ theft' \in [Cpus -> TheftType]
        <4>1. pc[c] = "victim_len"  BY Zenon DEF VictimLen
        <4>2. At(c) = "victim_len" /\ Locals(c)  BY <4>1, SelfFacts DEF At
        <4>3. Theft(c, theft[c]) /\ ("victim_len" \in Holding => theft[c].src \in Queues)
          BY <4>2, SelfFacts, Zenon DEF Locals, Hand
        <4> QED  BY <4>2, <4>3, ThiefMoves, Zenon DEF VictimLenMoves, Thief, Kept, Holding
      <3>2. UNCHANGED <<online, id, cur, polled, sched, queue, queued, consumer, bound, task, sleepers, notified, excused>>
        BY Zenon DEF VictimLen
      <3> QED  BY <3>1, <3>2, TypeFields, Zenon DEF TypeOK, SchedType
    <2>Steal. CASE Steal(c)
      <3> USE <2>Steal
      <3>1. pc' \in [Actors -> CpuPC \cup IrqPC] /\ theft' \in [Cpus -> TheftType]
        <4>1. pc[c] = "steal"  BY Zenon DEF Steal
        <4>2. At(c) = "steal" /\ Locals(c)  BY <4>1, SelfFacts DEF At
        <4>3. Theft(c, theft[c]) /\ ("steal" \in Holding => theft[c].src \in Queues)
          BY <4>2, SelfFacts, Zenon DEF Locals, Hand
        <4> QED  BY <4>2, <4>3, ThiefMoves, Zenon DEF StealMoves, Thief, Kept, Holding
      <3>2. queue' \in [Queues -> Seq(Tasks)]
        <4>1. pc[c] = "steal"  BY Zenon DEF Steal
        <4>2. theft[c].src \in Queues
          BY <4>1, SelfFacts DEF Locals, Hand, At, Holding
        <4>3. queue[theft[c].src] \in Seq(Tasks)  BY <4>2, TypeFields
        <4>4. queue[theft[c].src] # <<>> => Tail(queue[theft[c].src]) \in Seq(Tasks)
          BY <4>3
        <4> QED  BY <4>4, TypeFields, Zenon DEF Steal
      <3>3. excused' \subseteq Tasks
        BY TypeFields, Zenon DEF Steal
      <3>4. UNCHANGED <<online, id, cur, polled, sched, queued, consumer, bound, task, sleepers, notified>>
        BY Zenon DEF Steal
      <3> QED  BY <3>1, <3>2, <3>3, <3>4, TypeFields, Zenon DEF TypeOK, SchedType
    <2>Release. CASE Release(c)
      <3> USE <2>Release
      <3>1. pc' \in [Actors -> CpuPC \cup IrqPC] /\ theft' \in [Cpus -> TheftType]
        <4>1. pc[c] = "release"  BY Zenon DEF Release
        <4>2. At(c) = "release" /\ Locals(c)  BY <4>1, SelfFacts DEF At
        <4>3. Theft(c, theft[c]) /\ ("release" \in Holding => theft[c].src \in Queues)
          BY <4>2, SelfFacts, Zenon DEF Locals, Hand
        <4> QED  BY <4>2, <4>3, ThiefMoves, Zenon DEF ReleaseMoves, Thief, Kept, Cleared, Stepped, NewRound, Holding
      <3>2. consumer' \in [Queues -> Cpus \cup {None}]
        BY TypeFields, Zenon DEF Release
      <3>3. UNCHANGED <<online, id, cur, polled, sched, queue, queued, bound, task, sleepers, notified, excused>>
        BY Zenon DEF Release
      <3> QED  BY <3>1, <3>2, <3>3, TypeFields, Zenon DEF TypeOK, SchedType
    <2> QED  BY <1>Thieves, <2>TryInjector, <2>InjectorLen, <2>CountWorkers, <2>Round, <2>Victim, <2>VictimLen, <2>Steal, <2>Release
  <1>Tick. ASSUME NEW c \in Cpus,
               \/ Run(c) \/ Tick(c) \/ Uncount(c) \/ PollReady(c)
               \/ PollPending(c) \/ Check(c) \/ Wait(c) \/ WakeUp(c)
               \/ PollClose(c)
         PROVE  TypeOK'
    <2>0. c \in Cpus  BY <1>Tick
    <2> USE <2>0
    <2>Run. CASE Run(c)
      <3> USE <2>Run
      <3>1. pc' \in [Actors -> CpuPC \cup IrqPC]
        BY TypeFields, Numbers, Zenon DEF Run, Goto, CpuPC, IrqPC
      <3>2. UNCHANGED <<online, id, cur, polled, theft, sched, queue, queued, consumer, bound, task, sleepers, notified, excused>>
        BY Zenon DEF Run
      <3> QED  BY <3>1, <3>2, TypeFields, Zenon DEF TypeOK, SchedType
    <2>Tick. CASE Tick(c)
      <3> USE <2>Tick
      <3>1. pc' \in [Actors -> CpuPC \cup IrqPC]
        <4>1. \E to \in CpuPC : pc' = [pc EXCEPT ![c] = to]
          BY Zenon DEF Tick, CpuPC
        <4>2. pc \in [Actors -> CpuPC \cup IrqPC] /\ c \in Actors
          BY TypeFields, Numbers, Zenon
        <4> QED  BY <4>1, <4>2
      <3>2. cur' \in [Cpus -> Tasks \cup {None}] /\ queue' \in [Queues -> Seq(Tasks)] /\ excused' \subseteq Tasks
        <4>1. c \in Queues /\ queue[c] \in Seq(Tasks)  BY TypeFields, Numbers, Zenon
        <4>2. queue[c] # <<>> => Head(queue[c]) \in Tasks /\ Tail(queue[c]) \in Seq(Tasks)
          BY <4>1
        <4>3. CASE queue[c] = <<>>
          <5>1. cur' = cur /\ queue' = queue /\ excused' = excused  BY <4>3, Zenon DEF Tick
          <5> QED  BY <5>1, TypeFields, Zenon
        <4>4. CASE queue[c] # <<>>
          <5>1. \/ cur' = cur /\ queue' = queue /\ excused' = excused
                \/ /\ cur' = [cur EXCEPT ![c] = Head(queue[c])]
                   /\ queue' = [queue EXCEPT ![c] = Tail(queue[c])]
                   /\ excused' = excused \ {Head(queue[c])}
            BY Zenon DEF Tick
          <5>2. /\ cur \in [Cpus -> Tasks \cup {None}] /\ queue \in [Queues -> Seq(Tasks)]
                /\ excused \subseteq Tasks
            BY TypeFields, Zenon
          <5> QED  BY <4>2, <4>4, <5>1, <5>2, Zenon
        <4> QED  BY <4>3, <4>4
      <3>3. UNCHANGED <<online, id, polled, theft, sched, queued, consumer, bound, task, sleepers, notified>>
        BY Zenon DEF Tick
      <3> QED  BY <3>1, <3>2, <3>3, TypeFields, Zenon DEF TypeOK, SchedType
    <2>Uncount. CASE Uncount(c)
      <3> USE <2>Uncount
      <3>1. pc' \in [Actors -> CpuPC \cup IrqPC]
        BY TypeFields, Numbers, Zenon DEF Uncount, Goto, CpuPC, IrqPC
      <3>2. queued' \in [Queues -> Nat]
        <4>1. pc[c] = "uncount" /\ queued' = [queued EXCEPT ![c] = queued[c] - 1]
          BY Zenon DEF Uncount, Goto
        <4>2. queued[c] - 1 \in Nat  BY <4>1, QueuedPositive
        <4> QED  BY <4>1, <4>2, TypeFields, Zenon
      <3>3. task' \in [Tasks -> {"unspawned", "queued", "running", "rewoken", "idle", "done"}]
        BY TypeFields, Zenon DEF Uncount
      <3>4. UNCHANGED <<online, id, cur, polled, theft, sched, queue, consumer, bound, sleepers, notified, excused>>
        BY Zenon DEF Uncount
      <3> QED  BY <3>1, <3>2, <3>3, <3>4, TypeFields, Zenon DEF TypeOK, SchedType
    <2>PollReady. CASE PollReady(c)
      <3> USE <2>PollReady
      <3>1. pc' \in [Actors -> CpuPC \cup IrqPC]
        BY TypeFields, Numbers, Zenon DEF PollReady, Goto, CpuPC, IrqPC
      <3>2. task' \in [Tasks -> {"unspawned", "queued", "running", "rewoken", "idle", "done"}] /\ cur' \in [Cpus -> Tasks \cup {None}]
        BY TypeFields, Zenon DEF PollReady
      <3>3. polled' \in [Cpus -> 0 .. TickBudget]
        <4>1. pc[c] = "poll" /\ polled' = [polled EXCEPT ![c] = polled[c] + 1]
          BY Zenon DEF PollReady, Goto
        <4>2. polled[c] < TickBudget
          BY <4>1, SelfFacts DEF Locals, Hand, At
        <4> QED  BY <4>1, <4>2, TypeFields, Bounds
      <3>4. UNCHANGED <<online, id, theft, sched, queue, queued, consumer, bound, sleepers, notified, excused>>
        BY Zenon DEF PollReady
      <3> QED  BY <3>1, <3>2, <3>3, <3>4, TypeFields, Zenon DEF TypeOK, SchedType
    <2>PollPending. CASE PollPending(c)
      <3> USE <2>PollPending
      <3>1. task' \in [Tasks -> {"unspawned", "queued", "running", "rewoken", "idle", "done"}] /\ cur' \in [Cpus -> Tasks \cup {None}]
        BY TypeFields, Zenon DEF PollPending
      <3>2. polled' \in [Cpus -> 0 .. TickBudget]
        <4>1. pc[c] = "poll" /\ polled' = [polled EXCEPT ![c] = polled[c] + 1]
          BY Zenon DEF PollPending
        <4>2. polled[c] < TickBudget
          BY <4>1, SelfFacts DEF Locals, Hand, At
        <4> QED  BY <4>1, <4>2, TypeFields, Bounds
      <3>3. pc' \in [Actors -> CpuPC \cup IrqPC] /\ sched' \in [Actors -> SchedType]
        <4>1. cur[c] # None
          BY SelfFacts, Zenon DEF Locals, Hand, At, PollPending
        <4>2. cur[c] \in Tasks /\ c \in Queues /\ "tick" \in CpuPC \cup IrqPC /\ c \in Actors
          BY <4>1, TypeFields, Numbers DEF CpuPC
        <4>3. \/ pc' = [pc EXCEPT ![c] = "tick"] /\ sched' = sched
              \/ CallSchedule(c, cur[c], c, "tick")
          BY Zenon DEF PollPending
        <4>4. CASE pc' = [pc EXCEPT ![c] = "tick"] /\ sched' = sched
          BY <4>2, <4>4, TypeFields, ZenonT(30)
        <4>5. CASE CallSchedule(c, cur[c], c, "tick")
          BY <4>2, <4>5, CallDoes, Zenon
        <4> QED  BY <4>3, <4>4, <4>5, SMTT(30)
      <3>4. UNCHANGED <<online, id, theft, queue, queued, consumer, bound, sleepers, notified, excused>>
        BY Zenon DEF PollPending
      <3> QED  BY <3>1, <3>2, <3>3, <3>4, TypeFields, Zenon DEF TypeOK, SchedType
    <2>Check. CASE Check(c)
      <3> USE <2>Check
      <3>1. pc' \in [Actors -> CpuPC \cup IrqPC]
        BY TypeFields, Numbers, Zenon DEF Check, Goto, CpuPC, IrqPC
      <3>2. polled' \in [Cpus -> 0 .. TickBudget]
        BY TypeFields, Bounds DEF Check
      <3>3. UNCHANGED <<online, id, cur, theft, sched, queue, queued, consumer, bound, task, sleepers, notified, excused>>
        BY Zenon DEF Check
      <3> QED  BY <3>1, <3>2, <3>3, TypeFields, Zenon DEF TypeOK, SchedType
    <2>Wait. CASE Wait(c)
      <3> USE <2>Wait
      <3>1. pc' \in [Actors -> CpuPC \cup IrqPC]
        <4>1. \E to \in CpuPC : pc' = [pc EXCEPT ![c] = to]
          BY Zenon DEF Wait, CpuPC
        <4>2. pc \in [Actors -> CpuPC \cup IrqPC] /\ c \in Actors
          BY TypeFields, Numbers, Zenon
        <4> QED  BY <4>1, <4>2
      <3>2. sleepers' \in [permit : BOOLEAN, waiters : Seq(Cpus), closed : BOOLEAN]
        <4>1. sleepers.waiters \in Seq(Cpus)  BY TypeFields
        <4>2. Append(sleepers.waiters, c) \in Seq(Cpus)  BY <4>1
        <4> QED  BY <4>2, TypeFields, Zenon DEF Wait
      <3>3. UNCHANGED <<online, id, cur, polled, theft, sched, queue, queued, consumer, bound, task, notified, excused>>
        BY Zenon DEF Wait
      <3> QED  BY <3>1, <3>2, <3>3, TypeFields, Zenon DEF TypeOK, SchedType
    <2>WakeUp. CASE WakeUp(c)
      <3> USE <2>WakeUp
      <3>1. pc' \in [Actors -> CpuPC \cup IrqPC]
        BY TypeFields, Numbers, Zenon DEF WakeUp, Goto, CpuPC, IrqPC
      <3>2. notified' \in [Cpus -> {"no", "woken", "closed"}]
        BY TypeFields, Zenon DEF WakeUp
      <3>3. UNCHANGED <<online, id, cur, polled, theft, sched, queue, queued, consumer, bound, task, sleepers, excused>>
        BY Zenon DEF WakeUp
      <3> QED  BY <3>1, <3>2, <3>3, TypeFields, Zenon DEF TypeOK, SchedType
    <2>PollClose. CASE PollClose(c)
      <3> USE <2>PollClose
      <3>1. sleepers' \in [permit : BOOLEAN, waiters : Seq(Cpus), closed : BOOLEAN]
        <4>1. <<>> \in Seq(Cpus)  OBVIOUS
        <4> QED  BY <4>1, Zenon DEF PollClose
      <3>2. notified' \in [Cpus -> {"no", "woken", "closed"}]
        BY TypeFields, Zenon DEF PollClose
      <3>3. UNCHANGED <<pc, online, id, cur, polled, theft, sched, queue, queued, consumer, bound, task, excused>>
        BY Zenon DEF PollClose
      <3> QED  BY <3>1, <3>2, <3>3, TypeFields, Zenon DEF TypeOK, SchedType
    <2> QED  BY <1>Tick, <2>Run, <2>Tick, <2>Uncount, <2>PollReady, <2>PollPending, <2>Check, <2>Wait, <2>WakeUp, <2>PollClose
  <1>CountType. ASSUME NEW a \in Actors, Count(a)
    PROVE  TypeOK'
    <2> USE <1>CountType
    <2>1. pc' \in [Actors -> CpuPC \cup IrqPC]
      BY TypeFields, Numbers, Zenon DEF Count, Goto, CpuPC, IrqPC
    <2>2. queued' \in [Queues -> Nat]
      <3>1. queued' = [queued EXCEPT ![sched[a].dest] = queued[sched[a].dest] + 1]
        BY Zenon DEF Count
      <3>2. pc[a] = "count" /\ Call(a)  BY Zenon DEF Count, Goto, Own, Calls
      <3>3. sched[a].dest \in Queues  BY <3>2 DEF Call
      <3> QED  BY <3>1, <3>3, TypeFields
    <2>3. UNCHANGED <<online, id, cur, polled, theft, sched, queue, consumer, bound, task, sleepers, notified, excused>>
      BY Zenon DEF Count
    <2> QED  BY <2>1, <2>2, <2>3, TypeFields, Zenon DEF TypeOK, SchedType
  <1>EnqueueType. ASSUME NEW a \in Actors, Enqueue(a)
    PROVE  TypeOK'
    <2> USE <1>EnqueueType
    <2>1. pc' \in [Actors -> CpuPC \cup IrqPC] /\ sched' \in [Actors -> SchedType] /\ queue' \in [Queues -> Seq(Tasks)]
      <3>1. pc[a] = "enqueue" /\ Call(a)  BY Zenon DEF Enqueue, Goto, Own, Calls
      <3>2. /\ sched[a].dest \in Queues /\ sched[a].task \in Tasks
            /\ sched[a].ret \in CpuPC \cup IrqPC
        BY <3>1 DEF Call, CpuPC, IrqPC
      <3>3. NoSched \in SchedType  BY SMTT(30) DEF NoSched, SchedType
      <3>4. Append(queue[sched[a].dest], sched[a].task) \in Seq(Tasks)
        BY <3>2, TypeFields
      <3> QED  BY <3>2, <3>3, <3>4, TypeFields, Zenon DEF Enqueue, Goto
    <2>2. UNCHANGED <<online, id, cur, polled, theft, queued, consumer, bound, task, sleepers, notified, excused>>
      BY Zenon DEF Enqueue
    <2> QED  BY <2>1, <2>2, TypeFields, Zenon DEF TypeOK, SchedType
  <1>WorkerIdType. ASSUME NEW c \in Cpus, WorkerId(c)
    PROVE  TypeOK'
    <2> USE <1>WorkerIdType
    <2>1. pc' \in [Actors -> CpuPC \cup IrqPC]
      BY TypeFields, Numbers, Zenon DEF WorkerId, Goto, CpuPC, IrqPC
    <2>2. id' \in [Cpus -> Cpus \cup {None}]
      <3>1. pc[c] = "new"  BY Zenon DEF WorkerId, Goto
      <3>2. Cardinality(online) \in Cpus  BY <3>1, NextId, Zenon DEF At, Starting
      <3> QED  BY <3>2, TypeFields, Zenon DEF WorkerId
    <2>3. UNCHANGED <<online, cur, polled, theft, sched, queue, queued, consumer, bound, task, sleepers, notified, excused>>
      BY Zenon DEF WorkerId
    <2> QED  BY <2>1, <2>2, <2>3, TypeFields, Zenon DEF TypeOK, SchedType
  <1>RegisterType. ASSUME NEW c \in Cpus, Register(c)
    PROVE  TypeOK'
    <2> USE <1>RegisterType
    <2>1. pc' \in [Actors -> CpuPC \cup IrqPC]
      BY TypeFields, Numbers, Zenon DEF Register, Goto, CpuPC, IrqPC
    <2>2. online' \subseteq Cpus
      BY TypeFields, Zenon DEF Register
    <2>3. UNCHANGED <<id, cur, polled, theft, sched, queue, queued, consumer, bound, task, sleepers, notified, excused>>
      BY Zenon DEF Register
    <2> QED  BY <2>1, <2>2, <2>3, TypeFields, Zenon DEF TypeOK, SchedType
  <1>TakeType. ASSUME NEW c \in Cpus, Take(c)
    PROVE  TypeOK'
    <2> USE <1>TakeType
    <2>1. theft' \in [Cpus -> TheftType]
      BY ThiefMoves, Zenon DEF TakeMoves, Thief
    <2>2. pc' \in [Actors -> CpuPC \cup IrqPC] /\ sched' \in [Actors -> SchedType] /\ bound' \in [Tasks -> Cpus \cup {None}] /\ queued' \in [Queues -> Nat]
      <3>1. /\ pc[c] = "take" /\ CallSchedule(c, theft[c].task, c, "steal")
            /\ bound' = [bound EXCEPT ![theft[c].task] = c]
            /\ queued' = [queued EXCEPT ![theft[c].src] = queued[theft[c].src] - 1]
        BY ZenonT(30) DEF Take
      <3>2. theft[c].task # None  BY <3>1, SelfFacts, Zenon DEF Locals, Hand, At
      <3>3. theft[c].task \in Tasks /\ c \in Queues /\ "steal" \in CpuPC \cup IrqPC /\ c \in Actors
        BY <3>2, FieldTypes, Numbers, SMTT(30) DEF CpuPC
      <3>4. pc' \in [Actors -> CpuPC \cup IrqPC] /\ sched' \in [Actors -> SchedType]
        BY <3>1, <3>3, CallDoes
      <3>5. theft[c].src \in Queues /\ queued[theft[c].src] - 1 \in Nat
        BY <3>1, QueuedPositive
      <3> QED  BY <3>1, <3>4, <3>5, TypeFields, Zenon
    <2>3. UNCHANGED <<online, id, cur, polled, queue, consumer, task, sleepers, notified, excused>>
      BY Zenon DEF Take
    <2> QED  BY <2>1, <2>2, <2>3, TypeFields, Zenon DEF TypeOK, SchedType
  <1>SpawnEarlyType. ASSUME NEW c \in Cpus, NEW t \in Tasks, SpawnEarly(c, t)
    PROVE  TypeOK'
    <2> USE <1>SpawnEarlyType
    <2>1. pc' \in [Actors -> CpuPC \cup IrqPC] /\ sched' \in [Actors -> SchedType]
      <3>1. /\ CallSchedule(c, t, IF c \in online THEN c ELSE Injector, "new")
            /\ c \in Actors /\ "new" \in CpuPC \cup IrqPC
            /\ (IF c \in online THEN c ELSE Injector) \in Queues
        BY Numbers, Zenon DEF SpawnEarly, Spawn, CpuPC
      <3> QED  BY <3>1, CallDoes
    <2>2. task' \in [Tasks -> {"unspawned", "queued", "running", "rewoken", "idle", "done"}] /\ bound' \in [Tasks -> Cpus \cup {None}]
      BY TypeFields, Zenon DEF SpawnEarly, Spawn
    <2>3. UNCHANGED <<online, id, cur, polled, theft, queue, queued, consumer, sleepers, notified, excused>>
      BY Zenon DEF SpawnEarly
    <2> QED  BY <2>1, <2>2, <2>3, TypeFields, Zenon DEF TypeOK, SchedType
  <1>PollSpawnType. ASSUME NEW c \in Cpus, NEW t \in Tasks, PollSpawn(c, t)
    PROVE  TypeOK'
    <2> USE <1>PollSpawnType
    <2>1. pc' \in [Actors -> CpuPC \cup IrqPC] /\ sched' \in [Actors -> SchedType]
      <3>1. /\ CallSchedule(c, t, IF c \in online THEN c ELSE Injector, "poll")
            /\ c \in Actors /\ "poll" \in CpuPC \cup IrqPC
            /\ (IF c \in online THEN c ELSE Injector) \in Queues
        BY Numbers, Zenon DEF PollSpawn, Spawn, CpuPC
      <3> QED  BY <3>1, CallDoes
    <2>2. task' \in [Tasks -> {"unspawned", "queued", "running", "rewoken", "idle", "done"}] /\ bound' \in [Tasks -> Cpus \cup {None}]
      BY TypeFields, Zenon DEF PollSpawn, Spawn
    <2>3. UNCHANGED <<online, id, cur, polled, theft, queue, queued, consumer, sleepers, notified, excused>>
      BY Zenon DEF PollSpawn
    <2> QED  BY <2>1, <2>2, <2>3, TypeFields, Zenon DEF TypeOK, SchedType
  <1>PollWakeType. ASSUME NEW c \in Cpus, NEW t \in Tasks, PollWake(c, t)
    PROVE  TypeOK'
    <2> USE <1>PollWakeType
    <2>1. pc' \in [Actors -> CpuPC \cup IrqPC] /\ sched' \in [Actors -> SchedType] /\ task' \in [Tasks -> {"unspawned", "queued", "running", "rewoken", "idle", "done"}]
      <3>1. WakeTask(c, t, "poll") /\ c \in Actors /\ "poll" \in CpuPC \cup IrqPC
        BY Numbers, Zenon DEF PollWake, CpuPC
      <3> QED  BY <3>1, TypeFields, WakeDoes, ZenonT(30)
    <2>2. UNCHANGED <<online, id, cur, polled, theft, queue, queued, consumer, bound, sleepers, notified, excused>>
      BY Zenon DEF PollWake
    <2> QED  BY <2>1, <2>2, TypeFields, Zenon DEF TypeOK, SchedType
  <1>DriveSpawnType. ASSUME NEW c \in Cpus, NEW t \in Tasks, DriveSpawn(c, t)
    PROVE  TypeOK'
    <2> USE <1>DriveSpawnType
    <2>1. pc' \in [Actors -> CpuPC \cup IrqPC] /\ sched' \in [Actors -> SchedType]
      <3>1. /\ CallSchedule(c, t, IF c \in online THEN c ELSE Injector, "asleep")
            /\ c \in Actors /\ "asleep" \in CpuPC \cup IrqPC
            /\ (IF c \in online THEN c ELSE Injector) \in Queues
        BY Numbers, Zenon DEF DriveSpawn, Spawn, CpuPC
      <3> QED  BY <3>1, CallDoes
    <2>2. task' \in [Tasks -> {"unspawned", "queued", "running", "rewoken", "idle", "done"}] /\ bound' \in [Tasks -> Cpus \cup {None}]
      BY TypeFields, Zenon DEF DriveSpawn, Spawn
    <2>3. excused' \subseteq Tasks
      BY TypeFields, Zenon DEF DriveSpawn
    <2>4. UNCHANGED <<online, id, cur, polled, theft, queue, queued, consumer, sleepers, notified>>
      BY Zenon DEF DriveSpawn
    <2> QED  BY <2>1, <2>2, <2>3, <2>4, TypeFields, Zenon DEF TypeOK, SchedType
  <1>DriveWakeType. ASSUME NEW c \in Cpus, NEW t \in Tasks, DriveWake(c, t)
    PROVE  TypeOK'
    <2> USE <1>DriveWakeType
    <2>1. pc' \in [Actors -> CpuPC \cup IrqPC] /\ sched' \in [Actors -> SchedType] /\ task' \in [Tasks -> {"unspawned", "queued", "running", "rewoken", "idle", "done"}]
      <3>1. WakeTask(c, t, "asleep") /\ c \in Actors /\ "asleep" \in CpuPC \cup IrqPC
        BY Numbers, Zenon DEF DriveWake, CpuPC
      <3> QED  BY <3>1, TypeFields, WakeDoes, ZenonT(30)
    <2>2. excused' \subseteq Tasks
      BY TypeFields, Zenon DEF DriveWake
    <2>3. UNCHANGED <<online, id, cur, polled, theft, queue, queued, consumer, bound, sleepers, notified>>
      BY Zenon DEF DriveWake
    <2> QED  BY <2>1, <2>2, <2>3, TypeFields, Zenon DEF TypeOK, SchedType
  <1>WakeOneType. ASSUME NEW i \in Irqs, WakeOne(i)
    PROVE  TypeOK'
    <2> USE <1>WakeOneType
    <2>1. pc' \in [Actors -> CpuPC \cup IrqPC]
      BY TypeFields, Numbers, Zenon DEF WakeOne, Goto, CpuPC, IrqPC
    <2>2. sleepers' \in [permit : BOOLEAN, waiters : Seq(Cpus), closed : BOOLEAN] /\ notified' \in [Cpus -> {"no", "woken", "closed"}]
      <3>1. sleepers.waiters \in Seq(Cpus)  BY TypeFields
      <3>2. sleepers.waiters # <<>> =>
              Tail(sleepers.waiters) \in Seq(Cpus) /\ Head(sleepers.waiters) \in Cpus
        BY <3>1
      <3>3. sleepers.closed \in BOOLEAN  BY TypeFields, Zenon
      <3> QED  BY <3>2, <3>3, TypeFields, Zenon DEF WakeOne
    <2>3. UNCHANGED <<online, id, cur, polled, theft, sched, queue, queued, consumer, bound, task, excused>>
      BY Zenon DEF WakeOne
    <2> QED  BY <2>1, <2>2, <2>3, TypeFields, Zenon DEF TypeOK, SchedType
  <1>InterruptType. ASSUME NEW i \in Irqs, Interrupt(i)
    PROVE  TypeOK'
    <2> USE <1>InterruptType
    <2>1. pc' \in [Actors -> CpuPC \cup IrqPC]
      BY TypeFields, Numbers, Zenon DEF Interrupt, Goto, CpuPC, IrqPC
    <2>2. UNCHANGED <<online, id, cur, polled, theft, sched, queue, queued, consumer, bound, task, sleepers, notified, excused>>
      BY Zenon DEF Interrupt
    <2> QED  BY <2>1, <2>2, TypeFields, Zenon DEF TypeOK, SchedType
  <1>IrqWakeType. ASSUME NEW i \in Irqs, NEW t \in Tasks, IrqWake(i, t)
    PROVE  TypeOK'
    <2> USE <1>IrqWakeType
    <2>1. pc' \in [Actors -> CpuPC \cup IrqPC] /\ sched' \in [Actors -> SchedType] /\ task' \in [Tasks -> {"unspawned", "queued", "running", "rewoken", "idle", "done"}]
      <3>1. WakeTask(i, t, "handler") /\ i \in Actors /\ "handler" \in CpuPC \cup IrqPC
        BY Numbers, Zenon DEF IrqWake, IrqPC
      <3> QED  BY <3>1, TypeFields, WakeDoes, ZenonT(30)
    <2>2. UNCHANGED <<online, id, cur, polled, theft, queue, queued, consumer, bound, sleepers, notified, excused>>
      BY Zenon DEF IrqWake
    <2> QED  BY <2>1, <2>2, TypeFields, Zenon DEF TypeOK, SchedType
  <1> QED
    BY <1>Thieves, <1>Tick, <1>CountType, <1>EnqueueType, <1>WorkerIdType, <1>RegisterType, <1>TakeType, <1>SpawnEarlyType, <1>PollSpawnType, <1>PollWakeType, <1>DriveSpawnType, <1>DriveWakeType, <1>WakeOneType, <1>InterruptType, <1>IrqWakeType, Numbers, Zenon
       DEF Next, CpuProgress, CpuChoice, IrqProgress

-----------------------------------------------------------------------------
(* The initial state. *)

\* What Init says of every worker, trap handler, queue and task.
LEMMA AtStart ==
  ASSUME Init
  PROVE  /\ \A c \in Cpus : /\ pc[c] = "new" /\ At(c) = "new" /\ theft[c] = NoTheft /\ cur[c] = None
                            /\ id[c] = None /\ notified[c] = "no" /\ polled[c] = 0
         /\ \A i \in Irqs : pc[i] = "idle"
         /\ \A a \in Actors : sched[a] = NoSched /\ pc[a] \in {"new", "idle"}
         /\ \A q \in Queues : queue[q] = <<>> /\ queued[q] = 0 /\ consumer[q] = None
         /\ \A t \in Tasks : bound[t] = None /\ task[t] = "unspawned"
         /\ online = {} /\ excused = {}
         /\ sleepers = [permit |-> FALSE, waiters |-> <<>>, closed |-> FALSE]
  <1>1. Cpus \subseteq Actors /\ Irqs \subseteq Actors /\ Irqs \cap Cpus = {}  BY Numbers, Zenon
  <1>2. \A a \in Actors : pc[a] = IF a \in Cpus THEN "new" ELSE "idle"  BY Zenon DEF Init
  <1>3. \A c \in Cpus : pc[c] = "new"  BY <1>1, <1>2, Zenon
  <1>4. \A i \in Irqs : pc[i] = "idle"  BY <1>1, <1>2, Zenon
  <1>5. \A a \in Actors : pc[a] \in {"new", "idle"}  BY <1>2, Zenon
  <1>6. \A c \in Cpus : At(c) = "new"
    <2>1. "new" \notin {"count", "enqueue"}  OBVIOUS
    <2> QED  BY <1>3, <2>1, Zenon DEF At
  <1>7. \A c \in Cpus : theft[c] = NoTheft /\ cur[c] = None /\ id[c] = None /\ notified[c] = "no" /\ polled[c] = 0
    BY Zenon DEF Init
  <1>8. \A a \in Actors : sched[a] = NoSched  BY Zenon DEF Init
  <1>9. \A q \in Queues : queue[q] = <<>> /\ queued[q] = 0 /\ consumer[q] = None  BY Zenon DEF Init
  <1>10. \A t \in Tasks : bound[t] = None /\ task[t] = "unspawned"  BY Zenon DEF Init
  <1>11. online = {} /\ excused = {} /\ sleepers = [permit |-> FALSE, waiters |-> <<>>, closed |-> FALSE]
    BY Zenon DEF Init
  <1> QED  BY <1>3, <1>4, <1>5, <1>6, <1>7, <1>8, <1>9, <1>10, <1>11, Zenon

\* The types hold at the start.
LEMMA TypeInit ==
  ASSUME Init  PROVE TypeOK
  <1>1. NoTheft \in TheftType
    BY Bounds DEF NoTheft, TheftType, None, Queues
  <1>2. pc \in [Actors -> CpuPC \cup IrqPC]
    <2>1. "new" \in CpuPC /\ "idle" \in IrqPC  BY DEF CpuPC, IrqPC
    <2> QED  BY <2>1, Zenon DEF Init
  <1>3. sched \in [Actors -> SchedType]
    <2>1. NoSched \in SchedType  BY DEF NoSched, SchedType
    <2> QED  BY <2>1, Zenon DEF Init
  <1>4. online \subseteq Cpus /\ excused \subseteq Tasks  BY Zenon DEF Init
  <1>5. /\ id \in [Cpus -> Cpus \cup {None}] /\ cur \in [Cpus -> Tasks \cup {None}]
        /\ theft \in [Cpus -> TheftType] /\ consumer \in [Queues -> Cpus \cup {None}]
        /\ bound \in [Tasks -> Cpus \cup {None}] /\ notified \in [Cpus -> {"no", "woken", "closed"}]
        /\ task \in [Tasks -> {"unspawned", "queued", "running", "rewoken", "idle", "done"}]
    BY <1>1, Zenon DEF Init
  <1>6. polled \in [Cpus -> 0 .. TickBudget] /\ queued \in [Queues -> Nat]
    <2>1. 0 \in 0 .. TickBudget /\ 0 \in Nat  BY Bounds
    <2> QED  BY <2>1, Zenon DEF Init
  <1>7. queue \in [Queues -> Seq(Tasks)]
    <2>1. <<>> \in Seq(Tasks)  OBVIOUS
    <2> QED  BY <2>1, Zenon DEF Init
  <1>8. sleepers \in [permit : BOOLEAN, waiters : Seq(Cpus), closed : BOOLEAN]
    <2>1. <<>> \in Seq(Cpus)  OBVIOUS
    <2>2. [permit |-> FALSE, waiters |-> <<>>, closed |-> FALSE] \in [permit : BOOLEAN, waiters : Seq(Cpus), closed : BOOLEAN]
      BY <2>1
    <2> QED  BY <2>2, Zenon DEF Init
  <1> QED  BY <1>2, <1>3, <1>4, <1>5, <1>6, <1>7, <1>8, Zenon DEF TypeOK, SchedType

\* Each actor's locals fit its place at the start.
LEMMA OwnInit ==
  ASSUME SetFacts, Init  PROVE Own
  <1>0. /\ NoTheft.round = 0 /\ NoTheft.num = 0 /\ NoTheft.src = None /\ NoTheft.next = 0 /\ NoTheft.left = 0
        /\ NoTheft.limit = 0 /\ NoTheft.stolen = 0 /\ NoTheft.task = None
    BY DEF NoTheft
  <1>1. ASSUME NEW a \in Actors  PROVE Call(a)
    <2>1. pc[a] \notin {"count", "enqueue"}  BY AtStart
    <2> QED  BY <2>1, AtStart, Zenon DEF Call
  <1>2. ASSUME NEW c \in Cpus  PROVE Hand(c)
    <2>1. /\ pc[c] = "new" /\ At(c) = "new" /\ theft[c] = NoTheft /\ cur[c] = None /\ id[c] = None
          /\ c \notin online
      BY AtStart, Zenon
    <2>2. /\ "new" \in CpuPC /\ "new" \in Starting /\ "new" \notin {"uncount", "poll"}
          /\ "new" \notin Holding /\ "new" # "take"
      BY DEF CpuPC, Starting, Holding
    <2>3. Clean(theft[c])  BY <1>0, <2>1, Zenon DEF Clean
    <2> QED  BY <1>0, <2>1, <2>2, <2>3, Zenon DEF Hand
  <1>3. ASSUME NEW c \in Cpus  PROVE Theft(c, theft[c])
    <2>1. pc[c] = "new" /\ At(c) = "new" /\ theft[c] = NoTheft /\ online = {}  BY AtStart, Zenon
    <2>2. Fits("new", 0, 0, None, 0, 0, 0, 0)  BY DEF Fits
    <2>3. 0 <= Cardinality({})
      <3>1. {} \in SUBSET Actors  BY Zenon
      <3>2. Cardinality({}) = 0  BY <3>1, Zenon DEF SetFacts
      <3> QED  BY <3>2
    <2>4. "new" \notin {"count", "enqueue"}  OBVIOUS
    <2> QED  BY <1>0, <2>1, <2>2, <2>3, <2>4, Zenon DEF Theft
  <1> QED  BY <1>1, <1>2, <1>3, Zenon DEF Own, Calls, Hands, Thefts
=============================================================================
