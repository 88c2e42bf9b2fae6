---------------------------- MODULE ExecutorSleep ----------------------------
(***************************************************************************)
(* The executor's inductive invariant, third part: who consumes which      *)
(* queue, who sleeps, and which queues a thief will still look at. Also:   *)
(* every step moves a task along its life cycle.                           *)
(***************************************************************************)
EXTENDS ExecutorPlaces

\* A queue has the consumer that steals from it.
Consumers == \A q \in Queues, c \in Cpus : consumer[q] = c <=> theft[c].src = q

\* Worker c is among the waiters w; none of them is there twice.
Waits(w, c) == \E k \in DOMAIN w : w[k] = c
Once(w) == \A j, k \in DOMAIN w : w[j] = w[k] => j = k

\* The sleepers are the workers that wait without having been notified.
Sleepers ==
  /\ \A c \in Cpus : Waits(sleepers.waiters, c) <=> At(c) = "asleep" /\ notified[c] = "no"
  /\ Once(sleepers.waiters)
  /\ \A c \in Cpus : notified[c] # "no" => At(c) = "asleep"
  /\ \A c \in Cpus : At(c) = "done" \/ notified[c] = "closed" => sleepers.closed
  /\ sleepers.permit => sleepers.waiters = <<>>
  /\ sleepers.closed => ~sleepers.permit /\ sleepers.waiters = <<>>

\* The ids given out so far are the positions in CpuLocal::iter; then the CPUs got
\* their schedulers in that order.
IdsSoFar == \A c \in Cpus : id[c] \in {None, c}

InOrder ==
  IdsSoFar =>
    \E n \in 0 .. NumCpus : /\ online = 0 .. n - 1
                            /\ \A c \in Cpus : At(c) = "register" => c = n

\* A round that has l victims to go, from number x on, comes to queue q after `skip'
\* more of them.
Ahead(q, n, x, l, skip) == \E j \in skip .. l - 1 : x + j = q \/ x + j = q + n

\* In its first round a worker that is at `at' with these locals will look at queue q.
FirstRound(at, q, r, n, s, x, l, m) ==
  /\ r = 0 /\ n > 0 /\ q < n
  /\ \/ at = "round"
     \/ at = "victim" /\ Ahead(q, n, x, l, 0)
     \/ at = "victim_len" /\ Ahead(q, n, x, l, 1)
     \/ at = "release" /\ s # Injector /\ m = 0 /\ Ahead(q, n, x, l, 1)

\* The rounds are still to come.
BeforeRounds(at, n, s, m) ==
  /\ n = 0
  /\ \/ at \in {"inject", "inject_len", "round"}
     \/ at = "release" /\ s = Injector /\ m = 0

\* Worker c has something to run, or will have.
Busy(c) ==
  \/ At(c) \in Working \cup {"take"}
  \/ At(c) = "asleep" /\ notified[c] = "woken"
  \/ theft[c].stolen > 0
  \/ At(c) = "steal" /\ queue[theft[c].src] # <<>>

\* Worker c looks at queue q before it sleeps.
Visits(c, q) ==
  LET w == theft[c]
  IN  \/ At(c) \in {"inject_len", "victim_len", "steal"} /\ w.src = q
      \/ q = Injector /\ At(c) = "inject" /\ w.num = 0
      \/ /\ q \notin {c, Injector}
         /\ \/ BeforeRounds(At(c), w.num, w.src, w.limit)
            \/ FirstRound(At(c), q, w.round, w.num, w.src, w.next, w.left, w.limit)

\* Somebody looks at all queues before everyone is asleep.
Alert ==
  \/ sleepers.permit
  \/ \E i \in Irqs : pc[i] # "idle"
  \/ \E c \in Cpus : Busy(c)

Coverage ==
  Driving = {} /\ ~sleepers.closed /\ IdsSoFar =>
    \A q \in Queues : \A t \in Tasks \ excused :
      InQueue(q, t) => Alert \/ \E c \in Cpus : Visits(c, q)

-----------------------------------------------------------------------------
(* The steps, by what they do to a worker's place. *)

\* Calls of schedule, trap handlers, and the main loop until it tries to steal.
InnerAct(a) ==
  \/ Count(a) \/ Enqueue(a)
  \/ a \in Irqs /\ (Interrupt(a) \/ \E t \in Tasks : IrqWake(a, t))
  \/ /\ a \in Cpus
     /\ \/ Run(a) \/ Tick(a) \/ Uncount(a) \/ PollReady(a) \/ PollPending(a) \/ Check(a)
        \/ \E t \in Tasks : SpawnEarly(a, t) \/ PollSpawn(a, t) \/ DriveSpawn(a, t) \/ PollWake(a, t)
                         \/ DriveWake(a, t)

ThiefAct(c) ==
  \/ TryInjector(c) \/ InjectorLen(c) \/ CountWorkers(c) \/ Round(c) \/ Victim(c)
  \/ VictimLen(c) \/ Steal(c) \/ Take(c) \/ Release(c)

OthersStay(a) ==
  /\ \A b \in Actors \ {a} : pc'[b] = pc[b] /\ sched'[b] = sched[b] /\ At(b)' = At(b)
  /\ \A d \in Cpus \ {a} : theft'[d] = theft[d]

Inner(a) ==
  /\ UNCHANGED <<theft, consumer, sleepers, notified, id, online>>
  /\ OthersStay(a)
  /\ a \in Irqs => pc'[a] # "idle"
  /\ a \in Cpus => \/ At(a)' = At(a)
                   \/ At(a) \in Working \ Starting /\ At(a)' \in Working \ Starting
                   \/ At(a) = "check" /\ At(a)' = "inject" /\ queued[a] = 0
                   \/ At(a) = "run" /\ At(a)' = "done" /\ sleepers.closed

\* The steps of the executor, by what they do to a worker's place.
LEMMA SleepCases ==
  ASSUME Next
  PROVE  \/ \E a \in Actors : InnerAct(a)
         \/ \E c \in Cpus : \/ ThiefAct(c) \/ WorkerId(c) \/ Register(c) \/ Wait(c) \/ WakeUp(c)
                            \/ PollClose(c)
         \/ \E i \in Irqs : WakeOne(i)
  <1>1. ASSUME NEW c \in Cpus, CpuProgress(c) \/ CpuChoice(c)
        PROVE  InnerAct(c) \/ ThiefAct(c) \/ WorkerId(c) \/ Register(c) \/ Wait(c) \/ WakeUp(c) \/ PollClose(c)
    BY <1>1, Zenon DEF CpuProgress, CpuChoice, InnerAct, ThiefAct
  <1>2. ASSUME NEW i \in Irqs, IrqProgress(i) \/ Interrupt(i) \/ \E t \in Tasks : IrqWake(i, t)
        PROVE  InnerAct(i) \/ WakeOne(i)
    BY <1>2, Zenon DEF IrqProgress, InnerAct
  <1> QED  BY <1>1, <1>2, Numbers, Zenon DEF Next

\* Calls of schedule, trap handlers and the main loop leave stealing and sleeping alone.
LEMMA InnerSteps ==
  ASSUME SetFacts, TypeOK, Own, Binding, NEW a \in Actors, InnerAct(a)
  PROVE  Inner(a)
  <1>0. /\ pc \in [Actors -> CpuPC \cup IrqPC] /\ sched \in [Actors -> SchedType] /\ Call(a)
        /\ Irqs \cap Cpus = {} /\ Cpus \subseteq Actors
    BY TypeFields, Numbers, Zenon DEF Own, Calls
  <1>1. UNCHANGED <<theft, consumer, sleepers, notified, id, online>>
    BY Zenon DEF InnerAct, Count, Enqueue, Interrupt, IrqWake, Run, Tick, Uncount, PollReady,
                 PollPending, Check, SpawnEarly, PollSpawn, DriveSpawn, PollWake, DriveWake
  \* The place of the actor, once what it does to pc and sched is known.
  <1>Goes. ASSUME NEW to \in {"run", "tick", "uncount", "poll", "check", "inject", "done", "handler"},
                  pc' = [pc EXCEPT ![a] = to], sched' = sched
           PROVE  /\ OthersStay(a) /\ At(a)' = to /\ pc'[a] = to
    <2>1. pc'[a] = to /\ \A b \in Actors \ {a} : pc'[b] = pc[b] /\ sched'[b] = sched[b]
      BY <1>0, <1>Goes, Zenon
    <2>2. \A b \in Actors \ {a} : At(b)' = At(b)  BY <2>1, Zenon DEF At
    <2>3. At(a)' = to  BY <1>Goes, <2>1 DEF At
    <2> QED  BY <1>1, <2>1, <2>2, <2>3, Zenon DEF OthersStay
  <1>Calls. ASSUME NEW t \in Tasks, NEW q \in Queues, NEW ret \in {"new", "poll", "asleep", "handler", "tick"},
                   CallSchedule(a, t, q, ret)
            PROVE  OthersStay(a) /\ At(a)' = ret /\ pc'[a] = "count"
    <2>1. ret \in CpuPC \cup IrqPC  BY <1>Calls DEF CpuPC, IrqPC
    <2>2. /\ pc'[a] = "count" /\ sched'[a].ret = ret
          /\ \A b \in Actors \ {a} : pc'[b] = pc[b] /\ sched'[b] = sched[b]
      BY <1>Calls, <2>1, CallDoes, Zenon
    <2>3. \A b \in Actors \ {a} : At(b)' = At(b)  BY <2>2, Zenon DEF At
    <2>4. At(a)' = ret  BY <2>2 DEF At
    <2> QED  BY <1>1, <2>2, <2>3, <2>4, Zenon DEF OthersStay
  <1>Stays. ASSUME pc' = pc, sched' = sched  PROVE OthersStay(a) /\ At(a)' = At(a) /\ pc'[a] = pc[a]
    BY <1>1, <1>Stays, Zenon DEF OthersStay, At
  <1>2. CASE Count(a)
    <2>1. pc[a] = "count" /\ pc' = [pc EXCEPT ![a] = "enqueue"] /\ sched' = sched
      BY <1>2, Zenon DEF Count, Goto
    <2>2. pc'[a] = "enqueue" /\ \A b \in Actors \ {a} : pc'[b] = pc[b]  BY <1>0, <2>1, Zenon
    <2>3. At(a)' = At(a)  BY <2>1, <2>2 DEF At
    <2>4. \A b \in Actors \ {a} : At(b)' = At(b)  BY <2>1, <2>2, Zenon DEF At
    <2>5. pc'[a] # "idle"  BY <2>2
    <2> QED  BY <1>1, <2>1, <2>2, <2>3, <2>4, <2>5, Zenon DEF Inner, OthersStay
  <1>3. CASE Enqueue(a)
    <2>1. /\ pc[a] = "enqueue" /\ pc' = [pc EXCEPT ![a] = sched[a].ret]
          /\ sched' = [sched EXCEPT ![a] = NoSched]
      BY <1>3, Zenon DEF Enqueue, Goto
    <2>2. sched[a].ret \notin {"count", "enqueue", "idle"} /\ At(a) = sched[a].ret
      BY <1>0, <2>1 DEF Call, At
    <2>3. /\ pc'[a] = sched[a].ret /\ \A b \in Actors \ {a} : pc'[b] = pc[b] /\ sched'[b] = sched[b]
      BY <1>0, <2>1, Zenon
    <2>4. At(a)' = At(a) /\ pc'[a] # "idle"  BY <2>2, <2>3 DEF At
    <2>5. \A b \in Actors \ {a} : At(b)' = At(b)  BY <2>3, Zenon DEF At
    <2> QED  BY <1>1, <2>3, <2>4, <2>5, Zenon DEF Inner, OthersStay
  <1>4. CASE a \in Irqs /\ Interrupt(a)
    <2>1. pc' = [pc EXCEPT ![a] = "handler"] /\ sched' = sched  BY <1>4, Zenon DEF Interrupt, Goto
    <2>2. OthersStay(a) /\ pc'[a] = "handler"  BY <2>1, <1>Goes
    <2>3. a \notin Cpus /\ pc'[a] # "idle"  BY <1>0, <1>4, <2>2
    <2> QED  BY <1>1, <2>2, <2>3, Zenon DEF Inner
  <1>Wake. ASSUME NEW t \in Tasks, NEW ret \in {"poll", "asleep", "handler"}, pc[a] = ret, WakeTask(a, t, ret)
           PROVE  OthersStay(a) /\ At(a)' = At(a) /\ pc'[a] # "idle"
    <2>1. /\ ret \in CpuPC \cup IrqPC /\ At(a) = ret
          /\ ret \in {"new", "poll", "asleep", "handler", "tick"} /\ ret # "idle"
      BY <1>Wake DEF CpuPC, IrqPC, At
    <2>2. CASE task[t] = "running" /\ pc' = pc /\ sched' = sched
      BY <1>Wake, <2>1, <2>2, <1>Stays, Zenon
    <2>3. CASE task[t] = "idle" /\ bound[t] \in Queues
      <3>1. CallSchedule(a, t, bound[t], ret)  BY <1>Wake, <2>3, Zenon DEF WakeTask
      <3>2. OthersStay(a) /\ At(a)' = ret /\ pc'[a] = "count"  BY <1>Wake, <2>1, <2>3, <3>1, <1>Calls, Zenon
      <3> QED  BY <2>1, <3>2
    <2> QED  BY <1>Wake, <2>1, <2>2, <2>3, WakeDoes, Zenon
  <1>5. CASE a \in Irqs /\ \E t \in Tasks : IrqWake(a, t)
    <2>1. PICK t \in Tasks : pc[a] = "handler" /\ WakeTask(a, t, "handler")  BY <1>5, Zenon DEF IrqWake
    <2>2. OthersStay(a) /\ At(a)' = At(a) /\ pc'[a] # "idle"  BY <2>1, <1>Wake
    <2> QED  BY <1>1, <2>2, Zenon DEF Inner
  <1>6. CASE a \in Cpus /\ \E t \in Tasks : PollWake(a, t)
    <2>1. PICK t \in Tasks : pc[a] = "poll" /\ WakeTask(a, t, "poll")  BY <1>6, Zenon DEF PollWake
    <2>2. OthersStay(a) /\ At(a)' = At(a) /\ pc'[a] # "idle"  BY <2>1, <1>Wake
    <2> QED  BY <1>1, <2>2, Zenon DEF Inner
  <1>6a. CASE a \in Cpus /\ \E t \in Tasks : DriveWake(a, t)
    <2>1. PICK t \in Tasks : pc[a] = "asleep" /\ WakeTask(a, t, "asleep")  BY <1>6a, Zenon DEF DriveWake
    <2>2. OthersStay(a) /\ At(a)' = At(a) /\ pc'[a] # "idle"  BY <2>1, <1>Wake
    <2> QED  BY <1>1, <2>2, Zenon DEF Inner
  <1>7. CASE a \in Cpus /\ \E t \in Tasks : SpawnEarly(a, t) \/ PollSpawn(a, t) \/ DriveSpawn(a, t)
    <2>1. PICK t \in Tasks :
            /\ pc[a] \in {"new", "poll", "asleep"}
            /\ CallSchedule(a, t, IF a \in online THEN a ELSE Injector, pc[a])
      BY <1>7, Zenon DEF SpawnEarly, PollSpawn, DriveSpawn, Spawn
    <2>2. /\ (IF a \in online THEN a ELSE Injector) \in Queues
          /\ pc[a] \in {"new", "poll", "asleep", "handler", "tick"} /\ At(a) = pc[a]
      BY <1>7, <2>1, Numbers DEF At
    <2>3. OthersStay(a) /\ At(a)' = pc[a]  BY <2>1, <2>2, <1>Calls, Zenon
    <2>4. a \notin Irqs  BY <1>0, <1>7
    <2> QED  BY <1>1, <2>2, <2>3, <2>4, Zenon DEF Inner
  <1>8. CASE a \in Cpus /\ (\/ Run(a) \/ Tick(a) \/ Uncount(a) \/ PollReady(a) \/ PollPending(a) \/ Check(a))
    <2>1. /\ a \notin Irqs /\ pc[a] \in {"run", "tick", "uncount", "poll", "check"}
          /\ \/ CallSchedule(a, cur[a], a, "tick") /\ pc[a] = "poll"
             \/ /\ sched' = sched
                /\ \/ \E to \in {"tick", "uncount", "poll", "check"} : pc' = [pc EXCEPT ![a] = to]
                   \/ pc[a] = "check" /\ pc' = [pc EXCEPT ![a] = "inject"] /\ ~ (queued[a] > 0)
                   \/ pc[a] = "run" /\ pc' = [pc EXCEPT ![a] = "done"] /\ sleepers.closed
      <3>1. a \notin Irqs  BY <1>0, <1>8, Zenon
      <3> QED  BY <1>8, <3>1, Zenon DEF Run, Tick, Uncount, PollReady, PollPending, Check, Goto
    <2>2. At(a) = pc[a] /\ At(a) \in Working \ Starting  BY <2>1 DEF At, Working, Starting
    <2>3. {"tick", "uncount", "poll", "check"} \subseteq Working \ Starting  BY DEF Working, Starting
    <2>4. CASE CallSchedule(a, cur[a], a, "tick") /\ pc[a] = "poll"
      <3>1. cur[a] \in Tasks /\ a \in Queues
        <4>1. cur[a] # None  BY <1>8, <2>2, <2>4, SelfFacts DEF Locals, Hand
        <4> QED  BY <1>8, <4>1, TypeFields, Numbers
      <3>2. OthersStay(a) /\ At(a)' = "tick"  BY <2>4, <3>1, <1>Calls
      <3>3. At(a)' \in Working \ Starting  BY <2>3, <3>2
      <3> QED  BY <1>1, <2>1, <2>2, <3>2, <3>3, Zenon DEF Inner
    <2>5. CASE sched' = sched /\ \E to \in {"tick", "uncount", "poll", "check"} : pc' = [pc EXCEPT ![a] = to]
      <3>1. PICK to \in {"tick", "uncount", "poll", "check"} : pc' = [pc EXCEPT ![a] = to]  BY <2>5
      <3>2. OthersStay(a) /\ At(a)' = to  BY <2>5, <3>1, <1>Goes
      <3>3. At(a)' \in Working \ Starting  BY <2>3, <3>2
      <3> QED  BY <1>1, <2>1, <2>2, <3>2, <3>3, Zenon DEF Inner
    <2>6. CASE sched' = sched /\ pc[a] = "check" /\ pc' = [pc EXCEPT ![a] = "inject"] /\ ~ (queued[a] > 0)
      <3>1. OthersStay(a) /\ At(a)' = "inject"  BY <2>6, <1>Goes
      <3>2. queued[a] = 0
        <4>1. queued[a] \in Nat  BY <1>8, TypeFields, Numbers, Zenon
        <4> QED  BY <2>6, <4>1
      <3> QED  BY <1>1, <2>1, <2>2, <2>6, <3>1, <3>2, Zenon DEF Inner
    <2>7. CASE sched' = sched /\ pc[a] = "run" /\ pc' = [pc EXCEPT ![a] = "done"] /\ sleepers.closed
      <3>1. OthersStay(a) /\ At(a)' = "done"  BY <2>7, <1>Goes
      <3> QED  BY <1>1, <2>1, <2>2, <2>7, <3>1, Zenon DEF Inner
    <2> QED  BY <2>1, <2>4, <2>5, <2>6, <2>7, Zenon
  <1> QED  BY <1>2, <1>3, <1>4, <1>5, <1>6, <1>6a, <1>7, <1>8, Zenon DEF InnerAct

\* A step of try_steal stays in it, or ends it.
Onward == {"inject", "inject_len", "round", "victim", "victim_len", "steal", "take", "release", "tick", "wait"}

Thieving(c) ==
  /\ UNCHANGED <<sleepers, notified, id, online>>
  /\ OthersStay(c)
  /\ At(c) = pc[c] /\ At(c) \in Stealing
  /\ At(c)' \in Onward

\* A step of try_steal changes the place and the locals of its worker only.
LEMMA ThiefSteps ==
  ASSUME SetFacts, TypeOK, Own, NEW c \in Cpus, ThiefAct(c)
  PROVE  /\ Thieving(c)
         /\ ~Take(c) => sched' = sched /\ At(c)' = pc'[c] /\ queued' = queued
         /\ ~Steal(c) => queue' = queue
         /\ ~TryInjector(c) /\ ~Victim(c) /\ ~Release(c) => consumer' = consumer
         /\ ~TryInjector(c) /\ ~Victim(c) /\ ~Steal(c) => excused' = excused
  <1>0. /\ pc \in [Actors -> CpuPC \cup IrqPC] /\ theft \in [Cpus -> TheftType] /\ c \in Actors
        /\ sched \in [Actors -> SchedType]
    BY TypeFields, Numbers, Zenon
  <1>1. /\ UNCHANGED <<sleepers, notified, id, online>>
        /\ ~Take(c) => sched' = sched /\ queued' = queued
        /\ ~Steal(c) => queue' = queue
        /\ ~TryInjector(c) /\ ~Victim(c) /\ ~Release(c) => consumer' = consumer
        /\ ~TryInjector(c) /\ ~Victim(c) /\ ~Steal(c) => excused' = excused
    BY Zenon DEF ThiefAct, TryInjector, InjectorLen, CountWorkers, Round, Victim, VictimLen, Steal,
                 Take, Release
  <1>2. pc[c] \in {"inject", "inject_len", "round", "victim", "victim_len", "steal", "take", "release"}
    BY Zenon DEF ThiefAct, TryInjector, InjectorLen, CountWorkers, Round, Victim, VictimLen, Steal,
                 Take, Release
  <1>3. At(c) = pc[c] /\ At(c) \in Stealing  BY <1>2 DEF At, Stealing, Holding
  <1>4. CASE ~Take(c)
    <2>1. /\ "inject" \in Onward /\ "inject_len" \in Onward /\ "round" \in Onward /\ "victim" \in Onward
          /\ "victim_len" \in Onward /\ "steal" \in Onward /\ "take" \in Onward
          /\ "release" \in Onward /\ "tick" \in Onward /\ "wait" \in Onward
      BY DEF Onward
    <2>2. \E to \in Onward : \E w : Goes(c, to, w)
      <3>1. TryInjector(c) \/ InjectorLen(c) \/ CountWorkers(c) \/ Round(c) => \E to \in Onward : \E w : Goes(c, to, w)
        BY <2>1, Zenon DEF TryInjector, InjectorLen, CountWorkers, Round, StealFailed, InjectorFailed
      <3>2. VictimLen(c) \/ Victim(c) => \E to \in Onward : \E w : Goes(c, to, w)
        BY <2>1, Zenon DEF Victim, VictimLen, Advance, NextRound
      <3>3. Steal(c) \/ Release(c) => \E to \in Onward : \E w : Goes(c, to, w)
        BY <2>1, Zenon DEF Steal, Release, Advance, NextRound, StealFailed, InjectorFailed
      <3> QED  BY <1>4, <3>1, <3>2, <3>3, Zenon DEF ThiefAct
    <2>3. PICK to \in Onward : \E w : Goes(c, to, w)  BY <2>2
    <2>4. PICK w : Goes(c, to, w)  BY <2>3
    <2>5. /\ pc'[c] = to /\ \A b \in Actors \ {c} : pc'[b] = pc[b] /\ sched'[b] = sched[b]
          /\ \A d \in Cpus \ {c} : theft'[d] = theft[d]
      BY <1>0, <1>1, <1>4, <2>4, Zenon DEF Goes
    <2>6. At(c)' = to  BY <2>3, <2>5 DEF At, Onward
    <2>7. \A b \in Actors \ {c} : At(b)' = At(b)  BY <2>5, Zenon DEF At
    <2> QED  BY <1>1, <1>3, <1>4, <2>3, <2>5, <2>6, <2>7, Zenon DEF Thieving, OthersStay
  <1>5. CASE Take(c)
    <2>1. /\ CallSchedule(c, theft[c].task, c, "steal")
          /\ theft' = [theft EXCEPT ![c].task = None, ![c].stolen = @ + 1]
      BY <1>5, Zenon DEF Take
    <2>2. theft[c].task \in Tasks /\ c \in Queues /\ "steal" \in CpuPC \cup IrqPC
      <3>1. pc[c] = "take"  BY <1>5, Zenon DEF Take
      <3>2. theft[c].task # None  BY <1>3, <3>1, SelfFacts DEF Locals, Hand
      <3> QED  BY <3>2, FieldTypes, Numbers DEF CpuPC
    <2>3. /\ pc'[c] = "count" /\ sched'[c].ret = "steal"
          /\ \A b \in Actors \ {c} : pc'[b] = pc[b] /\ sched'[b] = sched[b]
      BY <1>0, <2>1, <2>2, CallDoes, Zenon
    <2>4. \A d \in Cpus \ {c} : theft'[d] = theft[d]  BY <1>0, <2>1, Zenon
    <2>5. At(c)' = "steal"  BY <2>3 DEF At
    <2>6. \A b \in Actors \ {c} : At(b)' = At(b)  BY <2>3, Zenon DEF At
    <2>7. At(c)' \in Onward  BY <2>5 DEF Onward
    <2> QED  BY <1>1, <1>3, <1>5, <2>3, <2>4, <2>6, <2>7, Zenon DEF Thieving, OthersStay
  <1> QED  BY <1>4, <1>5

-----------------------------------------------------------------------------
(* The consumers. *)

\* Every step keeps the consumer of a queue and the thief that holds it in agreement.
LEMMA ConsumersStep ==
  ASSUME SetFacts, TypeOK, Own, Binding, Consumers, Next
  PROVE  Consumers'
  <1>0. /\ consumer \in [Queues -> Cpus \cup {None}] /\ None \notin Cpus /\ None \notin Queues
        /\ Cpus \subseteq Queues /\ Injector \in Queues
    BY TypeFields, Numbers, Zenon
  <1>1. ASSUME consumer' = consumer, \A d \in Cpus : theft'[d].src = theft[d].src
        PROVE  Consumers'
    <2>1. ASSUME NEW r \in Queues, NEW d \in Cpus
          PROVE  consumer'[r] = d <=> theft'[d].src = r
      <3>1. consumer[r] = d <=> theft[d].src = r  BY Zenon DEF Consumers
      <3> QED  BY <1>1, <3>1
    <2> QED  BY <2>1, Zenon DEF Consumers
  <1>2. ASSUME NEW c \in Cpus, NEW q \in Queues, consumer[q] = None, theft[c].src = None,
               consumer' = [consumer EXCEPT ![q] = c], theft'[c].src = q,
               \A d \in Cpus \ {c} : theft'[d] = theft[d]
        PROVE  Consumers'
    <2>1. ASSUME NEW r \in Queues, NEW d \in Cpus
          PROVE  consumer'[r] = d <=> theft'[d].src = r
      <3>1. consumer[r] = d <=> theft[d].src = r  BY Zenon DEF Consumers
      <3>2. consumer'[r] = IF r = q THEN c ELSE consumer[r]  BY <1>0, <1>2, Zenon
      <3>3. CASE d = c  BY <1>0, <1>2, <3>1, <3>2, <3>3
      <3>4. CASE d # c  BY <1>0, <1>2, <3>1, <3>2, <3>4
      <3> QED  BY <3>3, <3>4
    <2> QED  BY <2>1, Zenon DEF Consumers
  <1>3. ASSUME NEW c \in Cpus, theft[c].src \in Queues,
               consumer' = [consumer EXCEPT ![theft[c].src] = None], theft'[c].src = None,
               \A d \in Cpus \ {c} : theft'[d] = theft[d]
        PROVE  Consumers'
    <2>0. PICK q \in Queues : q = theft[c].src  BY <1>3
    <2>1. ASSUME NEW r \in Queues, NEW d \in Cpus
          PROVE  consumer'[r] = d <=> theft'[d].src = r
      <3>1. /\ consumer[r] = d <=> theft[d].src = r
            /\ consumer[q] = c
        BY <2>0, Zenon DEF Consumers
      <3>2. consumer'[r] = IF r = q THEN None ELSE consumer[r]  BY <1>0, <1>3, <2>0, Zenon
      <3>3. CASE d = c  BY <1>0, <1>3, <2>0, <3>1, <3>2, <3>3
      <3>4. CASE d # c  BY <1>0, <1>3, <2>0, <3>1, <3>2, <3>4
      <3> QED  BY <3>3, <3>4
    <2> QED  BY <2>1, Zenon DEF Consumers
  <1>4. ASSUME NEW c \in Cpus, ThiefAct(c)
        PROVE  Consumers'
    <2>0. /\ OthersStay(c) /\ At(c) = pc[c]
          /\ ~TryInjector(c) /\ ~Victim(c) /\ ~Release(c) => consumer' = consumer
      BY <1>4, ThiefSteps, Zenon DEF Thieving
    <2>1. \A d \in Cpus \ {c} : theft'[d] = theft[d]  BY <2>0, Zenon DEF OthersStay
    <2>2. Hand(c) /\ theft[c].src \in Queues \cup {None}  BY FieldTypes, SelfFacts, Zenon DEF Locals
    <2>Same. ASSUME consumer' = consumer, theft'[c].src = theft[c].src  PROVE Consumers'
      BY <1>1, <2>1, <2>Same, Zenon
    <2>3. CASE TryInjector(c)
      <3>1. pc[c] = "inject" /\ TryInjectorMoves(c)  BY <1>4, <2>3, ThiefMoves, Zenon DEF TryInjector
      <3>2. theft[c].src = None  BY <2>0, <2>2, <3>1 DEF Hand, Holding
      <3>3. \/ consumer[Injector] = None /\ theft'[c].src = Injector
            \/ consumer[Injector] # None /\ theft'[c].src = None
        BY <3>1, Zenon DEF TryInjectorMoves, Kept, Cleared, Thief
      <3>4. \/ consumer[Injector] = None /\ consumer' = [consumer EXCEPT ![Injector] = c]
            \/ consumer[Injector] # None /\ consumer' = consumer
        BY <2>3, Zenon DEF TryInjector
      <3>5. CASE consumer[Injector] = None  BY <1>0, <1>2, <1>4, <2>1, <3>2, <3>3, <3>4, <3>5, Zenon
      <3>6. CASE consumer[Injector] # None  BY <2>Same, <3>2, <3>3, <3>4, <3>6, Zenon
      <3> QED  BY <3>5, <3>6
    <2>4. CASE Victim(c)
      <3>1. pc[c] = "victim" /\ VictimMoves(c)  BY <1>4, <2>4, ThiefMoves, Zenon DEF Victim
      <3>2. theft[c].src = None  BY <2>0, <2>2, <3>1 DEF Hand, Holding
      <3>3. PICK v \in Cpus : v = Nth(theft[c].next)
        <4>1. Theft(c, theft[c])  BY SelfFacts, Zenon DEF Locals
        <4> QED  BY <1>4, <2>0, <3>1, <4>1, VictimFacts, Zenon
      <3>4. \/ consumer' = consumer /\ theft'[c].src = None
            \/ consumer[v] = None /\ consumer' = [consumer EXCEPT ![v] = c] /\ theft'[c].src = v
        BY <3>1, <3>3, Zenon DEF VictimMoves, Kept, NewRound, Stepped, Thief
      <3> QED  BY <1>0, <1>2, <1>4, <2>Same, <2>1, <3>2, <3>4, Zenon
    <2>5. CASE Release(c)
      <3>1. pc[c] = "release" /\ ReleaseMoves(c) /\ consumer' = [consumer EXCEPT ![theft[c].src] = None]
        BY <1>4, <2>5, ThiefMoves, Zenon DEF Release
      <3>2. theft[c].src \in Queues  BY <2>0, <2>2, <3>1 DEF Hand, Holding
      <3>3. theft'[c].src = None
        BY <3>1, Zenon DEF ReleaseMoves, Kept, Cleared, NewRound, Stepped, Thief
      <3> QED  BY <1>3, <1>4, <2>1, <3>1, <3>2, <3>3, Zenon
    <2>6. CASE ~TryInjector(c) /\ ~Victim(c) /\ ~Release(c)
      <3>1. \/ InjectorLenMoves(c) \/ (pc[c] = "round" /\ CountWorkersMoves(c))
            \/ (pc[c] = "round" /\ RoundMoves(c)) \/ VictimLenMoves(c) \/ StealMoves(c) \/ TakeMoves(c)
        BY <1>4, <2>6, ThiefMoves, Zenon DEF ThiefAct, Round, CountWorkers
      <3>2. pc[c] = "round" => theft[c].src = None  BY <2>0, <2>2 DEF Hand, Holding
      <3>3. theft'[c].src = theft[c].src
        BY <3>1, <3>2, Zenon DEF InjectorLenMoves, CountWorkersMoves, RoundMoves, VictimLenMoves,
             StealMoves, TakeMoves, Kept, Cleared, Thief
      <3> QED  BY <2>0, <2>6, <2>Same, <3>3
    <2> QED  BY <2>3, <2>4, <2>5, <2>6
  <1>5. ASSUME NEW a \in Actors, InnerAct(a)  PROVE Consumers'
    <2>1. theft' = theft /\ consumer' = consumer  BY <1>5, InnerSteps, Zenon DEF Inner
    <2> QED  BY <1>1, <2>1, Zenon
  <1>6. ASSUME NEW c \in Cpus, \/ WorkerId(c) \/ Register(c) \/ Wait(c) \/ WakeUp(c) \/ PollClose(c) \/ WakeOne(c)
        PROVE  theft' = theft /\ consumer' = consumer
    BY <1>6, Zenon DEF WorkerId, Register, Wait, WakeUp, PollClose, WakeOne
  <1>7. ASSUME NEW i \in Irqs, WakeOne(i)  PROVE theft' = theft /\ consumer' = consumer
    BY <1>7, Zenon DEF WakeOne
  <1> QED  BY <1>1, <1>4, <1>5, <1>6, <1>7, SleepCases, Zenon

-----------------------------------------------------------------------------
(* The sleepers. *)

\* What Append and Tail do to a queue of waiters without duplicates.
LEMMA Waiters ==
  ASSUME NEW w \in Seq(Cpus), Once(w)
  PROVE  /\ \A e \in Cpus : ~Waits(w, e) =>
              /\ Once(Append(w, e)) /\ Append(w, e) # <<>>
              /\ \A c \in Cpus : Waits(Append(w, e), c) <=> Waits(w, c) \/ c = e
         /\ w # <<>> =>
              /\ Head(w) \in Cpus /\ Waits(w, Head(w)) /\ Once(Tail(w))
              /\ \A c \in Cpus : Waits(Tail(w), c) <=> Waits(w, c) /\ c # Head(w)
         /\ Once(<<>>) /\ \A c \in Cpus : ~Waits(<<>>, c)
  <1>0. PICK n \in Nat : n = Len(w)  OBVIOUS
  <1>1. ASSUME NEW e \in Cpus, ~Waits(w, e)
        PROVE  /\ Once(Append(w, e)) /\ Append(w, e) # <<>>
               /\ \A c \in Cpus : Waits(Append(w, e), c) <=> Waits(w, c) \/ c = e
    <2>a. Append(w, e) \in Seq(Cpus)  OBVIOUS
    <2>0. PICK v \in Seq(Cpus) : v = Append(w, e)  BY <2>a, Zenon
    <2>1. /\ DOMAIN w = 1 .. n /\ DOMAIN v = 1 .. n + 1 /\ v[n + 1] = e
          /\ \A j \in 1 .. n : v[j] = w[j]
      BY <1>0, <2>0
    <2>2. 1 .. n + 1 = (1 .. n) \cup {n + 1} /\ n + 1 \notin 1 .. n  OBVIOUS
    <2>3. \A c \in Cpus : Waits(v, c) <=> Waits(w, c) \/ c = e  BY <2>1, <2>2, Zenon DEF Waits
    <2>4. Once(v)
      <3>1. \A i, j \in 1 .. n : w[i] = w[j] => i = j  BY <2>1, Zenon DEF Once
      <3>2. \A i \in 1 .. n : w[i] # e  BY <1>1, <2>1, Zenon DEF Waits
      <3> QED  BY <2>1, <2>2, <3>1, <3>2 DEF Once
    <2>5. v # <<>>  BY <2>1
    <2> QED  BY <2>0, <2>3, <2>4, <2>5, Zenon
  <1>2. ASSUME w # <<>>
        PROVE  /\ Head(w) \in Cpus /\ Waits(w, Head(w)) /\ Once(Tail(w))
               /\ \A c \in Cpus : Waits(Tail(w), c) <=> Waits(w, c) /\ c # Head(w)
    <2>a. Tail(w) \in Seq(Cpus)  BY <1>2
    <2>0. PICK v \in Seq(Cpus) : v = Tail(w)  BY <2>a, Zenon
    <2>1. /\ n > 0 /\ DOMAIN w = 1 .. n /\ DOMAIN v = 1 .. n - 1
          /\ Head(w) = w[1] /\ w[1] \in Cpus
          /\ \A j \in 1 .. n - 1 : v[j] = w[j + 1]
      BY <1>0, <1>2, <2>0
    <2>2. Waits(w, Head(w))
      <3>1. 1 \in 1 .. n  BY <2>1
      <3> QED  BY <2>1, <3>1, Zenon DEF Waits
    <2>3. ASSUME NEW c \in Cpus, Waits(v, c)  PROVE Waits(w, c) /\ c # Head(w)
      <3>1. PICK j \in 1 .. n - 1 : w[j + 1] = c  BY <2>1, <2>3 DEF Waits
      <3>2. j + 1 \in 1 .. n /\ j + 1 # 1 /\ 1 \in 1 .. n  BY <2>1, <3>1
      <3>3. w[j + 1] # w[1]  BY <2>1, <3>2, Zenon DEF Once
      <3> QED  BY <2>1, <3>1, <3>2, <3>3, Zenon DEF Waits
    <2>4. ASSUME NEW c \in Cpus, Waits(w, c), c # Head(w)  PROVE Waits(v, c)
      <3>1. PICK j \in 1 .. n : w[j] = c  BY <2>1, <2>4, Zenon DEF Waits
      <3>2. j # 1  BY <2>1, <2>4, <3>1
      <3>3. j - 1 \in 1 .. n - 1 /\ (j - 1) + 1 = j  BY <2>1, <3>2
      <3>4. v[j - 1] = c  BY <2>1, <3>1, <3>3
      <3> QED  BY <2>1, <3>3, <3>4, Zenon DEF Waits
    <2>5. ASSUME NEW i \in DOMAIN v, NEW j \in DOMAIN v, v[i] = v[j]  PROVE i = j
      <3>1. /\ i \in Int /\ j \in Int /\ i + 1 \in DOMAIN w /\ j + 1 \in DOMAIN w
            /\ w[i + 1] = w[j + 1]
        BY <2>1, <2>5
      <3>2. i + 1 = j + 1  BY <3>1, Zenon DEF Once
      <3> QED  BY <3>1, <3>2
    <2>6. Once(v)  BY <2>5, Zenon DEF Once
    <2> QED  BY <2>0, <2>1, <2>2, <2>3, <2>4, <2>6, Zenon
  <1>3. Once(<<>>) /\ \A c \in Cpus : ~Waits(<<>>, c)  BY DEF Once, Waits
  <1> QED  BY <1>1, <1>2, <1>3, Zenon

\* A step that ends at a place of its own.
LEMMA Moved ==
  ASSUME TypeOK, NEW a \in Actors, NEW to \in {"register", "run", "tick", "done", "asleep", "idle"},
         pc' = [pc EXCEPT ![a] = to], sched' = sched
  PROVE  /\ pc'[a] = to /\ At(a)' = to
         /\ \A b \in Actors \ {a} : pc'[b] = pc[b] /\ sched'[b] = sched[b] /\ At(b)' = At(b)
  <1>1. pc'[a] = to /\ \A b \in Actors \ {a} : pc'[b] = pc[b] /\ sched'[b] = sched[b]
    BY TypeFields, Zenon
  <1>2. At(a)' = to  BY <1>1 DEF At
  <1>3. \A b \in Actors \ {a} : At(b)' = At(b)  BY <1>1, Zenon DEF At
  <1> QED  BY <1>1, <1>2, <1>3, Zenon

\* Every step keeps the wait queue in agreement with the workers' places.
LEMMA SleepersStep ==
  ASSUME SetFacts, TypeOK, Own, Binding, Sleepers, Next
  PROVE  Sleepers'
  <1>0. /\ notified \in [Cpus -> {"no", "woken", "closed"}] /\ Cpus \subseteq Actors
        /\ Irqs \cap Cpus = {} /\ Irqs \subseteq Actors
        /\ sleepers \in [permit : BOOLEAN, waiters : Seq(Cpus), closed : BOOLEAN]
    BY TypeFields, Numbers, Zenon
  <1>w. PICK w \in Seq(Cpus) : w = sleepers.waiters  BY <1>0
  <1>s. /\ \A c \in Cpus : Waits(w, c) <=> At(c) = "asleep" /\ notified[c] = "no"
        /\ Once(w)
        /\ \A c \in Cpus : notified[c] # "no" => At(c) = "asleep"
        /\ \A c \in Cpus : At(c) = "done" \/ notified[c] = "closed" => sleepers.closed
        /\ sleepers.permit => w = <<>>
        /\ sleepers.closed => ~sleepers.permit /\ w = <<>>
    BY <1>w, Zenon DEF Sleepers
  <1>Same. ASSUME sleepers' = sleepers, notified' = notified,
                  \A c \in Cpus : At(c)' = "asleep" <=> At(c) = "asleep",
                  \A c \in Cpus : At(c)' = "done" => At(c) = "done" \/ sleepers.closed
           PROVE  Sleepers'
    BY <1>Same, Zenon DEF Sleepers
  <1>1. ASSUME NEW a \in Actors, InnerAct(a)  PROVE Sleepers'
    <2>1. Inner(a)  BY <1>1, InnerSteps
    <2>2. sleepers' = sleepers /\ notified' = notified /\ OthersStay(a)  BY <2>1, Zenon DEF Inner
    <2>3. ASSUME NEW c \in Cpus
          PROVE  /\ At(c)' = "asleep" <=> At(c) = "asleep"
                 /\ At(c)' = "done" => At(c) = "done" \/ sleepers.closed
      <3>1. CASE c # a
        <4>1. At(c)' = At(c)  BY <1>0, <2>2, <3>1, Zenon DEF OthersStay
        <4> QED  BY <4>1, Zenon
      <3>2. CASE c = a
        <4>1. \/ At(c)' = At(c)
              \/ At(c) \in Working \ Starting /\ At(c)' \in Working \ Starting
              \/ At(c) = "check" /\ At(c)' = "inject"
              \/ At(c) = "run" /\ At(c)' = "done" /\ sleepers.closed
          BY <2>1, <3>2, Zenon DEF Inner
        <4> QED  BY <4>1 DEF Working, Starting
      <3> QED  BY <3>1, <3>2
    <2> QED  BY <1>Same, <2>2, <2>3, Zenon
  <1>2. ASSUME NEW c \in Cpus, ThiefAct(c)  PROVE Sleepers'
    <2>1. Thieving(c)  BY <1>2, ThiefSteps
    <2>2. sleepers' = sleepers /\ notified' = notified /\ OthersStay(c)  BY <2>1, Zenon DEF Thieving
    <2>3. ASSUME NEW d \in Cpus
          PROVE  /\ At(d)' = "asleep" <=> At(d) = "asleep"
                 /\ At(d)' = "done" => At(d) = "done" \/ sleepers.closed
      <3>1. CASE d # c
        <4>1. At(d)' = At(d)  BY <1>0, <2>2, <3>1, Zenon DEF OthersStay
        <4> QED  BY <4>1, Zenon
      <3>2. CASE d = c  BY <2>1, <3>2 DEF Thieving, Stealing, Holding, Onward
      <3> QED  BY <3>1, <3>2
    <2> QED  BY <1>Same, <2>2, <2>3, Zenon
  <1>3. ASSUME NEW c \in Cpus, WorkerId(c) \/ Register(c)  PROVE Sleepers'
    <2>1. /\ sleepers' = sleepers /\ notified' = notified /\ sched' = sched
          /\ \/ pc[c] = "new" /\ pc' = [pc EXCEPT ![c] = "register"]
             \/ pc[c] = "register" /\ pc' = [pc EXCEPT ![c] = "run"]
      BY <1>3, Zenon DEF WorkerId, Register, Goto
    <2>2. PICK to \in {"register", "run"} : pc' = [pc EXCEPT ![c] = to]  BY <2>1
    <2>3. At(c) \in {"new", "register"}  BY <2>1 DEF At
    <2>4. c \in Actors /\ to \in {"register", "run", "tick", "done", "asleep", "idle"}  BY <1>0, <1>3, <2>2
    <2>5. /\ At(c)' = to /\ \A b \in Actors \ {c} : At(b)' = At(b)  BY <2>1, <2>2, <2>4, Moved, Zenon
    <2>6. At(c) \notin {"asleep", "done"} /\ At(c)' \notin {"asleep", "done"}  BY <2>2, <2>3, <2>5
    <2> QED  BY <1>0, <1>Same, <2>1, <2>5, <2>6, Zenon
  <1>4. ASSUME NEW c \in Cpus, Wait(c)  PROVE Sleepers'
    <2>0. /\ pc[c] = "wait" /\ sched' = sched /\ notified' = notified /\ c \in Actors
      BY <1>0, <1>4, Zenon DEF Wait
    <2>1. At(c) = "wait"  BY <2>0 DEF At
    <2>2. notified[c] = "no" /\ ~Waits(w, c)
      <3>1. At(c) # "asleep"  BY <2>1
      <3> QED  BY <1>4, <1>s, <3>1, Zenon
    <2>3. CASE sleepers.closed /\ pc' = [pc EXCEPT ![c] = "done"] /\ sleepers' = sleepers
      <3>1. /\ At(c)' = "done" /\ \A b \in Actors \ {c} : At(b)' = At(b)  BY <2>0, <2>3, Moved
      <3>2. At(c)' # "asleep" /\ At(c) # "asleep"  BY <2>1, <3>1
      <3> QED  BY <1>0, <1>Same, <2>0, <2>3, <3>1, <3>2, Zenon
    <2>4. CASE /\ ~sleepers.closed /\ sleepers.permit
               /\ pc' = [pc EXCEPT ![c] = "tick"]
               /\ sleepers' = [sleepers EXCEPT !.permit = FALSE]
      <3>1. /\ At(c)' = "tick" /\ \A b \in Actors \ {c} : At(b)' = At(b)  BY <2>0, <2>4, Moved
      <3>2. ~sleepers'.permit /\ sleepers'.waiters = w /\ ~sleepers'.closed  BY <1>0, <1>w, <2>4
      <3>3. At(c)' \notin {"asleep", "done"} /\ At(c) \notin {"asleep", "done"}  BY <2>1, <3>1
      <3>4. \A d \in Cpus : /\ At(d)' = "asleep" <=> At(d) = "asleep"
                            /\ At(d)' = "done" <=> At(d) = "done"
        BY <1>0, <3>1, <3>3, Zenon
      <3> QED  BY <1>s, <2>0, <2>4, <3>2, <3>4, Zenon DEF Sleepers
    <2>5. CASE /\ ~sleepers.closed /\ ~sleepers.permit
               /\ pc' = [pc EXCEPT ![c] = "asleep"]
               /\ sleepers' = [sleepers EXCEPT !.waiters = Append(sleepers.waiters, c)]
      <3>1. /\ At(c)' = "asleep" /\ \A b \in Actors \ {c} : At(b)' = At(b)  BY <2>0, <2>5, Moved
      <3>2. ~sleepers'.permit /\ sleepers'.waiters = Append(w, c) /\ ~sleepers'.closed
        BY <1>0, <1>w, <2>5
      <3>3. At(c)' # "done" /\ At(c) \notin {"asleep", "done"}  BY <2>1, <3>1
      <3>4. \A d \in Cpus : /\ At(d)' = "asleep" <=> At(d) = "asleep" \/ d = c
                            /\ At(d)' = "done" <=> At(d) = "done"
        BY <1>0, <3>1, <3>3, Zenon
      <3>5. /\ Once(Append(w, c))
            /\ \A d \in Cpus : Waits(Append(w, c), d) <=> Waits(w, d) \/ d = c
        BY <1>4, <1>s, <2>2, Waiters, Zenon
      <3>6. \A d \in Cpus : Waits(sleepers'.waiters, d) <=> At(d)' = "asleep" /\ notified'[d] = "no"
        BY <1>s, <2>0, <2>2, <3>2, <3>4, <3>5, Zenon
      <3> QED  BY <1>s, <2>0, <2>5, <3>2, <3>4, <3>5, <3>6, Zenon DEF Sleepers
    <2> QED  BY <1>4, <2>3, <2>4, <2>5, Zenon DEF Wait
  <1>5. ASSUME NEW c \in Cpus, WakeUp(c)  PROVE Sleepers'
    <2>0. /\ pc[c] = "asleep" /\ sched' = sched /\ notified' = [notified EXCEPT ![c] = "no"]
          /\ notified[c] # "no" /\ c \in Actors /\ sleepers' = sleepers
          /\ \/ notified[c] = "closed" /\ pc' = [pc EXCEPT ![c] = "done"]
             \/ notified[c] # "closed" /\ pc' = [pc EXCEPT ![c] = "tick"]
      BY <1>0, <1>5, Zenon DEF WakeUp, Goto
    <2>1. PICK to \in {"done", "tick"} : pc' = [pc EXCEPT ![c] = to] /\ (to = "done" => notified[c] = "closed")
      BY <2>0
    <2>2. to \in {"register", "run", "tick", "done", "asleep", "idle"} /\ to # "asleep"  BY <2>1
    <2>3. At(c)' = to /\ \A b \in Actors \ {c} : At(b)' = At(b)  BY <2>0, <2>1, <2>2, Moved, Zenon
    <2>4. notified'[c] = "no" /\ \A d \in Cpus \ {c} : notified'[d] = notified[d]
      BY <1>0, <2>0, Zenon
    <2>5. "no" # "closed"  OBVIOUS
    <2>6. ASSUME NEW d \in Cpus
          PROVE  /\ Waits(w, d) <=> At(d)' = "asleep" /\ notified'[d] = "no"
                 /\ notified'[d] # "no" => At(d)' = "asleep"
                 /\ At(d)' = "done" \/ notified'[d] = "closed" => sleepers.closed
      <3>1. CASE d = c  BY <1>5, <1>s, <2>0, <2>1, <2>2, <2>3, <2>4, <2>5, <3>1, Zenon
      <3>2. CASE d # c  BY <1>0, <1>s, <2>3, <2>4, <3>2, Zenon
      <3> QED  BY <3>1, <3>2
    <2> QED  BY <1>s, <1>w, <2>0, <2>6, Zenon DEF Sleepers
  <1>6. ASSUME NEW c \in Cpus, PollClose(c)  PROVE Sleepers'
    <2>0. /\ sched' = sched /\ pc' = pc
          /\ sleepers' = [permit |-> FALSE, waiters |-> <<>>, closed |-> TRUE]
          /\ notified' = [d \in Cpus |-> IF Waits(sleepers.waiters, d) THEN "closed" ELSE notified[d]]
      BY <1>6, Zenon DEF PollClose, Waits
    <2>1. ~sleepers'.permit /\ sleepers'.waiters = <<>> /\ sleepers'.closed  BY <2>0
    <2>2. \A d \in Cpus : At(d)' = At(d)  BY <2>0, Zenon DEF At
    <2>3. Once(<<>>) /\ \A d \in Cpus : ~Waits(<<>>, d)  BY <1>s, Waiters, Zenon
    <2>4. "closed" # "no"  OBVIOUS
    <2>5. ASSUME NEW d \in Cpus
          PROVE  /\ ~(At(d)' = "asleep" /\ notified'[d] = "no")
                 /\ notified'[d] # "no" => At(d)' = "asleep"
      <3>1. notified'[d] = IF Waits(w, d) THEN "closed" ELSE notified[d]  BY <1>w, <2>0, Zenon
      <3> QED  BY <1>s, <2>2, <2>4, <3>1, Zenon
    <2> QED  BY <2>1, <2>3, <2>5, Zenon DEF Sleepers
  <1>7. ASSUME NEW i \in Irqs, WakeOne(i)  PROVE Sleepers'
    <2>0. /\ sched' = sched /\ pc' = [pc EXCEPT ![i] = "idle"] /\ i \in Actors /\ i \notin Cpus
          /\ \/ /\ w # <<>> /\ sleepers' = [sleepers EXCEPT !.waiters = Tail(w)]
                /\ notified' = [notified EXCEPT ![Head(w)] = "woken"]
             \/ /\ w = <<>> /\ notified' = notified
                /\ sleepers' = [sleepers EXCEPT !.permit = ~sleepers.closed]
      BY <1>0, <1>7, <1>w, Zenon DEF WakeOne, Goto
    <2>1. \A d \in Cpus : At(d)' = At(d)
      <3>1. \A b \in Actors \ {i} : At(b)' = At(b)  BY <2>0, Moved
      <3> QED  BY <1>0, <2>0, <3>1, Zenon
    <2>2. CASE w = <<>>
      <3>1. /\ sleepers'.waiters = w /\ sleepers'.closed = sleepers.closed
            /\ sleepers'.permit = ~sleepers.closed
        BY <1>0, <1>w, <2>0, <2>2
      <3> QED  BY <1>s, <2>0, <2>1, <2>2, <3>1, Zenon DEF Sleepers
    <2>3. CASE w # <<>>
      <3>1. /\ sleepers'.waiters = Tail(w) /\ sleepers'.closed = sleepers.closed
            /\ sleepers'.permit = sleepers.permit
        BY <1>0, <1>w, <2>0, <2>3
      <3>2. PICK h \in Cpus : h = Head(w)  BY <1>s, <2>3, Waiters, Zenon
      <3>3. /\ Waits(w, h) /\ Once(Tail(w))
            /\ \A d \in Cpus : Waits(Tail(w), d) <=> Waits(w, d) /\ d # h
        BY <1>s, <2>3, <3>2, Waiters, Zenon
      <3>4. notified'[h] = "woken" /\ \A d \in Cpus \ {h} : notified'[d] = notified[d]
        BY <1>0, <2>0, <2>3, <3>2, Zenon
      <3>5. "woken" # "no" /\ "woken" # "closed"  OBVIOUS
      <3>6. ASSUME NEW d \in Cpus
            PROVE  /\ Waits(Tail(w), d) <=> At(d)' = "asleep" /\ notified'[d] = "no"
                   /\ notified'[d] # "no" => At(d)' = "asleep"
                   /\ At(d)' = "done" \/ notified'[d] = "closed" => sleepers'.closed
        <4>1. CASE d = h  BY <1>s, <2>1, <3>1, <3>3, <3>4, <3>5, <4>1, Zenon
        <4>2. CASE d # h  BY <1>s, <2>1, <3>1, <3>3, <3>4, <4>2, Zenon
        <4> QED  BY <4>1, <4>2
      <3> QED  BY <1>s, <2>3, <3>1, <3>3, <3>6, Zenon DEF Sleepers
    <2> QED  BY <2>2, <2>3
  <1> QED  BY <1>1, <1>2, <1>3, <1>4, <1>5, <1>6, <1>7, SleepCases, Zenon

-----------------------------------------------------------------------------
(* The order in which the schedulers are created. *)

\* What the proofs use of the first CPUs; module ExecutorProofs derives it.
Segments ==
  \A n \in 0 .. NumCpus :
    /\ Cardinality(0 .. n - 1) = n
    /\ \A c \in 0 .. n - 1 : Cardinality({d \in 0 .. n - 1 : d < c}) = c

\* Every step keeps the workers registered in the order of their positions.
LEMMA OrderStep ==
  ASSUME SetFacts, Segments, TypeOK, Own, Binding, InOrder, Next
  PROVE  InOrder' /\ (IdsSoFar' => IdsSoFar)
  <1>0. /\ id \in [Cpus -> Cpus \cup {None}] /\ Cpus \subseteq Actors /\ None \notin Cpus
        /\ Irqs \cap Cpus = {} /\ Irqs \subseteq Actors
    BY TypeFields, Numbers, Zenon
  <1>Same. ASSUME id' = id, online' = online, \A c \in Cpus : At(c)' = "register" => At(c) = "register"
           PROVE  InOrder' /\ (IdsSoFar' => IdsSoFar)
    BY <1>Same, Zenon DEF InOrder, IdsSoFar
  <1>1. ASSUME NEW a \in Actors, InnerAct(a)  PROVE InOrder' /\ (IdsSoFar' => IdsSoFar)
    <2>1. Inner(a)  BY <1>1, InnerSteps
    <2>2. id' = id /\ online' = online /\ OthersStay(a)  BY <2>1, Zenon DEF Inner
    <2>3. ASSUME NEW c \in Cpus, At(c)' = "register"  PROVE At(c) = "register"
      <3>1. CASE c # a
        <4>1. At(c)' = At(c)  BY <1>0, <2>2, <3>1, Zenon DEF OthersStay
        <4> QED  BY <2>3, <4>1, Zenon
      <3>2. CASE c = a
        <4>1. \/ At(c)' = At(c)
              \/ At(c) \in Working \ Starting /\ At(c)' \in Working \ Starting
              \/ At(c) = "check" /\ At(c)' = "inject"
              \/ At(c) = "run" /\ At(c)' = "done"
          BY <2>1, <3>2, Zenon DEF Inner
        <4> QED  BY <2>3, <4>1 DEF Working, Starting
      <3> QED  BY <3>1, <3>2
    <2> QED  BY <1>Same, <2>2, <2>3, Zenon
  <1>2. ASSUME NEW c \in Cpus, ThiefAct(c)  PROVE InOrder' /\ (IdsSoFar' => IdsSoFar)
    <2>1. Thieving(c)  BY <1>2, ThiefSteps
    <2>2. id' = id /\ online' = online /\ OthersStay(c)  BY <2>1, Zenon DEF Thieving
    <2>3. ASSUME NEW d \in Cpus, At(d)' = "register"  PROVE At(d) = "register"
      <3>1. CASE d # c
        <4>1. At(d)' = At(d)  BY <1>0, <2>2, <3>1, Zenon DEF OthersStay
        <4> QED  BY <2>3, <4>1, Zenon
      <3>2. CASE d = c  BY <2>1, <2>3, <3>2 DEF Thieving, Onward
      <3> QED  BY <3>1, <3>2
    <2> QED  BY <1>Same, <2>2, <2>3, Zenon
  <1>3. ASSUME NEW a \in Actors, NEW to \in {"tick", "done", "asleep", "idle"}, id' = id, online' = online,
               pc' = [pc EXCEPT ![a] = to], sched' = sched
        PROVE  InOrder' /\ (IdsSoFar' => IdsSoFar)
    <2>1. to \in {"register", "run", "tick", "done", "asleep", "idle"} /\ to # "register"  BY <1>3
    <2>2. At(a)' = to /\ \A b \in Actors \ {a} : At(b)' = At(b)  BY <1>3, <2>1, Moved, Zenon
    <2> QED  BY <1>0, <1>3, <1>Same, <2>1, <2>2, Zenon
  <1>4. ASSUME NEW c \in Cpus, Wait(c) \/ WakeUp(c) \/ PollClose(c)
        PROVE  InOrder' /\ (IdsSoFar' => IdsSoFar)
    <2>1. /\ id' = id /\ online' = online /\ sched' = sched
          /\ pc' = pc \/ \E to \in {"tick", "done", "asleep", "idle"} : pc' = [pc EXCEPT ![c] = to]
      BY <1>4, Zenon DEF Wait, WakeUp, PollClose, Goto
    <2>2. pc' = pc => InOrder' /\ (IdsSoFar' => IdsSoFar)  BY <1>Same, <2>1, Zenon DEF At
    <2> QED  BY <1>0, <1>3, <1>4, <2>1, <2>2, Zenon
  <1>5. ASSUME NEW i \in Irqs, WakeOne(i)  PROVE InOrder' /\ (IdsSoFar' => IdsSoFar)
    <2>1. id' = id /\ online' = online /\ sched' = sched /\ pc' = [pc EXCEPT ![i] = "idle"]
      BY <1>5, Zenon DEF WakeOne, Goto
    <2> QED  BY <1>0, <1>3, <1>5, <2>1
  <1>6. ASSUME NEW c \in Cpus, WorkerId(c)  PROVE InOrder' /\ (IdsSoFar' => IdsSoFar)
    <2>0. /\ pc[c] = "new" /\ pc' = [pc EXCEPT ![c] = "register"] /\ sched' = sched /\ online' = online
          /\ id' = [id EXCEPT ![c] = Cardinality(online)] /\ c \in Actors
      BY <1>0, <1>6, Zenon DEF WorkerId, Goto
    <2>1. At(c) = "new"  BY <2>0 DEF At
    <2>2. id[c] = None  BY <1>6, <2>1, SelfFacts, Zenon DEF Locals, Hand
    <2>3. At(c)' = "register" /\ \A b \in Actors \ {c} : At(b)' = At(b)  BY <2>0, Moved
    <2>4. Cardinality(online) \in Cpus
      <3>1. At(c) \in Starting  BY <2>1 DEF Starting
      <3> QED  BY <1>6, <3>1, NextId
    <2>5. id'[c] = Cardinality(online) /\ \A d \in Cpus \ {c} : id'[d] = id[d]  BY <1>0, <2>0, Zenon
    <2>6. ASSUME IdsSoFar'
          PROVE  IdsSoFar /\ \E n \in 0 .. NumCpus : /\ online' = 0 .. n - 1
                                                    /\ \A d \in Cpus : At(d)' = "register" => d = n
      <3>1. IdsSoFar  BY <2>2, <2>5, <2>6, Zenon DEF IdsSoFar
      <3>2. Cardinality(online) = c
        <4>1. id'[c] \in {None, c}  BY <1>6, <2>6, Zenon DEF IdsSoFar
        <4> QED  BY <1>0, <2>4, <2>5, <4>1
      <3>3. PICK n \in 0 .. NumCpus : /\ online = 0 .. n - 1
                                      /\ \A d \in Cpus : At(d) = "register" => d = n
        BY <3>1, Zenon DEF InOrder
      <3>4. n = c  BY <3>2, <3>3, Zenon DEF Segments
      <3>5. \A d \in Cpus : At(d)' = "register" => d = n  BY <1>0, <2>3, <3>3, <3>4, Zenon
      <3> QED  BY <2>0, <3>1, <3>3, <3>5, Zenon
    <2> QED  BY <2>6, Zenon DEF InOrder
  <1>7. ASSUME NEW c \in Cpus, Register(c)  PROVE InOrder' /\ (IdsSoFar' => IdsSoFar)
    <2>0. /\ pc[c] = "register" /\ pc' = [pc EXCEPT ![c] = "run"] /\ sched' = sched
          /\ online' = online \cup {c} /\ id' = id /\ c \in Actors
      BY <1>0, <1>7, Zenon DEF Register, Goto
    <2>1. At(c) = "register"  BY <2>0 DEF At
    <2>2. At(c)' = "run" /\ \A b \in Actors \ {c} : At(b)' = At(b)  BY <2>0, Moved
    <2>3. IdsSoFar' => IdsSoFar  BY <2>0, Zenon DEF IdsSoFar
    <2>4. ASSUME IdsSoFar
          PROVE  \E n \in 0 .. NumCpus : /\ online' = 0 .. n - 1
                                         /\ \A d \in Cpus : At(d)' = "register" => d = n
      <3>1. PICK n \in 0 .. NumCpus : /\ online = 0 .. n - 1
                                      /\ \A d \in Cpus : At(d) = "register" => d = n
        BY <2>4, Zenon DEF InOrder
      <3>2. c = n  BY <1>7, <2>1, <3>1, Zenon
      <3>3. n + 1 \in 0 .. NumCpus /\ (n + 1) - 1 = n /\ 0 .. n = (0 .. n - 1) \cup {n}
        BY <1>7, <3>2, Bounds DEF Cpus
      <3>4. online' = 0 .. (n + 1) - 1  BY <2>0, <3>1, <3>2, <3>3
      <3>5. \A d \in Cpus : At(d)' # "register"
        <4>1. At(c)' # "register"  BY <2>2
        <4> QED  BY <1>0, <2>2, <3>1, <3>2, <4>1, Zenon
      <3> QED  BY <3>3, <3>4, <3>5, Zenon
    <2> QED  BY <2>3, <2>4, Zenon DEF InOrder
  <1> QED  BY <1>1, <1>2, <1>4, <1>5, <1>6, <1>7, SleepCases, Zenon

\* In that order the i-th scheduler is the one of CPU i.
LEMMA NthIs ==
  ASSUME SetFacts, Segments, TypeOK, InOrder, IdsSoFar
  PROVE  /\ \A i \in online : Nth(i) = i
         /\ \A i \in Cpus : i \in online <=> i < Cardinality(online)
  <1>1. PICK n \in 0 .. NumCpus : online = 0 .. n - 1  BY Zenon DEF InOrder
  <1>2. Cardinality(online) = n  BY <1>1, Zenon DEF Segments
  <1>3. ASSUME NEW i \in online  PROVE Nth(i) = i
    <2>1. \A c \in online : Cardinality({d \in online : d < c}) = c  BY <1>1, Zenon DEF Segments
    <2>2. \E c \in online : Cardinality({d \in online : d < c}) = i  BY <1>3, <2>1, Zenon
    <2>3. Nth(i) \in online /\ Cardinality({d \in online : d < Nth(i)}) = i  BY <2>2, Zenon DEF Nth
    <2> QED  BY <2>1, <2>3, Zenon
  <1>4. \A i \in Cpus : i \in online <=> i < n
    BY <1>1, Bounds DEF Cpus
  <1> QED  BY <1>2, <1>3, <1>4

-----------------------------------------------------------------------------
(* The initial state. *)

\* No queue is being consumed and nobody sleeps at the start.
LEMMA SleepInit ==
  ASSUME Init  PROVE Consumers /\ Sleepers /\ InOrder
  <1>0. NoTheft.src = None  BY DEF NoTheft
  <1>1. Consumers
    <2>1. \A q \in Queues, c \in Cpus : consumer[q] = None /\ theft[c] = NoTheft  BY AtStart, Zenon
    <2> QED  BY <1>0, <2>1, Numbers, Zenon DEF Consumers
  <1>2. Sleepers
    <2>1. sleepers.permit = FALSE /\ sleepers.waiters = <<>> /\ sleepers.closed = FALSE  BY AtStart
    <2>2. DOMAIN sleepers.waiters = {}  BY <2>1
    <2>3. \A c \in Cpus : At(c) = "new" /\ notified[c] = "no"  BY AtStart, Zenon
    <2>4. "new" # "asleep" /\ "new" # "done" /\ "no" # "closed"  OBVIOUS
    <2> QED  BY <2>1, <2>2, <2>3, <2>4, Zenon DEF Sleepers, Waits, Once
  <1>3. InOrder
    <2>1. 0 \in 0 .. NumCpus /\ 0 .. 0 - 1 = {}  BY Bounds
    <2>2. online = {} /\ \A c \in Cpus : At(c) # "register"  BY AtStart
    <2> QED  BY <2>1, <2>2, Zenon DEF InOrder
  <1> QED  BY <1>1, <1>2, <1>3, Zenon

-----------------------------------------------------------------------------
(* The life of a task. *)

\* What one step does to a task: nothing, or one of these changes.
LifeMove(u, v) ==
  \/ v = u
  \/ u = "unspawned" /\ v = "queued"
  \/ u = "queued" /\ v = "running"
  \/ u = "running" /\ v \in {"rewoken", "idle", "done"}
  \/ u = "rewoken" /\ v \in {"queued", "done"}
  \/ u = "idle" /\ v = "queued"

\* Every step moves a task along its life cycle.
LEMMA LifeMoves ==
  ASSUME TypeOK, Own, Places, Next, NEW t \in Tasks
  PROVE  LifeMove(task[t], task'[t])
  <1>t. task \in [Tasks -> {"unspawned", "queued", "running", "rewoken", "idle", "done"}]
    BY TypeFields, Zenon
  <1>c. \A c \in Cpus : cur[c] \in Tasks \cup {None}  BY TypeFields, Zenon
  <1>1. ASSUME NEW c \in Cpus, pc[c] \in {"uncount", "poll"}
        PROVE  cur[c] \in Tasks /\ task[cur[c]] \in Phases("cur", c)
    <2>1. At(c) \in {"uncount", "poll"}  BY <1>1 DEF At
    <2>2. cur[c] \in Tasks  BY <1>c, <2>1, Zenon DEF Own, Hands, Hand
    <2>3. "cur" \in Kinds /\ c \in Spots /\ Has("cur", c, cur[c])
      BY Numbers, Zenon DEF Kinds, Spots, Has
    <2> QED  BY <2>2, <2>3, Zenon DEF Places
  <1>2. ASSUME NEW c \in Cpus, Uncount(c)  PROVE LifeMove(task[t], task'[t])
    <2>1. pc[c] = "uncount" /\ task' = [task EXCEPT ![cur[c]] = "running"]  BY <1>2, Zenon DEF Uncount, Goto
    <2>2. cur[c] \in Tasks /\ task[cur[c]] = "queued"
      <3>1. cur[c] \in Tasks /\ task[cur[c]] \in Phases("cur", c)  BY <1>1, <2>1
      <3>2. Phases("cur", c) = {"queued"}  BY <2>1, Zenon DEF Phases
      <3> QED  BY <3>1, <3>2, Zenon
    <2> QED  BY <1>t, <2>1, <2>2, Zenon DEF LifeMove
  <1>3. ASSUME NEW c \in Cpus, pc[c] = "poll"
        PROVE  cur[c] \in Tasks /\ task[cur[c]] \in {"running", "rewoken"}
    <2>1. "poll" # "uncount"  OBVIOUS
    <2>2. Phases("cur", c) = {"running", "rewoken"}  BY <1>3, <2>1, Zenon DEF Phases
    <2>3. cur[c] \in Tasks /\ task[cur[c]] \in Phases("cur", c)  BY <1>1, <1>3
    <2> QED  BY <2>2, <2>3, Zenon
  <1>4. ASSUME NEW c \in Cpus, PollReady(c)  PROVE LifeMove(task[t], task'[t])
    <2>1. pc[c] = "poll" /\ task' = [task EXCEPT ![cur[c]] = "done"]  BY <1>4, Zenon DEF PollReady, Goto
    <2> QED  BY <1>t, <1>3, <2>1, Zenon DEF LifeMove
  <1>5. ASSUME NEW c \in Cpus, PollPending(c)  PROVE LifeMove(task[t], task'[t])
    <2>1. /\ pc[c] = "poll"
          /\ \/ task[cur[c]] = "running" /\ task' = [task EXCEPT ![cur[c]] = "idle"]
             \/ task[cur[c]] = "rewoken" /\ task' = [task EXCEPT ![cur[c]] = "queued"]
      BY <1>5, Zenon DEF PollPending
    <2> QED  BY <1>t, <1>3, <2>1, Zenon DEF LifeMove
  <1>6. ASSUME NEW a \in Actors, NEW u \in Tasks, NEW ret, Spawn(a, u, ret) \/ WakeTask(a, u, ret)
        PROVE  LifeMove(task[t], task'[t])
    <2>1. \/ task[u] \in {"unspawned", "idle"} /\ task' = [task EXCEPT ![u] = "queued"]
          \/ task[u] = "running" /\ task' = [task EXCEPT ![u] = "rewoken"]
      BY <1>6, Zenon DEF Spawn, WakeTask
    <2> QED  BY <1>t, <2>1, Zenon DEF LifeMove
  <1>7. ASSUME NEW c \in Cpus, NEW u \in Tasks, \/ SpawnEarly(c, u) \/ PollSpawn(c, u) \/ PollWake(c, u)
                                                \/ DriveSpawn(c, u) \/ DriveWake(c, u)
        PROVE  LifeMove(task[t], task'[t])
    <2>1. c \in Actors  BY Numbers, Zenon
    <2> QED  BY <1>6, <1>7, <2>1, Zenon DEF SpawnEarly, PollSpawn, PollWake, DriveSpawn, DriveWake
  <1>8. ASSUME NEW i \in Irqs, NEW u \in Tasks, IrqWake(i, u)  PROVE LifeMove(task[t], task'[t])
    <2>1. i \in Actors  BY Numbers, Zenon
    <2> QED  BY <1>6, <1>8, <2>1, Zenon DEF IrqWake
  <1>9. ASSUME NEW a \in Actors, Count(a) \/ Enqueue(a)  PROVE LifeMove(task[t], task'[t])
    BY <1>9, Zenon DEF Count, Enqueue, LifeMove
  <1>10. ASSUME NEW c \in Cpus, \/ WorkerId(c) \/ Register(c) \/ Run(c) \/ Tick(c) \/ Check(c) \/ Wait(c)
                                \/ WakeUp(c) \/ PollClose(c)
         PROVE  LifeMove(task[t], task'[t])
    BY <1>10, Zenon DEF WorkerId, Register, Run, Tick, Check, Wait, WakeUp, PollClose, LifeMove
  <1>11. ASSUME NEW c \in Cpus, ThiefAct(c)  PROVE LifeMove(task[t], task'[t])
    <2>1. task' = task
      BY <1>11, Zenon DEF ThiefAct, TryInjector, InjectorLen, CountWorkers, Round, Victim, VictimLen,
                          Steal, Take, Release
    <2> QED  BY <2>1, Zenon DEF LifeMove
  <1>12. ASSUME NEW i \in Irqs, Interrupt(i) \/ WakeOne(i)  PROVE LifeMove(task[t], task'[t])
    BY <1>12, Zenon DEF Interrupt, WakeOne, LifeMove
  <1>13. ASSUME NEW a \in Actors, InnerAct(a)  PROVE LifeMove(task[t], task'[t])
    BY <1>2, <1>4, <1>5, <1>7, <1>8, <1>9, <1>10, <1>12, <1>13, Zenon DEF InnerAct
  <1> QED  BY <1>10, <1>11, <1>12, <1>13, SleepCases, Zenon

\* Every step is, for each task, one of TaskLifecycle or a stutter.
LEMMA LifeStep ==
  ASSUME TypeOK, Own, Places, Next, NEW t \in Tasks
  PROVE  [Life(t)!Next]_<<PhaseOf(t), OutputOf(t)>>
  <1>1. LifeMove(task[t], task'[t])  BY LifeMoves
  <1>2. /\ task[t] \in {"unspawned", "queued"} => PhaseOf(t) = "queued" /\ OutputOf(t) = "none"
        /\ task[t] \in {"running", "rewoken"} => PhaseOf(t) = "running" /\ OutputOf(t) = "none"
        /\ task[t] = "idle" => PhaseOf(t) = "idle" /\ OutputOf(t) = "none"
    BY DEF PhaseOf, OutputOf
  <1>3. /\ task'[t] \in {"unspawned", "queued"} => PhaseOf(t)' = "queued" /\ OutputOf(t)' = "none"
        /\ task'[t] \in {"running", "rewoken"} => PhaseOf(t)' = "running" /\ OutputOf(t)' = "none"
        /\ task'[t] = "idle" => PhaseOf(t)' = "idle" /\ OutputOf(t)' = "none"
        /\ task'[t] = "done" => PhaseOf(t)' = "complete" /\ OutputOf(t)' = "ready"
    BY DEF PhaseOf, OutputOf
  <1>4. CASE task'[t] = task[t]
    <2>1. PhaseOf(t)' = PhaseOf(t) /\ OutputOf(t)' = OutputOf(t)  BY <1>4, Zenon DEF PhaseOf, OutputOf
    <2> QED  BY <2>1, Zenon
  <1>5. CASE task[t] = "queued" /\ task'[t] = "running"
    BY <1>2, <1>3, <1>5 DEF Life!Next, Life!Start, Life!Move
  <1>6. CASE task[t] = "running" /\ task'[t] = "idle"
    BY <1>2, <1>3, <1>6 DEF Life!Next, Life!Park, Life!Move
  <1>7. CASE task[t] \in {"running", "rewoken"} /\ task'[t] = "done"
    BY <1>2, <1>3, <1>7 DEF Life!Next, Life!Complete
  <1>8. CASE task[t] = "rewoken" /\ task'[t] = "queued"
    BY <1>2, <1>3, <1>8 DEF Life!Next, Life!Yield, Life!Move
  <1>9. CASE task[t] = "idle" /\ task'[t] = "queued"
    BY <1>2, <1>3, <1>9 DEF Life!Next, Life!Wake, Life!Move
  <1>10. CASE (task[t] = "unspawned" /\ task'[t] = "queued") \/ (task[t] = "running" /\ task'[t] = "rewoken")
    BY <1>2, <1>3, <1>10
  <1> QED  BY <1>1, <1>4, <1>5, <1>6, <1>7, <1>8, <1>9, <1>10 DEF LifeMove
=============================================================================
