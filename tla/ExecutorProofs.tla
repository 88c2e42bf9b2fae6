--------------------------- MODULE ExecutorProofs ---------------------------
(***************************************************************************)
(* The theorems about module Executor, for any number of CPUs, tasks and   *)
(* trap handlers, after the last part of the inductive invariant: unless a *)
(* driven future spawns or wakes tasks of its own, a queue with a task is  *)
(* looked at by a worker that is awake, or will be, before everyone is     *)
(* asleep.                                                                 *)
(***************************************************************************)
EXTENDS ExecutorSleep, FiniteSetTheorems, WellFoundedInduction

Covered(q) == Alert \/ \E c \in Cpus : Visits(c, q)

-----------------------------------------------------------------------------
(* The victims of a round. *)

\* A round that starts anywhere comes to every victim.
LEMMA AheadAll ==
  ASSUME NEW q \in Nat, NEW n \in Nat, NEW x \in Nat, q < n, x < n
  PROVE  Ahead(q, n, x, n, 0)
  <1>1. CASE x <= q
    <2>1. q - x \in 0 .. n - 1 /\ x + (q - x) = q  BY <1>1
    <2> QED  BY <2>1, Zenon DEF Ahead
  <1>2. CASE q < x
    <2>1. q + n - x \in 0 .. n - 1 /\ x + (q + n - x) = q + n  BY <1>2
    <2> QED  BY <2>1, Zenon DEF Ahead
  <1> QED  BY <1>1, <1>2

\* A victim that is not the one looked at is still ahead after it.
LEMMA AheadSkip ==
  ASSUME NEW q \in Nat, NEW n \in Nat, NEW x \in Nat, NEW l \in Nat, q < n, x < n, x # q,
         Ahead(q, n, x, l, 0)
  PROVE  Ahead(q, n, x, l, 1)
  <1>1. PICK j \in 0 .. l - 1 : x + j = q \/ x + j = q + n  BY Zenon DEF Ahead
  <1>2. j \in 1 .. l - 1  BY <1>1
  <1> QED  BY <1>1, <1>2, Zenon DEF Ahead

\* Going on to the next victim leaves those ahead of it ahead.
LEMMA AheadNext ==
  ASSUME NEW q \in Nat, NEW n \in Nat, NEW x \in Nat, NEW l \in Nat, q < n, x < n,
         Ahead(q, n, x, l, 1)
  PROVE  Ahead(q, n, IF x + 1 = n THEN 0 ELSE x + 1, l - 1, 0)
  <1>1. PICK j \in 1 .. l - 1 : x + j = q \/ x + j = q + n  BY Zenon DEF Ahead
  <1>2. j - 1 \in 0 .. (l - 1) - 1  BY <1>1
  <1>3. CASE x + 1 = n
    <2>1. 0 + (j - 1) = q  BY <1>1, <1>3
    <2> QED  BY <1>2, <1>3, <2>1 DEF Ahead
  <1>4. CASE x + 1 # n
    <2>1. (x + 1) + (j - 1) = q \/ (x + 1) + (j - 1) = q + n  BY <1>1
    <2>2. Ahead(q, n, x + 1, l - 1, 0)  BY <1>2, <2>1, Zenon DEF Ahead
    <2> QED  BY <1>4, <2>2
  <1> QED  BY <1>3, <1>4

-----------------------------------------------------------------------------
(* Who stands behind a task in a queue that looks empty or busy. *)

\* A counter that is 0 belongs to an empty queue; a counter that is not, with the
\* queue empty, to an actor between the queue and the counter.
LEMMA Counted ==
  ASSUME SetFacts, TypeOK, QueuedCounts, NEW q \in Queues
  PROVE  /\ queued[q] = 0 => \A t \in Tasks : ~InQueue(q, t)
         /\ queued[q] > 0 /\ queue[q] = <<>> =>
              \/ \E a \in Actors : pc[a] = "enqueue" /\ sched[a].dest = q
              \/ \E c \in Cpus : pc[c] \in {"uncount", "take"}
  <1>0. PICK E \in SUBSET Actors, U \in SUBSET Actors, K \in SUBSET Actors :
          /\ E = {a \in Actors : pc[a] = "enqueue" /\ sched[a].dest = q}
          /\ U = {d \in Cpus : pc[d] = "uncount" /\ d = q}
          /\ K = {d \in Cpus : pc[d] = "take" /\ theft[d].src = q}
    <2>1. /\ {a \in Actors : pc[a] = "enqueue" /\ sched[a].dest = q} \in SUBSET Actors
          /\ {d \in Cpus : pc[d] = "uncount" /\ d = q} \in SUBSET Actors
          /\ {d \in Cpus : pc[d] = "take" /\ theft[d].src = q} \in SUBSET Actors
      BY Numbers, Zenon
    <2> QED  BY <2>1, Zenon
  <1>1. /\ Cardinality(E) \in Nat /\ Cardinality(U) \in Nat /\ Cardinality(K) \in Nat
        /\ Cardinality(E) = 0 <=> E = {}
        /\ Cardinality(U) = 0 <=> U = {}
        /\ Cardinality(K) = 0 <=> K = {}
    BY Zenon DEF SetFacts
  <1>2. queued[q] = Len(queue[q]) + Cardinality(E) + Cardinality(U) + Cardinality(K)
    BY <1>0, Zenon DEF QueuedCounts
  <1>3. queue[q] \in Seq(Tasks)  BY TypeFields, Zenon
  <1>4. PICK n \in Nat, e \in Nat, u \in Nat, k \in Nat :
          n = Len(queue[q]) /\ e = Cardinality(E) /\ u = Cardinality(U) /\ k = Cardinality(K)
    <2>1. Len(queue[q]) \in Nat  BY <1>3
    <2> QED  BY <1>1, <2>1, Zenon
  <1>5. queued[q] = n + e + u + k  BY <1>2, <1>4, Zenon
  <1>6. ASSUME queued[q] = 0, NEW t \in Tasks, InQueue(q, t)  PROVE FALSE
    <2>1. n = 0  BY <1>5, <1>6
    <2>2. DOMAIN queue[q] = 1 .. n  BY <1>3, <1>4
    <2>3. DOMAIN queue[q] = {}  BY <2>1, <2>2
    <2> QED  BY <1>6, <2>3, Zenon DEF InQueue
  <1>7. ASSUME queued[q] > 0, queue[q] = <<>>
        PROVE  E # {} \/ U # {} \/ K # {}
    <2>1. n = 0  BY <1>4, <1>7
    <2>2. e # 0 \/ u # 0 \/ k # 0  BY <1>5, <1>7, <2>1
    <2> QED  BY <1>1, <1>4, <2>2, Zenon
  <1>8. "uncount" \in {"uncount", "take"} /\ "take" \in {"uncount", "take"}  OBVIOUS
  <1> QED  BY <1>0, <1>6, <1>7, <1>8, Zenon

\* An actor in such a call, or with a task in its hands, is awake.
Awake(a) ==
  \/ a \in Irqs /\ pc[a] # "idle"
  \/ a \in Cpus /\ (At(a) \in Working \cup {"take"} \/ theft[a].stolen > 0)

\* A call of schedule runs on an actor that is awake.
LEMMA CallAwake ==
  ASSUME SetFacts, TypeOK, Own, Driving = {}, NEW a \in Actors, pc[a] \in {"count", "enqueue"}
  PROVE  Awake(a)
  <1>1. Call(a)  BY Zenon DEF Own, Calls
  <1>2. At(a) = sched[a].ret  BY DEF At
  <1>3. CASE a \in Cpus
    <2>1. sched[a].ret \in {"new", "poll", "tick", "steal", "asleep"} /\ sched[a].ret # "asleep"
      BY <1>1, <1>3 DEF Call
    <2>2. sched[a].ret = "steal" => theft[a].stolen > 0
      BY <1>3, SelfFacts DEF Locals, Theft
    <2>3. sched[a].ret \in {"new", "poll", "tick"} => At(a) \in Working  BY <1>2 DEF Working
    <2>4. At(a) \in Working \/ theft[a].stolen > 0  BY <2>1, <2>2, <2>3
    <2> QED  BY <1>3, <2>4, Zenon DEF Awake
  <1>4. CASE a \notin Cpus
    <2>1. a \in Irqs  BY <1>4, Zenon DEF Actors
    <2>2. pc[a] # "idle"  OBVIOUS
    <2> QED  BY <2>1, <2>2, Zenon DEF Awake
  <1> QED  BY <1>3, <1>4

\* An empty queue whose counter is positive has an actor between queue and counter.
LEMMA CountedAwake ==
  ASSUME SetFacts, TypeOK, Own, QueuedCounts, Driving = {}, NEW q \in Queues,
         queued[q] > 0, queue[q] = <<>>
  PROVE  \E a \in Actors : Awake(a)
  <1>1. ASSUME NEW c \in Cpus, pc[c] \in {"uncount", "take"}  PROVE Awake(c)
    <2>1. At(c) \in Working \cup {"take"}  BY <1>1 DEF At, Working
    <2> QED  BY <2>1, Zenon DEF Awake
  <1>2. ASSUME NEW a \in Actors, pc[a] = "enqueue"  PROVE Awake(a)
    <2>1. pc[a] \in {"count", "enqueue"}  BY <1>2
    <2> QED  BY <2>1, CallAwake
  <1>3. \/ \E a \in Actors : pc[a] = "enqueue" /\ sched[a].dest = q
        \/ \E c \in Cpus : pc[c] \in {"uncount", "take"}
    BY Counted
  <1> QED  BY <1>1, <1>2, <1>3, Numbers, Zenon

\* Who holds the Consumer of a queue will take from it, unless it is about to drop it.
LEMMA Holder ==
  ASSUME SetFacts, TypeOK, Own, Consumers, NEW q \in Queues, NEW t \in Tasks, InQueue(q, t),
         consumer[q] # None, t \notin PassedOver(q)
  PROVE  \E d \in Cpus : /\ consumer[q] = d
                         /\ \/ At(d) \in {"inject_len", "victim_len", "steal"} /\ theft[d].src = q
                            \/ Awake(d)
  <1>1. PICK d \in Cpus : d = consumer[q]  BY TypeFields, Zenon
  <1>2. theft[d].src = q  BY <1>1, Zenon DEF Consumers
  <1>3. Hand(d) /\ Call(d) /\ theft[d].stolen \in Nat  BY SelfFacts, Zenon DEF Locals
  <1>4. q # None  BY Numbers
  <1>5. At(d) \in {"inject_len", "victim_len", "steal", "take", "release"}
    BY <1>2, <1>3, <1>4 DEF Hand, Holding
  <1>6. At(d) = "release" => pc[d] = "release"  BY <1>3 DEF At, Call
  <1>7. ~ (pc[d] = "release" /\ theft[d].stolen = 0)
    BY <1>1, Zenon DEF PassedOver, InQueue
  <1>8. CASE At(d) = "release"
    <2>1. theft[d].stolen > 0  BY <1>3, <1>6, <1>7, <1>8
    <2> QED  BY <1>1, <2>1, Zenon DEF Awake
  <1>9. CASE At(d) = "take"
    <2>1. At(d) \in Working \cup {"take"}  BY <1>9
    <2> QED  BY <1>1, <2>1, Zenon DEF Awake
  <1>10. CASE At(d) \in {"inject_len", "victim_len", "steal"}  BY <1>1, <1>2, <1>10, Zenon
  <1> QED  BY <1>5, <1>8, <1>9, <1>10

-----------------------------------------------------------------------------
(* Steps after which somebody is awake, or visits the queue. *)

\* One actor awake is enough.
LEMMA AwakeAlert ==
  ASSUME NEW a \in Actors
  PROVE  /\ Awake(a)' => Alert'
         /\ a \in Cpus /\ At(a)' \in Working \cup {"take"} => Alert'
  BY Zenon DEF Awake, Alert, Busy

\* An actor stays awake while another one takes a step.
LEMMA StaysAwake ==
  ASSUME NEW a \in Actors, OthersStay(a), NEW b \in Actors, b # a, Awake(b)
  PROVE  Alert'
  <1>1. Awake(b)'  BY Zenon DEF Awake, OthersStay
  <1> QED  BY <1>1, AwakeAlert, Zenon

\* What the step of one actor must see to itself.
Keeping(a, q) ==
  /\ OthersStay(a)
  /\ sleepers.permit => Alert'
  /\ \A d \in Cpus \ {a} : notified[d] = "woken" => notified'[d] = "woken"
  /\ \A d \in Cpus \ {a} :
        At(d) = "steal" /\ queue[theft[d].src] # <<>> => queue'[theft[d].src] # <<>>
  /\ a \in Cpus
  /\ Busy(a) \/ Visits(a, q) => Covered(q)'

\* A step that minds its own part keeps a queue covered.
LEMMA KeepsCovered ==
  ASSUME NEW a \in Actors, NEW q \in Queues, Keeping(a, q), Covered(q)
  PROVE  Covered(q)'
  <1>0. Irqs \subseteq Actors /\ Cpus \subseteq Actors /\ Irqs \cap Cpus = {}  BY Numbers
  <1>1. CASE sleepers.permit  BY <1>1, Zenon DEF Keeping, Covered
  <1>2. ASSUME NEW i \in Irqs, pc[i] # "idle"  PROVE Covered(q)'
    <2>1. i # a  BY <1>0, Zenon DEF Keeping
    <2>2. pc'[i] # "idle"  BY <1>0, <1>2, <2>1, Zenon DEF Keeping, OthersStay
    <2> QED  BY <2>2, Zenon DEF Covered, Alert
  <1>3. ASSUME NEW d \in Cpus, d # a, Busy(d)  PROVE Covered(q)'
    <2>1. At(d)' = At(d) /\ theft'[d] = theft[d]  BY <1>0, <1>3, Zenon DEF Keeping, OthersStay
    <2>2. Busy(d)'  BY <1>3, <2>1, Zenon DEF Busy, Keeping
    <2> QED  BY <2>2, Zenon DEF Covered, Alert
  <1>4. ASSUME NEW d \in Cpus, d # a, Visits(d, q)  PROVE Covered(q)'
    <2>1. At(d)' = At(d) /\ theft'[d] = theft[d]  BY <1>0, <1>4, Zenon DEF Keeping, OthersStay
    <2>2. Visits(d, q)'  BY <1>4, <2>1, Zenon DEF Visits
    <2> QED  BY <2>2, Zenon DEF Covered
  <1>5. ASSUME Busy(a) \/ Visits(a, q)  PROVE Covered(q)'  BY <1>5, Zenon DEF Keeping
  <1> QED  BY <1>1, <1>2, <1>3, <1>4, <1>5, Zenon DEF Covered, Alert

\* Calls of schedule, trap handlers and the main loop leave a queue that has a task
\* covered.
LEMMA CoverInner ==
  ASSUME SetFacts, TypeOK, Own, Binding, QueuedCounts, Driving = {}, ~sleepers.closed,
         NEW a \in Actors, InnerAct(a), NEW q \in Queues, NEW t \in Tasks, InQueue(q, t)'
  PROVE  Covered(q)'
  <1>0. Inner(a)  BY InnerSteps
  <1>1. CASE a \in Irqs
    <2>1. pc'[a] # "idle"  BY <1>0, <1>1, Zenon DEF Inner
    <2> QED  BY <1>1, <2>1, Zenon DEF Covered, Alert
  <1>2. CASE a \in Cpus
    <2>0. theft' = theft  BY <1>0, Zenon DEF Inner
    <2>1. CASE pc[a] \in {"count", "enqueue"} /\ At(a)' = At(a)
      <3>1. Awake(a)  BY <2>1, CallAwake
      <3>2. Awake(a)'
        <4>1. a \notin Irqs  BY <1>2, Numbers
        <4> QED  BY <2>0, <2>1, <3>1, <4>1, Zenon DEF Awake
      <3> QED  BY <3>2, AwakeAlert, Zenon DEF Covered
    <2>2. CASE At(a)' \in Working
      BY <1>2, <2>2, AwakeAlert, Zenon DEF Covered
    <2>3. CASE At(a) = "check" /\ At(a)' = "inject" /\ queued[a] = 0
      <3>1. queue' = queue
        <4>1. pc[a] = "check"
          <5>1. Call(a)  BY <1>2, SelfFacts, Zenon DEF Locals
          <5> QED  BY <1>2, <2>3, <5>1 DEF At, Call
        <4>2. ~Enqueue(a) /\ ~Tick(a)  BY <4>1 DEF Enqueue, Tick, Goto
        <4> QED  BY <4>2, Zenon DEF InnerAct, Count, Interrupt, IrqWake, Run, Uncount, PollReady,
                 PollPending, Check, SpawnEarly, PollSpawn, DriveSpawn, PollWake, DriveWake
      <3>2. InQueue(q, t)  BY <3>1, Zenon DEF InQueue
      <3>3. q # a  BY <1>2, <2>3, <3>2, Counted
      <3>4. theft'[a].num = 0
        <4>1. At(a) \notin Stealing  BY <2>3 DEF Stealing, Holding
        <4> QED  BY <1>2, <2>0, <4>1, SelfFacts, Zenon DEF Locals, Hand, Clean
      <3>5. Visits(a, q)'  BY <2>3, <3>3, <3>4 DEF Visits, BeforeRounds
      <3> QED  BY <1>2, <3>5, Zenon DEF Covered
    <2>4. At(a)' = At(a) => pc[a] \in {"count", "enqueue"} \/ At(a)' \in Working
      <3>1. CASE pc[a] \in {"new", "run", "tick", "uncount", "poll", "check"}
        <4>1. At(a) \in Working  BY <3>1 DEF At, Working
        <4> QED  BY <4>1, Zenon
      <3>2. CASE pc[a] \in {"count", "enqueue"}  BY <3>2
      <3>3. pc[a] \in {"new", "run", "tick", "uncount", "poll", "check"} \/ pc[a] \in {"count", "enqueue"}
        <4>1. ~ \E u \in Tasks : DriveSpawn(a, u) \/ DriveWake(a, u)  BY Zenon DEF DriveSpawn, DriveWake
        <4>2. a \notin Irqs  BY <1>2, Numbers
        <4> QED  BY <4>1, <4>2, Zenon DEF InnerAct, Count, Enqueue, Run, Tick, Uncount, PollReady,
                 PollPending, Check, SpawnEarly, PollSpawn, PollWake, Goto
      <3> QED  BY <3>1, <3>2, <3>3
    <2>5. \/ At(a)' = At(a)
          \/ At(a)' \in Working
          \/ At(a) = "check" /\ At(a)' = "inject" /\ queued[a] = 0
      BY <1>0, <1>2, Zenon DEF Inner
    <2> QED  BY <2>1, <2>2, <2>3, <2>4, <2>5, Zenon
  <1> QED  BY <1>1, <1>2, Zenon DEF Actors

\* So do the start of a worker, a wake-up, the shutdown, and going to sleep while another
\* worker is to look.
LEMMA CoverOthers ==
  ASSUME SetFacts, TypeOK, Own, Sleepers, ~sleepers'.closed, NEW q \in Queues, NEW c \in Cpus,
         \/ WorkerId(c) \/ Register(c) \/ WakeUp(c) \/ PollClose(c) \/ (Wait(c) /\ Covered(q))
  PROVE  Covered(q)'
  <1>0. c \in Actors /\ sleepers \in [permit : BOOLEAN, waiters : Seq(Cpus), closed : BOOLEAN]
    BY TypeFields, Numbers, Zenon
  <1>Work. ASSUME NEW to \in {"register", "run", "tick"}, pc' = [pc EXCEPT ![c] = to], sched' = sched
           PROVE  Covered(q)'
    <2>1. to \in {"register", "run", "tick", "done", "asleep", "idle"} /\ to \in Working \cup {"take"}
      BY DEF Working
    <2>2. At(c)' = to  BY <1>0, <1>Work, <2>1, Moved, Zenon
    <2> QED  BY <1>0, <2>1, <2>2, AwakeAlert, Zenon DEF Covered
  <1>1. CASE WorkerId(c) \/ Register(c)
    <2>1. sched' = sched /\ (pc' = [pc EXCEPT ![c] = "register"] \/ pc' = [pc EXCEPT ![c] = "run"])
      BY <1>1, Zenon DEF WorkerId, Register, Goto
    <2> QED  BY <1>Work, <2>1
  <1>2. CASE WakeUp(c)
    <2>1. /\ sched' = sched /\ sleepers' = sleepers
          /\ notified[c] = "closed" \/ pc' = [pc EXCEPT ![c] = "tick"]
      BY <1>2, Zenon DEF WakeUp, Goto
    <2>2. notified[c] # "closed"  BY <2>1, Zenon DEF Sleepers
    <2> QED  BY <1>Work, <2>1, <2>2
  <1>3. CASE PollClose(c)
    <2>1. sleepers' = [permit |-> FALSE, waiters |-> <<>>, closed |-> TRUE]  BY <1>3, Zenon DEF PollClose
    <2>2. sleepers'.closed  BY <2>1
    <2> QED  BY <2>2
  <1>4. CASE Wait(c) /\ Covered(q)
    <2>1. /\ pc[c] = "wait" /\ UNCHANGED <<sched, theft, notified, queue>>
          /\ \/ sleepers.closed /\ sleepers' = sleepers
             \/ pc' = [pc EXCEPT ![c] = "tick"]
             \/ ~sleepers.permit /\ pc' = [pc EXCEPT ![c] = "asleep"]
      BY <1>4, Zenon DEF Wait
    <2>2. CASE sleepers.closed /\ sleepers' = sleepers  BY <2>2, Zenon
    <2>3. CASE pc' = [pc EXCEPT ![c] = "tick"]  BY <1>Work, <2>1, <2>3
    <2>4. CASE ~sleepers.permit /\ pc' = [pc EXCEPT ![c] = "asleep"]
      <3>1. \A b \in Actors \ {c} : pc'[b] = pc[b] /\ sched'[b] = sched[b] /\ At(b)' = At(b)
        BY <1>0, <2>1, <2>4, Moved
      <3>2. OthersStay(c)  BY <2>1, <3>1, Zenon DEF OthersStay
      <3>3. ~Busy(c) /\ ~Visits(c, q)
        <4>1. At(c) = "wait" /\ At(c) \notin Stealing  BY <2>1 DEF At, Stealing, Holding
        <4>2. Clean(theft[c])  BY <4>1, SelfFacts, Zenon DEF Locals, Hand
        <4>3. theft[c].stolen = 0 /\ theft[c].num = 0  BY <4>2, Zenon DEF Clean
        <4>4. ~Busy(c)  BY <4>1, <4>3 DEF Busy, Working
        <4>5. ~Visits(c, q)  BY <4>1, <4>3 DEF Visits, BeforeRounds, FirstRound
        <4> QED  BY <4>4, <4>5
      <3>4. Keeping(c, q)  BY <2>1, <2>4, <3>2, <3>3, Zenon DEF Keeping
      <3> QED  BY <1>0, <1>4, <3>4, KeepsCovered, Zenon
    <2> QED  BY <2>1, <2>2, <2>3, <2>4, Zenon
  <1> QED  BY <1>1, <1>2, <1>3, <1>4, Zenon

\* A trap handler passes its wake-up on before it is done.
LEMMA CoverWakeOne ==
  ASSUME SetFacts, TypeOK, Own, Sleepers, ~sleepers'.closed, NEW q \in Queues, NEW i \in Irqs, WakeOne(i)
  PROVE  Covered(q)'
  <1>0. /\ i \in Actors /\ notified \in [Cpus -> {"no", "woken", "closed"}] /\ Cpus \subseteq Actors
        /\ Irqs \cap Cpus = {}
        /\ sleepers \in [permit : BOOLEAN, waiters : Seq(Cpus), closed : BOOLEAN]
    BY TypeFields, Numbers, Zenon
  <1>w. PICK w \in Seq(Cpus) : w = sleepers.waiters  BY <1>0
  <1>1. /\ sched' = sched /\ pc' = [pc EXCEPT ![i] = "idle"]
        /\ \/ w # <<>> /\ notified' = [notified EXCEPT ![Head(w)] = "woken"]
           \/ sleepers' = [sleepers EXCEPT !.permit = ~sleepers.closed]
    BY <1>w, Zenon DEF WakeOne, Goto
  <1>2. CASE sleepers' = [sleepers EXCEPT !.permit = ~sleepers.closed]
    <2>1. sleepers'.closed = sleepers.closed /\ sleepers'.permit = ~sleepers.closed  BY <1>0, <1>2
    <2> QED  BY <2>1, Zenon DEF Covered, Alert
  <1>3. CASE w # <<>> /\ notified' = [notified EXCEPT ![Head(w)] = "woken"]
    <2>1. Once(w)  BY <1>w, Zenon DEF Sleepers
    <2>2. PICK h \in Cpus : h = Head(w) /\ Waits(w, h)  BY <1>3, <2>1, Waiters, Zenon
    <2>3. At(h) = "asleep"  BY <1>w, <2>2, Zenon DEF Sleepers
    <2>4. h \in Actors \ {i}  BY <1>0, <2>2
    <2>5. At(h)' = At(h)  BY <1>0, <1>1, <2>4, Moved
    <2>6. notified'[h] = "woken"  BY <1>0, <1>3, <2>2, Zenon
    <2>7. Busy(h)'  BY <2>3, <2>5, <2>6, Zenon DEF Busy
    <2> QED  BY <2>7, Zenon DEF Covered, Alert
  <1> QED  BY <1>1, <1>2, <1>3, Zenon

-----------------------------------------------------------------------------
(* The steps of try_steal. *)

\* What is known of a worker in try_steal.
LEMMA ThiefFacts ==
  ASSUME SetFacts, TypeOK, Own, NEW c \in Cpus, ThiefAct(c)
  PROVE  /\ Thieving(c) /\ OthersStay(c) /\ At(c) = pc[c]
         /\ ~Take(c) => At(c)' = pc'[c]
         /\ ~Steal(c) => queue' = queue
         /\ ~TryInjector(c) /\ ~Victim(c) /\ ~Steal(c) => excused' = excused
         /\ Hand(c) /\ c \in Actors /\ c \in Nat /\ Queues \subseteq Nat
         /\ theft[c].round \in Nat /\ theft[c].num \in Nat /\ theft[c].next \in Nat
         /\ theft[c].left \in Nat /\ theft[c].limit \in Nat /\ theft[c].stolen \in Nat
         /\ theft[c].src # None => theft[c].src \in Queues
         /\ Rounds \in Nat \ {0}
         /\ Fits(pc[c], theft[c].round, theft[c].num, theft[c].src, theft[c].next, theft[c].left,
                 theft[c].limit, theft[c].stolen)
         /\ theft[c].num <= Cardinality(online)
  <1>1. /\ Thieving(c) /\ OthersStay(c) /\ At(c) = pc[c]
        /\ ~Take(c) => At(c)' = pc'[c]
        /\ ~Steal(c) => queue' = queue
        /\ ~TryInjector(c) /\ ~Victim(c) /\ ~Steal(c) => excused' = excused
    BY ThiefSteps, Zenon DEF Thieving
  <1>2. /\ Hand(c) /\ Theft(c, theft[c]) /\ c \in Actors
        /\ theft[c].round \in Nat /\ theft[c].num \in Nat /\ theft[c].next \in Nat
        /\ theft[c].left \in Nat /\ theft[c].limit \in Nat /\ theft[c].stolen \in Nat
        /\ theft[c].src # None => theft[c].src \in Queues
        /\ Rounds \in Nat \ {0}
    BY SelfFacts, Zenon DEF Locals
  <1>3. c \in Nat /\ Queues \subseteq Nat  BY Bounds DEF Cpus, Queues
  <1>4. Fits(pc[c], theft[c].round, theft[c].num, theft[c].src, theft[c].next, theft[c].left,
             theft[c].limit, theft[c].stolen) /\ theft[c].num <= Cardinality(online)
    BY <1>1, <1>2, Zenon DEF Theft
  <1> QED  BY <1>1, <1>2, <1>3, <1>4, Zenon

\* A thief with empty hands does not count as busy.
LEMMA NotBusy ==
  ASSUME NEW c \in Cpus, At(c) \notin Working \cup {"take", "asleep", "steal"}, theft[c].stolen = 0
  PROVE  ~Busy(c)
  <1>1. ~ (theft[c].stolen > 0)  OBVIOUS
  <1>2. At(c) # "asleep" /\ At(c) # "steal" /\ At(c) \notin Working \cup {"take"}  OBVIOUS
  <1> QED  BY <1>1, <1>2, Zenon DEF Busy

\* A queue that looks busy is left to the thief that has it.
LEMMA HolderCovers ==
  ASSUME SetFacts, TypeOK, Own, Consumers, NEW c \in Cpus, OthersStay(c),
         NEW q \in Queues, NEW t \in Tasks, InQueue(q, t)', queue' = queue,
         consumer[q] # None, theft[c].src # q, t \notin PassedOver(q)
  PROVE  Covered(q)'
  <1>1. InQueue(q, t)  BY Zenon DEF InQueue
  <1>2. PICK d \in Cpus : /\ consumer[q] = d
                          /\ \/ At(d) \in {"inject_len", "victim_len", "steal"} /\ theft[d].src = q
                             \/ Awake(d)
    BY <1>1, Holder, Zenon
  <1>3. d # c  BY <1>2, Zenon DEF Consumers
  <1>4. d \in Actors /\ c \in Actors  BY <1>2, Numbers
  <1>5. CASE Awake(d)  BY <1>3, <1>4, <1>5, StaysAwake, Zenon DEF Covered
  <1>6. CASE At(d) \in {"inject_len", "victim_len", "steal"} /\ theft[d].src = q
    <2>1. At(d)' = At(d) /\ theft'[d] = theft[d]  BY <1>2, <1>3, <1>4, Zenon DEF OthersStay
    <2>2. Visits(d, q)'  BY <1>6, <2>1, Zenon DEF Visits
    <2> QED  BY <2>2, Zenon DEF Covered
  <1> QED  BY <1>2, <1>5, <1>6

\* What such a step does for queue q.
Handles(c, q) ==
  \/ Covered(q)'
  \/ /\ queue' = queue /\ excused \subseteq excused'
     /\ ~Busy(c) /\ (Visits(c, q) => Covered(q)')

\* A thief that got a task needs to look no further.
LEMMA AwakeHandles ==
  ASSUME NEW c \in Cpus, NEW q \in Queues, At(c)' \in Working \cup {"take"} \/ theft'[c].stolen > 0
  PROVE  Handles(c, q)
  BY Numbers, AwakeAlert, Zenon DEF Handles, Covered, Awake

\* A thief that finds the global queue held by another one leaves it to that one.
LEMMA TryInjectorCovers ==
  ASSUME SetFacts, TypeOK, Own, Consumers,
         NEW c \in Cpus, TryInjector(c),
         NEW q \in Queues, NEW t \in Tasks, InQueue(q, t)', t \notin excused'
  PROVE  Handles(c, q)
  <1>a. ThiefAct(c)  BY Zenon DEF ThiefAct
  <1>s. /\ OthersStay(c) /\ At(c) = pc[c]
        /\ ~Take(c) => At(c)' = pc'[c]
        /\ ~Steal(c) => queue' = queue
        /\ ~TryInjector(c) /\ ~Victim(c) /\ ~Steal(c) => excused' = excused
    BY <1>a, ThiefFacts, Zenon
  <1>n. /\ Hand(c) /\ c \in Actors /\ c \in Nat /\ q \in Nat
        /\ theft[c].round \in Nat /\ theft[c].num \in Nat /\ theft[c].next \in Nat
        /\ theft[c].left \in Nat /\ theft[c].limit \in Nat /\ theft[c].stolen \in Nat
        /\ theft[c].src # None => theft[c].src \in Queues
        /\ Rounds \in Nat \ {0}
        /\ Fits(pc[c], theft[c].round, theft[c].num, theft[c].src, theft[c].next, theft[c].left,
                theft[c].limit, theft[c].stolen)
        /\ theft[c].num <= Cardinality(online)
    BY <1>a, ThiefFacts, Zenon
  <1>0. pc[c] = "inject" /\ TryInjectorMoves(c)  BY ThiefMoves, Zenon DEF TryInjector
  <1>1. /\ theft[c].stolen = 0 /\ theft[c].limit = 0
        /\ theft[c].num = 0 => theft[c].round # Rounds
    BY <1>n, <1>0 DEF Fits
  <1>2. theft[c].src = None  BY <1>s, <1>n, <1>0 DEF Hand, Holding
  <1>3. ~Take(c) /\ ~Steal(c)  BY <1>0 DEF Take, Steal
  <1>4. ~Busy(c)  BY <1>s, <1>0, <1>1, NotBusy DEF Working
  <1>5. \/ consumer[Injector] = None /\ excused' = excused
        \/ consumer[Injector] # None /\ excused' = excused \cup PassedOver(Injector)
    BY Zenon DEF TryInjector
  <1>6. ASSUME Visits(c, q)  PROVE Covered(q)'
    <2>1. theft[c].num = 0 /\ (q # c \/ q = Injector)
      BY <1>s, <1>0, <1>2, <1>6 DEF Visits, BeforeRounds, FirstRound
    <2>2. CASE consumer[Injector] = None
      <3>1. pc'[c] = "inject_len" /\ theft'[c].src = Injector /\ theft'[c].num = theft[c].num
        BY <1>0, <2>2, Zenon DEF TryInjectorMoves, Kept, Thief
      <3>2. At(c)' = "inject_len" /\ theft'[c].num = 0  BY <1>s, <1>3, <2>1, <3>1, Zenon
      <3>3. Visits(c, q)'  BY <2>1, <3>1, <3>2 DEF Visits, BeforeRounds
      <3> QED  BY <3>3, Zenon DEF Covered
    <2>3. CASE consumer[Injector] # None
      <3>1. pc'[c] = "round" /\ theft'[c].num = theft[c].num
        BY <1>0, <1>1, <2>1, <2>3, Zenon DEF TryInjectorMoves, Kept, Thief
      <3>2. At(c)' = "round" /\ theft'[c].num = 0  BY <1>s, <1>3, <2>1, <3>1, Zenon
      <3>3. CASE q = Injector
        <4>1. t \notin PassedOver(q)  BY <1>5, <2>3, <3>3, Zenon
        <4>2. theft[c].src # q  BY <1>2, Numbers
        <4> QED  BY <1>s, <1>3, <2>3, <3>3, <4>1, <4>2, HolderCovers, Zenon
      <3>4. CASE q # Injector
        <4>1. Visits(c, q)'  BY <2>1, <3>2, <3>4 DEF Visits, BeforeRounds
        <4> QED  BY <4>1, Zenon DEF Covered
      <3> QED  BY <3>3, <3>4
    <2> QED  BY <2>2, <2>3
  <1>7. queue' = queue /\ excused \subseteq excused'  BY <1>s, <1>3, <1>5, Zenon
  <1> QED  BY <1>4, <1>6, <1>7, Zenon DEF Handles

\* A thief that reads a counter as zero leaves a queue that is empty, or one whose pusher
\* is awake.
LEMMA LenCovers ==
  ASSUME SetFacts, TypeOK, Own, QueuedCounts, Driving = {},
         NEW c \in Cpus, InjectorLen(c) \/ VictimLen(c),
         NEW q \in Queues, NEW t \in Tasks, InQueue(q, t)', t \notin excused'
  PROVE  Handles(c, q)
  <1>a. ThiefAct(c)  BY Zenon DEF ThiefAct
  <1>s. /\ OthersStay(c) /\ At(c) = pc[c]
        /\ ~Take(c) => At(c)' = pc'[c]
        /\ ~Steal(c) => queue' = queue
        /\ ~TryInjector(c) /\ ~Victim(c) /\ ~Steal(c) => excused' = excused
    BY <1>a, ThiefFacts, Zenon
  <1>n. /\ Hand(c) /\ c \in Actors /\ c \in Nat /\ q \in Nat
        /\ theft[c].round \in Nat /\ theft[c].num \in Nat /\ theft[c].next \in Nat
        /\ theft[c].left \in Nat /\ theft[c].limit \in Nat /\ theft[c].stolen \in Nat
        /\ theft[c].src # None => theft[c].src \in Queues
        /\ Rounds \in Nat \ {0}
        /\ Fits(pc[c], theft[c].round, theft[c].num, theft[c].src, theft[c].next, theft[c].left,
                theft[c].limit, theft[c].stolen)
        /\ theft[c].num <= Cardinality(online)
    BY <1>a, ThiefFacts, Zenon
  <1>0. /\ pc[c] \in {"inject_len", "victim_len"}
        /\ InjectorLenMoves(c) \/ VictimLenMoves(c)
        /\ pc[c] = "inject_len" => InjectorLenMoves(c)
        /\ pc[c] = "victim_len" => VictimLenMoves(c)
    <2>1. ~ (InjectorLen(c) /\ pc[c] = "victim_len") /\ ~ (VictimLen(c) /\ pc[c] = "inject_len")
      BY DEF InjectorLen, VictimLen
    <2> QED  BY <2>1, ThiefMoves, Zenon DEF InjectorLen, VictimLen
  <1>1. /\ theft[c].stolen = 0 /\ theft[c].limit = 0
        /\ pc[c] = "inject_len" => theft[c].src = Injector
        /\ pc[c] = "victim_len" => theft[c].src # Injector
    BY <1>n, <1>0 DEF Fits
  <1>2. PICK s \in Queues : s = theft[c].src
    <2>1. theft[c].src # None  BY <1>s, <1>n, <1>0 DEF Hand, Holding
    <2> QED  BY <1>n, <2>1
  <1>3. ~Take(c) /\ ~Steal(c) /\ ~TryInjector(c) /\ ~Victim(c)
    BY <1>0 DEF Take, Steal, TryInjector, Victim
  <1>4. ~Busy(c)  BY <1>s, <1>0, <1>1, NotBusy DEF Working
  <1>5. /\ \/ queued[s] > 0 /\ pc'[c] = "steal"
           \/ queued[s] = 0 /\ pc'[c] = "release" /\ theft'[c].limit = theft[c].limit
        /\ theft'[c].src = s /\ theft'[c].round = theft[c].round /\ theft'[c].num = theft[c].num
        /\ theft'[c].next = theft[c].next /\ theft'[c].left = theft[c].left
    <2>1. CASE pc[c] = "inject_len"
      BY <1>0, <1>1, <1>2, <2>1, Zenon DEF InjectorLenMoves, Kept, Thief
    <2>2. CASE pc[c] = "victim_len"
      BY <1>0, <1>2, <2>2, Zenon DEF VictimLenMoves, Kept, Thief
    <2> QED  BY <1>0, <2>1, <2>2
  <1>6. queue' = queue /\ excused' = excused /\ At(c)' = pc'[c]  BY <1>s, <1>3, Zenon
  <1>7. InQueue(q, t)  BY <1>6, Zenon DEF InQueue
  <1>8. CASE queued[s] > 0 /\ pc'[c] = "steal"
    <2>1. CASE queue[s] # <<>>
      <3>1. Busy(c)'  BY <1>5, <1>6, <1>8, <2>1, Zenon DEF Busy
      <3> QED  BY <3>1, Zenon DEF Covered, Alert, Handles
    <2>2. CASE queue[s] = <<>>
      <3>1. PICK a \in Actors : Awake(a)  BY <1>8, <2>2, CountedAwake, Zenon
      <3>2. ~Awake(c)
        <4>1. c \notin Irqs  BY Numbers
        <4>2. ~ (theft[c].stolen > 0) /\ pc[c] \notin Working \cup {"take"}
          BY <1>0, <1>1 DEF Working
        <4> QED  BY <1>s, <4>1, <4>2, Zenon DEF Awake
      <3> QED  BY <1>s, <1>n, <3>1, <3>2, StaysAwake, Zenon DEF Covered, Handles
    <2> QED  BY <2>1, <2>2
  <1>9. CASE queued[s] = 0 /\ pc'[c] = "release"
    <2>1. q # s  BY <1>7, <1>9, Counted
    <2>2. theft'[c].limit = 0  BY <1>1, <1>5, <1>9
    <2>3. ASSUME Visits(c, q)  PROVE Visits(c, q)'
      <3>1. CASE pc[c] = "inject_len"
        BY <1>s, <1>1, <1>2, <1>5, <1>6, <1>9, <2>1, <2>2, <2>3, <3>1 DEF Visits, BeforeRounds, FirstRound
      <3>2. CASE pc[c] = "victim_len"
        BY <1>s, <1>1, <1>2, <1>5, <1>6, <1>9, <2>1, <2>2, <2>3, <3>2 DEF Visits, BeforeRounds, FirstRound
      <3> QED  BY <1>0, <3>1, <3>2
    <2> QED  BY <1>4, <1>6, <2>3, Zenon DEF Covered, Handles
  <1> QED  BY <1>5, <1>8, <1>9

\* The number of victims a thief reads includes every queue that can have a task.
LEMMA CountWorkersCovers ==
  ASSUME SetFacts, Segments, TypeOK, Own, Binding, InOrder, IdsSoFar,
         NEW c \in Cpus, CountWorkers(c),
         NEW q \in Queues, NEW t \in Tasks, InQueue(q, t)', t \notin excused'
  PROVE  Handles(c, q)
  <1>a. ThiefAct(c)  BY Zenon DEF ThiefAct
  <1>s. /\ OthersStay(c) /\ At(c) = pc[c]
        /\ ~Take(c) => At(c)' = pc'[c]
        /\ ~Steal(c) => queue' = queue
        /\ ~TryInjector(c) /\ ~Victim(c) /\ ~Steal(c) => excused' = excused
    BY <1>a, ThiefFacts, Zenon
  <1>n. /\ Hand(c) /\ c \in Actors /\ c \in Nat /\ q \in Nat
        /\ theft[c].round \in Nat /\ theft[c].num \in Nat /\ theft[c].next \in Nat
        /\ theft[c].left \in Nat /\ theft[c].limit \in Nat /\ theft[c].stolen \in Nat
        /\ theft[c].src # None => theft[c].src \in Queues
        /\ Rounds \in Nat \ {0}
        /\ Fits(pc[c], theft[c].round, theft[c].num, theft[c].src, theft[c].next, theft[c].left,
                theft[c].limit, theft[c].stolen)
        /\ theft[c].num <= Cardinality(online)
    BY <1>a, ThiefFacts, Zenon
  <1>0. pc[c] = "round" /\ theft[c].num = 0 /\ CountWorkersMoves(c)
    BY ThiefMoves, Zenon DEF CountWorkers
  <1>1. theft[c].stolen = 0 /\ theft[c].round = 0  BY <1>n, <1>0 DEF Fits
  <1>2. ~Take(c) /\ ~Steal(c) /\ ~TryInjector(c) /\ ~Victim(c)
    BY <1>0 DEF Take, Steal, TryInjector, Victim
  <1>3. ~Busy(c)  BY <1>s, <1>0, <1>1, NotBusy DEF Working
  <1>4. queue' = queue /\ excused' = excused /\ At(c)' = pc'[c]  BY <1>s, <1>2, Zenon
  <1>5. ASSUME Visits(c, q)  PROVE Visits(c, q)'
    <2>1. q \notin {c, Injector}  BY <1>s, <1>0, <1>5 DEF Visits, BeforeRounds, FirstRound
    <2>2. q \in Cpus  BY <2>1, Numbers
    <2>3. q \in online
      <3>1. InQueue(q, t)  BY <1>4, Zenon DEF InQueue
      <3>2. queue[q] \in Seq(Tasks)  BY TypeFields, Zenon
      <3>3. DOMAIN queue[q] = 1 .. Len(queue[q])  BY <3>2
      <3>4. bound[t] = q
        <4>1. PICK k \in DOMAIN queue[q] : queue[q][k] = t  BY <3>1, Zenon DEF InQueue
        <4>2. k \in 1 .. Len(queue[q])  BY <3>3, <4>1
        <4>3. bound[queue[q][k]] = q  BY <2>2, <4>2, Zenon DEF Binding, BoundWhereQueued
        <4> QED  BY <4>1, <4>3, Zenon
      <3>5. q # None  BY Numbers
      <3> QED  BY <3>4, <3>5, Zenon DEF Binding
    <2>4. c \in online
      <3>1. At(c) \notin Starting  BY <1>s, <1>0 DEF Starting
      <3> QED  BY <1>n, <3>1, Zenon DEF Hand
    <2>5. q < Cardinality(online) /\ c < Cardinality(online)  BY <2>2, <2>3, <2>4, NthIs, Zenon
    <2>6. Cardinality(online) \in Nat  BY OnlineFacts
    <2>7. Cardinality(online) > 1  BY <1>n, <2>1, <2>5, <2>6
    <2>8. /\ pc'[c] = "round" /\ theft'[c].num = Cardinality(online) /\ theft'[c].round = theft[c].round
      <3>1. ~ (Cardinality(online) <= 1)  BY <2>6, <2>7
      <3> QED  BY <1>0, <3>1, Zenon DEF CountWorkersMoves, Thief
    <2> QED  BY <1>1, <1>4, <2>1, <2>5, <2>6, <2>7, <2>8 DEF Visits, FirstRound
  <1> QED  BY <1>3, <1>4, <1>5, Zenon DEF Covered, Handles

\* A round comes to every victim.
LEMMA RoundCovers ==
  ASSUME SetFacts, TypeOK, Own,
         NEW c \in Cpus, Round(c),
         NEW q \in Queues, NEW t \in Tasks, InQueue(q, t)', t \notin excused'
  PROVE  Handles(c, q)
  <1>a. ThiefAct(c)  BY Zenon DEF ThiefAct
  <1>s. /\ OthersStay(c) /\ At(c) = pc[c]
        /\ ~Take(c) => At(c)' = pc'[c]
        /\ ~Steal(c) => queue' = queue
        /\ ~TryInjector(c) /\ ~Victim(c) /\ ~Steal(c) => excused' = excused
    BY <1>a, ThiefFacts, Zenon
  <1>n. /\ Hand(c) /\ c \in Actors /\ c \in Nat /\ q \in Nat
        /\ theft[c].round \in Nat /\ theft[c].num \in Nat /\ theft[c].next \in Nat
        /\ theft[c].left \in Nat /\ theft[c].limit \in Nat /\ theft[c].stolen \in Nat
        /\ theft[c].src # None => theft[c].src \in Queues
        /\ Rounds \in Nat \ {0}
        /\ Fits(pc[c], theft[c].round, theft[c].num, theft[c].src, theft[c].next, theft[c].left,
                theft[c].limit, theft[c].stolen)
        /\ theft[c].num <= Cardinality(online)
    BY <1>a, ThiefFacts, Zenon
  <1>0. pc[c] = "round" /\ theft[c].num > 0 /\ RoundMoves(c)
    BY ThiefMoves, Zenon DEF Round
  <1>1. theft[c].stolen = 0  BY <1>n, <1>0 DEF Fits
  <1>2. ~Take(c) /\ ~Steal(c) /\ ~TryInjector(c) /\ ~Victim(c)
    BY <1>0 DEF Take, Steal, TryInjector, Victim
  <1>3. ~Busy(c)  BY <1>s, <1>0, <1>1, NotBusy DEF Working
  <1>4. queue' = queue /\ excused' = excused /\ At(c)' = pc'[c]  BY <1>s, <1>2, Zenon
  <1>5. ASSUME Visits(c, q)  PROVE Visits(c, q)'
    <2>0. theft[c].num # 0  BY <1>n, <1>0
    <2>1. q \notin {c, Injector} /\ theft[c].round = 0 /\ q < theft[c].num
      BY <1>s, <1>0, <1>5, <2>0 DEF Visits, BeforeRounds, FirstRound
    <2>2. theft[c].round # Rounds  BY <1>n, <2>1
    <2>3. PICK start \in 0 .. theft[c].num - 1 :
            /\ pc'[c] = "victim" /\ theft'[c].round = theft[c].round /\ theft'[c].num = theft[c].num
            /\ theft'[c].next = start /\ theft'[c].left = theft[c].num
      BY <1>0, <2>2, Zenon DEF RoundMoves, Thief
    <2>4. start \in Nat /\ start < theft[c].num  BY <1>n, <2>3
    <2>5. Ahead(q, theft[c].num, start, theft[c].num, 0)  BY <1>n, <2>1, <2>4, AheadAll, Zenon
    <2>6. FirstRound(At(c)', q, theft'[c].round, theft'[c].num, theft'[c].src, theft'[c].next,
                     theft'[c].left, theft'[c].limit)
      BY <1>0, <1>4, <2>1, <2>3, <2>5, Zenon DEF FirstRound
    <2> QED  BY <2>1, <2>6, Zenon DEF Visits
  <1> QED  BY <1>3, <1>4, <1>5, Zenon DEF Covered, Handles

\* A thief skips no victim but itself and those another thief holds.
LEMMA VictimCovers ==
  ASSUME SetFacts, Segments, TypeOK, Own, Consumers, InOrder, IdsSoFar,
         NEW c \in Cpus, Victim(c),
         NEW q \in Queues, NEW t \in Tasks, InQueue(q, t)', t \notin excused'
  PROVE  Handles(c, q)
  <1>a. ThiefAct(c)  BY Zenon DEF ThiefAct
  <1>s. /\ OthersStay(c) /\ At(c) = pc[c]
        /\ ~Take(c) => At(c)' = pc'[c]
        /\ ~Steal(c) => queue' = queue
        /\ ~TryInjector(c) /\ ~Victim(c) /\ ~Steal(c) => excused' = excused
    BY <1>a, ThiefFacts, Zenon
  <1>n. /\ Hand(c) /\ c \in Actors /\ c \in Nat /\ q \in Nat
        /\ theft[c].round \in Nat /\ theft[c].num \in Nat /\ theft[c].next \in Nat
        /\ theft[c].left \in Nat /\ theft[c].limit \in Nat /\ theft[c].stolen \in Nat
        /\ theft[c].src # None => theft[c].src \in Queues
        /\ Rounds \in Nat \ {0}
        /\ Fits(pc[c], theft[c].round, theft[c].num, theft[c].src, theft[c].next, theft[c].left,
                theft[c].limit, theft[c].stolen)
        /\ theft[c].num <= Cardinality(online)
    BY <1>a, ThiefFacts, Zenon
  <1>0. pc[c] = "victim" /\ VictimMoves(c)  BY ThiefMoves, Zenon DEF Victim
  <1>1. /\ theft[c].stolen = 0 /\ theft[c].limit = 0
        /\ theft[c].num > 0 /\ theft[c].next < theft[c].num
    BY <1>n, <1>0 DEF Fits
  <1>2. ~Take(c) /\ ~Steal(c)  BY <1>0 DEF Take, Steal
  <1>3. ~Busy(c)  BY <1>s, <1>0, <1>1, NotBusy DEF Working
  <1>4. queue' = queue /\ At(c)' = pc'[c]  BY <1>s, <1>2, Zenon
  <1>5. theft[c].src = None  BY <1>s, <1>n, <1>0 DEF Hand, Holding
  <1>t. Theft(c, theft[c])  BY SelfFacts, Zenon DEF Locals
  <1>v. PICK v \in Cpus : v = Nth(theft[c].next)  BY <1>s, <1>t, <1>0, VictimFacts, Zenon
  <1>6. v = theft[c].next
    <2>1. Cardinality(online) \in 0 .. NumCpus  BY OnlineFacts
    <2>2. theft[c].next \in Cpus /\ theft[c].next < Cardinality(online)
      BY <1>n, <1>1, <2>1, Bounds DEF Cpus
    <2>3. theft[c].next \in online  BY <2>2, NthIs
    <2> QED  BY <1>v, <2>3, NthIs
  <1>7. /\ \/ theft[c].left = 0 /\ NewRound(c) /\ consumer' = consumer /\ excused' = excused
           \/ /\ theft[c].left > 0 /\ Stepped(c)
              /\ \/ theft[c].next = id[c] /\ excused' = excused
                 \/ MaybeBusy(v) /\ excused' = excused \cup PassedOver(v)
           \/ /\ theft[c].left > 0 /\ Kept(c, "victim_len", v) /\ excused' = excused
    BY <1>0, <1>v, Zenon DEF VictimMoves
  <1>8. excused \subseteq excused'  BY <1>7, Zenon
  <1>9. ASSUME Visits(c, q)  PROVE Covered(q)'
    <2>0. theft[c].num # 0  BY <1>n, <1>1
    <2>1. /\ q \notin {c, Injector} /\ theft[c].round = 0 /\ q < theft[c].num
          /\ Ahead(q, theft[c].num, theft[c].next, theft[c].left, 0)
      BY <1>s, <1>0, <1>9, <2>0 DEF Visits, BeforeRounds, FirstRound
    <2>2. v # q => Ahead(q, theft[c].num, theft[c].next, theft[c].left, 1)
      BY <1>n, <1>1, <1>6, <2>1, AheadSkip, Zenon
    <2>3. CASE v # q /\ Stepped(c)
      <3>1. /\ pc'[c] = "victim" /\ theft'[c].round = 0 /\ theft'[c].num = theft[c].num
            /\ theft'[c].next = IF theft[c].next + 1 = theft[c].num THEN 0 ELSE theft[c].next + 1
            /\ theft'[c].left = theft[c].left - 1
        BY <2>1, <2>3, Zenon DEF Stepped, Thief
      <3>2. Ahead(q, theft[c].num, theft'[c].next, theft'[c].left, 0)
        <4>1. Ahead(q, theft[c].num, IF theft[c].next + 1 = theft[c].num THEN 0 ELSE theft[c].next + 1,
                    theft[c].left - 1, 0)
          BY <1>n, <1>1, <2>1, <2>2, <2>3, AheadNext
        <4> QED  BY <3>1, <4>1, Zenon
      <3>3. FirstRound(At(c)', q, theft'[c].round, theft'[c].num, theft'[c].src, theft'[c].next,
                       theft'[c].left, theft'[c].limit)
        BY <1>1, <1>4, <2>1, <3>1, <3>2, Zenon DEF FirstRound
      <3>4. Visits(c, q)'  BY <2>1, <3>3, Zenon DEF Visits
      <3> QED  BY <3>4, Zenon DEF Covered
    <2>4. CASE theft[c].left = 0
      BY <2>1, <2>4 DEF Ahead
    <2>5. CASE Kept(c, "victim_len", v)
      <3>1. /\ pc'[c] = "victim_len" /\ theft'[c].round = 0 /\ theft'[c].num = theft[c].num
            /\ theft'[c].src = v /\ theft'[c].next = theft[c].next /\ theft'[c].left = theft[c].left
        BY <2>1, <2>5, Zenon DEF Kept, Thief
      <3>2. CASE v = q
        <4>1. At(c)' \in {"inject_len", "victim_len", "steal"}  BY <1>4, <3>1
        <4>2. Visits(c, q)'  BY <3>1, <3>2, <4>1, Zenon DEF Visits
        <4> QED  BY <4>2, Zenon DEF Covered
      <3>3. CASE v # q
        <4>1. FirstRound(At(c)', q, theft'[c].round, theft'[c].num, theft'[c].src, theft'[c].next,
                         theft'[c].left, theft'[c].limit)
          BY <1>1, <1>4, <2>1, <2>2, <3>1, <3>3, Zenon DEF FirstRound
        <4>2. Visits(c, q)'  BY <2>1, <4>1, Zenon DEF Visits
        <4> QED  BY <4>2, Zenon DEF Covered
      <3> QED  BY <3>2, <3>3
    <2>6. CASE v = q /\ theft[c].next = id[c]
      <3>1. id[c] = c
        <4>1. id[c] # None
          <5>1. At(c) # "new"  BY <1>s, <1>0
          <5> QED  BY <1>n, <5>1, Zenon DEF Hand
        <4> QED  BY <4>1 DEF IdsSoFar
      <3> QED  BY <1>6, <2>1, <2>6, <3>1
    <2>7. CASE v = q /\ MaybeBusy(v) /\ excused' = excused \cup PassedOver(v)
      <3>1. CASE consumer[q] # None
        <4>1. t \notin PassedOver(q)  BY <2>7, Zenon
        <4>2. theft[c].src # q  BY <1>5, Numbers
        <4> QED  BY <1>s, <1>4, <3>1, <4>1, <4>2, HolderCovers, Zenon
      <3>2. CASE pc[q] = "tick"
        <4>1. q \in Cpus /\ q \in Actors /\ q # c  BY <1>v, <2>1, <2>7, Numbers
        <4>2. At(q) \in Working  BY <3>2 DEF At, Working
        <4>3. Awake(q)  BY <4>1, <4>2, Zenon DEF Awake
        <4> QED  BY <1>s, <1>n, <4>1, <4>3, StaysAwake, Zenon DEF Covered
      <3> QED  BY <2>7, <3>1, <3>2, Zenon DEF MaybeBusy
    <2> QED  BY <1>7, <2>3, <2>4, <2>5, <2>6, <2>7, Zenon
  <1> QED  BY <1>3, <1>4, <1>8, <1>9, Zenon DEF Handles

\* A thief leaves a queue when it has a task or the queue is empty.
LEMMA StealCovers ==
  ASSUME SetFacts, TypeOK, Own,
         NEW c \in Cpus, Steal(c),
         NEW q \in Queues, NEW t \in Tasks, InQueue(q, t)', t \notin excused'
  PROVE  Handles(c, q)
  <1>a. ThiefAct(c)  BY Zenon DEF ThiefAct
  <1>s. /\ OthersStay(c) /\ At(c) = pc[c]
        /\ ~Take(c) => At(c)' = pc'[c]
        /\ ~Steal(c) => queue' = queue
        /\ ~TryInjector(c) /\ ~Victim(c) /\ ~Steal(c) => excused' = excused
    BY <1>a, ThiefFacts, Zenon
  <1>n. /\ Hand(c) /\ c \in Actors /\ c \in Nat /\ q \in Nat
        /\ theft[c].round \in Nat /\ theft[c].num \in Nat /\ theft[c].next \in Nat
        /\ theft[c].left \in Nat /\ theft[c].limit \in Nat /\ theft[c].stolen \in Nat
        /\ theft[c].src # None => theft[c].src \in Queues
        /\ Rounds \in Nat \ {0}
        /\ Fits(pc[c], theft[c].round, theft[c].num, theft[c].src, theft[c].next, theft[c].left,
                theft[c].limit, theft[c].stolen)
        /\ theft[c].num <= Cardinality(online)
    BY <1>a, ThiefFacts, Zenon
  <1>0. pc[c] = "steal" /\ StealMoves(c)  BY ThiefMoves, Zenon DEF Steal
  <1>1. ~Take(c)  BY <1>0 DEF Take
  <1>2. PICK s \in Queues : s = theft[c].src
    <2>1. theft[c].src # None  BY <1>s, <1>n, <1>0 DEF Hand, Holding
    <2> QED  BY <1>n, <2>1
  <1>3. \/ pc'[c] = "take"
        \/ /\ ~ (theft[c].stolen <= theft[c].limit) \/ queue[s] = <<>>
           /\ theft'[c].stolen = theft[c].stolen /\ queue' = queue /\ excused' = excused
    BY <1>0, <1>2, Zenon DEF StealMoves, Kept, Thief
  <1>4. CASE pc'[c] = "take"
    <2>1. At(c)' \in Working \cup {"take"}  BY <1>s, <1>1, <1>4
    <2> QED  BY <2>1, AwakeHandles
  <1>5. CASE theft'[c].stolen = theft[c].stolen /\ theft[c].stolen > 0
    BY <1>5, AwakeHandles
  <1>6. CASE theft[c].stolen = 0 /\ queue[s] = <<>> /\ queue' = queue /\ excused' = excused
    <2>1. ~Busy(c)
      <3>1. ~ (theft[c].stolen > 0)  BY <1>6
      <3>2. pc[c] # "asleep" /\ pc[c] \notin Working \cup {"take"}  BY <1>0 DEF Working
      <3> QED  BY <1>s, <1>2, <1>6, <3>1, <3>2, Zenon DEF Busy
    <2>2. ~Visits(c, q)
      <3>1. q # s
        <4>1. DOMAIN queue[s] = {}  BY <1>6
        <4> QED  BY <1>6, <4>1, Zenon DEF InQueue
      <3> QED  BY <1>s, <1>0, <1>2, <3>1 DEF Visits, BeforeRounds, FirstRound
    <2> QED  BY <1>6, <2>1, <2>2, Zenon DEF Handles
  <1>7. \/ theft[c].stolen > 0
        \/ theft[c].stolen = 0 /\ theft[c].stolen <= theft[c].limit
    BY <1>n
  <1> QED  BY <1>3, <1>4, <1>5, <1>6, <1>7, Zenon

\* A thief that took a task is awake.
LEMMA TakeCovers ==
  ASSUME SetFacts, TypeOK, Own, NEW c \in Cpus, Take(c), NEW q \in Queues
  PROVE  Handles(c, q)
  <1>1. theft'[c].stolen = theft[c].stolen + 1  BY ThiefMoves, Zenon DEF TakeMoves, Thief
  <1>2. theft[c].stolen \in Nat  BY SelfFacts
  <1>3. theft'[c].stolen > 0  BY <1>1, <1>2
  <1> QED  BY <1>3, AwakeHandles

\* A thief gives back a queue that looked empty and goes on to the next victim.
LEMMA ReleaseCovers ==
  ASSUME SetFacts, TypeOK, Own,
         NEW c \in Cpus, Release(c),
         NEW q \in Queues, NEW t \in Tasks, InQueue(q, t)', t \notin excused'
  PROVE  Handles(c, q)
  <1>a. ThiefAct(c)  BY Zenon DEF ThiefAct
  <1>s. /\ OthersStay(c) /\ At(c) = pc[c]
        /\ ~Take(c) => At(c)' = pc'[c]
        /\ ~Steal(c) => queue' = queue
        /\ ~TryInjector(c) /\ ~Victim(c) /\ ~Steal(c) => excused' = excused
    BY <1>a, ThiefFacts, Zenon
  <1>n. /\ Hand(c) /\ c \in Actors /\ c \in Nat /\ q \in Nat
        /\ theft[c].round \in Nat /\ theft[c].num \in Nat /\ theft[c].next \in Nat
        /\ theft[c].left \in Nat /\ theft[c].limit \in Nat /\ theft[c].stolen \in Nat
        /\ theft[c].src # None => theft[c].src \in Queues
        /\ Rounds \in Nat \ {0}
        /\ Fits(pc[c], theft[c].round, theft[c].num, theft[c].src, theft[c].next, theft[c].left,
                theft[c].limit, theft[c].stolen)
        /\ theft[c].num <= Cardinality(online)
    BY <1>a, ThiefFacts, Zenon
  <1>0. pc[c] = "release" /\ ReleaseMoves(c)  BY ThiefMoves, Zenon DEF Release
  <1>1. ~Take(c) /\ ~Steal(c) /\ ~TryInjector(c) /\ ~Victim(c)
    BY <1>0 DEF Take, Steal, TryInjector, Victim
  <1>2. queue' = queue /\ excused' = excused /\ At(c)' = pc'[c]  BY <1>s, <1>1, Zenon
  <1>3. CASE theft[c].stolen > 0
    <2>0. theft[c].stolen # 0  BY <1>3
    <2>1. pc'[c] = "tick"  BY <1>0, <2>0, Zenon DEF ReleaseMoves, Cleared, Thief
    <2>2. At(c)' \in Working \cup {"take"}  BY <1>2, <2>1 DEF Working
    <2> QED  BY <2>2, AwakeHandles
  <1>4. CASE theft[c].stolen = 0
    <2>0. ~ (theft[c].stolen > 0)  BY <1>4
    <2>1. ~Busy(c)  BY <1>s, <1>0, <1>4, NotBusy DEF Working
    <2>2. ASSUME Visits(c, q)  PROVE Visits(c, q)'
      <3>1. /\ q \notin {c, Injector} /\ theft[c].limit = 0
            /\ \/ theft[c].src = Injector /\ theft[c].num = 0
               \/ /\ theft[c].src # Injector /\ theft[c].round = 0 /\ theft[c].num > 0
                  /\ q < theft[c].num
                  /\ Ahead(q, theft[c].num, theft[c].next, theft[c].left, 1)
        BY <1>s, <1>0, <2>2 DEF Visits, BeforeRounds, FirstRound
      <3>2. ~ (theft[c].limit > 0)  BY <3>1
      <3>3. CASE theft[c].src = Injector /\ theft[c].num = 0
        <4>1. theft[c].round # Rounds  BY <1>n, <1>0, <3>1, <3>3 DEF Fits
        <4>2. pc'[c] = "round" /\ theft'[c].num = 0
          BY <1>0, <2>0, <3>2, <3>3, <4>1, Zenon DEF ReleaseMoves, Kept, Thief
        <4> QED  BY <1>2, <3>1, <4>2 DEF Visits, BeforeRounds
      <3>4. CASE /\ theft[c].src # Injector /\ theft[c].round = 0 /\ theft[c].num > 0
                 /\ q < theft[c].num
                 /\ Ahead(q, theft[c].num, theft[c].next, theft[c].left, 1)
        <4>1. Stepped(c)  BY <1>0, <2>0, <3>2, <3>4, Zenon DEF ReleaseMoves
        <4>2. /\ pc'[c] = "victim" /\ theft'[c].round = 0 /\ theft'[c].num = theft[c].num
              /\ theft'[c].next = IF theft[c].next + 1 = theft[c].num THEN 0 ELSE theft[c].next + 1
              /\ theft'[c].left = theft[c].left - 1
          BY <3>4, <4>1, Zenon DEF Stepped, Thief
        <4>3. theft[c].next < theft[c].num  BY <1>n, <1>0, <3>1, <3>4 DEF Fits
        <4>4. Ahead(q, theft[c].num, theft'[c].next, theft'[c].left, 0)
          <5>1. Ahead(q, theft[c].num, IF theft[c].next + 1 = theft[c].num THEN 0 ELSE theft[c].next + 1,
                      theft[c].left - 1, 0)
            BY <1>n, <3>4, <4>3, AheadNext
          <5> QED  BY <4>2, <5>1, Zenon
        <4>5. FirstRound(At(c)', q, theft'[c].round, theft'[c].num, theft'[c].src, theft'[c].next,
                         theft'[c].left, theft'[c].limit)
          BY <1>2, <3>4, <4>2, <4>4, Zenon DEF FirstRound
        <4> QED  BY <3>1, <4>5, Zenon DEF Visits
      <3> QED  BY <3>1, <3>3, <3>4
    <2> QED  BY <1>2, <2>1, <2>2, Zenon DEF Covered, Handles
  <1>5. theft[c].stolen > 0 \/ theft[c].stolen = 0
    <2>1. theft[c].stolen \in Nat  BY <1>n, Zenon
    <2> QED  BY <2>1
  <1> QED  BY <1>3, <1>4, <1>5, Zenon

\* Every step of try_steal leaves a queue that has a task covered.
LEMMA CoverThief ==
  ASSUME SetFacts, Segments, TypeOK, Own, Binding, QueuedCounts, Consumers, InOrder, IdsSoFar,
         Driving = {}, NEW c \in Cpus, ThiefAct(c), NEW q \in Queues, NEW t \in Tasks,
         t \notin excused', InQueue(q, t)',
         InQueue(q, t) /\ t \notin excused => Covered(q)
  PROVE  Covered(q)'
  <1>1. Handles(c, q)
    BY TryInjectorCovers, LenCovers, CountWorkersCovers, RoundCovers, VictimCovers, StealCovers,
       TakeCovers, ReleaseCovers, Zenon DEF ThiefAct
  <1>2. CASE /\ queue' = queue /\ excused \subseteq excused'
             /\ ~Busy(c) /\ (Visits(c, q) => Covered(q)')
    <2>1. InQueue(q, t) /\ t \notin excused  BY <1>2, Zenon DEF InQueue
    <2>2. Thieving(c) /\ OthersStay(c) /\ c \in Actors  BY ThiefFacts, Zenon
    <2>3. sleepers' = sleepers /\ notified' = notified  BY <2>2, Zenon DEF Thieving
    <2>4. sleepers.permit => Alert'  BY <2>3, Zenon DEF Alert
    <2>5. Keeping(c, q)  BY <1>2, <2>2, <2>3, <2>4, Zenon DEF Keeping
    <2> QED  BY <2>1, <2>2, <2>5, KeepsCovered, Zenon
  <1> QED  BY <1>1, <1>2, Zenon DEF Handles

\* Every step keeps the sleep from losing a task.
LEMMA CoverageStep ==
  ASSUME SetFacts, Segments, TypeOK, Own, Binding, QueuedCounts, Consumers, Sleepers, InOrder,
         Coverage, Next
  PROVE  Coverage'
  <1> SUFFICES ASSUME Driving = {}, ~sleepers'.closed, IdsSoFar', NEW q \in Queues,
                      NEW t \in Tasks, t \notin excused', InQueue(q, t)'
               PROVE  Covered(q)'
    BY Zenon DEF Coverage, Covered
  <1>1. IdsSoFar  BY OrderStep, Zenon
  <1>2. ~sleepers.closed
    <2>1. sleepers \in [permit : BOOLEAN, waiters : Seq(Cpus), closed : BOOLEAN]  BY TypeFields, Zenon
    <2>2. ASSUME NEW a \in Actors, InnerAct(a)  PROVE sleepers' = sleepers
      BY <2>2, InnerSteps, Zenon DEF Inner
    <2>3. ASSUME NEW c \in Cpus, \/ ThiefAct(c) \/ WorkerId(c) \/ Register(c) \/ WakeUp(c)
          PROVE  sleepers' = sleepers
      <3>1. ThiefAct(c) => sleepers' = sleepers  BY ThiefSteps, Zenon DEF Thieving
      <3> QED  BY <2>3, <3>1, Zenon DEF WorkerId, Register, WakeUp
    <2>4. ASSUME NEW c \in Cpus, Wait(c) \/ PollClose(c)  PROVE ~sleepers.closed
      <3>1. \/ sleepers' = sleepers \/ ~sleepers.closed
        BY <2>4, Zenon DEF Wait, PollClose
      <3> QED  BY <3>1, Zenon
    <2>5. ASSUME NEW i \in Irqs, WakeOne(i)  PROVE sleepers'.closed = sleepers.closed
      <3>1. \/ sleepers' = [sleepers EXCEPT !.waiters = Tail(sleepers.waiters)]
            \/ sleepers' = [sleepers EXCEPT !.permit = ~sleepers.closed]
        BY <2>5, Zenon DEF WakeOne
      <3> QED  BY <2>1, <3>1
    <2> QED  BY <2>2, <2>3, <2>4, <2>5, SleepCases, Zenon
  <1>3. InQueue(q, t) /\ t \notin excused => Covered(q)  BY <1>1, <1>2, Zenon DEF Coverage, Covered
  <1>4. ASSUME NEW a \in Actors, InnerAct(a)  PROVE Covered(q)'  BY <1>2, <1>4, CoverInner
  <1>5. ASSUME NEW c \in Cpus, ThiefAct(c)  PROVE Covered(q)'  BY <1>1, <1>3, <1>5, CoverThief
  <1>6. ASSUME NEW c \in Cpus, \/ WorkerId(c) \/ Register(c) \/ WakeUp(c) \/ PollClose(c)
        PROVE  Covered(q)'
    BY <1>6, CoverOthers, Zenon
  <1>7. ASSUME NEW c \in Cpus, Wait(c)  PROVE Covered(q)'
    <2>1. queue' = queue /\ excused' = excused  BY <1>7, Zenon DEF Wait
    <2>2. InQueue(q, t) /\ t \notin excused  BY <2>1, Zenon DEF InQueue
    <2> QED  BY <1>3, <1>7, <2>2, CoverOthers, Zenon
  <1>8. ASSUME NEW i \in Irqs, WakeOne(i)  PROVE Covered(q)'  BY <1>8, CoverWakeOne, Zenon
  <1> QED  BY <1>4, <1>5, <1>6, <1>7, <1>8, SleepCases, Zenon

-----------------------------------------------------------------------------
(* The initial state, and what Coverage means when all workers are at rest. *)

\* No queue has a task at the start.
LEMMA CoverageInit ==
  ASSUME Init  PROVE Coverage
  <1>1. \A q \in Queues : queue[q] = <<>> /\ DOMAIN queue[q] = {}
    <2>1. \A q \in Queues : queue[q] = <<>>  BY AtStart, Zenon
    <2> QED  BY <2>1
  <1> QED  BY <1>1, Zenon DEF Coverage, InQueue

\* Coverage is what NoStrandedTask needs.
LEMMA NobodyStranded ==
  ASSUME TypeOK, Own, Sleepers, Coverage, Driving = {}  PROVE NoStrandedTask
  <1> SUFFICES ASSUME AtRest, ~sleepers.closed, IdsMatch, NEW q \in Queues, NEW k \in DOMAIN queue[q],
                      queue[q][k] \notin excused
               PROVE  FALSE
    BY Zenon DEF NoStrandedTask
  <1>1. ASSUME NEW c \in Cpus
        PROVE  /\ At(c) = "asleep" /\ notified[c] = "no" /\ Waits(sleepers.waiters, c)
               /\ theft[c].stolen = 0
    <2>1. pc[c] \in {"done", "asleep"}  BY Zenon DEF AtRest
    <2>2. At(c) = pc[c]  BY <2>1 DEF At
    <2>3. At(c) # "done"  BY Zenon DEF Sleepers
    <2>4. At(c) = "asleep" /\ notified[c] = "no"  BY <2>1, <2>2, <2>3, Zenon DEF AtRest
    <2>5. Waits(sleepers.waiters, c)  BY <2>4, Zenon DEF Sleepers
    <2>6. "asleep" \notin Stealing  BY DEF Stealing, Holding
    <2>7. Clean(theft[c])  BY <2>4, <2>6, Zenon DEF Own, Hands, Hand
    <2> QED  BY <2>4, <2>5, <2>7, Zenon DEF Clean
  <1>2. ~Alert
    <2>1. 0 \in Cpus  BY Bounds DEF Cpus
    <2>2. ~sleepers.permit
      <3>1. Waits(sleepers.waiters, 0)  BY <1>1, <2>1, Zenon
      <3>2. sleepers.waiters # <<>>
        <4>1. ~Waits(<<>>, 0)  BY DEF Waits
        <4> QED  BY <3>1, <4>1, Zenon
      <3> QED  BY <3>2, Zenon DEF Sleepers
    <2>3. \A i \in Irqs : pc[i] = "idle"  BY Zenon DEF AtRest
    <2>4. \A c \in Cpus : ~Busy(c)
      <3>1. "asleep" \notin Working \cup {"take"} /\ "asleep" # "steal" /\ "no" # "woken" /\ ~(0 > 0)
        BY DEF Working
      <3> QED  BY <1>1, <3>1, Zenon DEF Busy
    <2> QED  BY <2>2, <2>3, <2>4, Zenon DEF Alert
  <1>3. \A c \in Cpus : ~Visits(c, q)
    <2>1. /\ "asleep" \notin {"inject_len", "victim_len", "steal"} /\ "asleep" # "inject"
          /\ "asleep" \notin {"inject", "inject_len", "round"} /\ "asleep" # "release"
          /\ "asleep" # "round" /\ "asleep" # "victim" /\ "asleep" # "victim_len"
      OBVIOUS
    <2> QED  BY <1>1, <2>1, Zenon DEF Visits, BeforeRounds, FirstRound
  <1>4. queue[q][k] \in Tasks
    <2>1. queue[q] \in Seq(Tasks)  BY TypeFields, Zenon
    <2> QED  BY <2>1
  <1>5. IdsSoFar  BY Zenon DEF IdsMatch, IdsSoFar
  <1>6. InQueue(q, queue[q][k])  BY Zenon DEF InQueue
  <1> QED  BY <1>2, <1>3, <1>4, <1>5, <1>6, Zenon DEF Coverage

-----------------------------------------------------------------------------
(* Finite sets of CPUs and of actors. *)

\* A nonempty set of natural numbers has a least member.
LEMMA Least ==
  ASSUME NEW T, T \subseteq Nat, T # {}
  PROVE  \E x \in T : \A y \in T : x <= y
  <1>1. IsWellFoundedOn(OpToRel(<, Nat), Nat)  BY NatLessThanWellFounded, Zenon
  <1>2. PICK x \in T : \A y \in T : ~ (<<y, x>> \in OpToRel(<, Nat))
    BY <1>1, WFMin, Zenon
  <1>3. \A y \in T : ~ (y < x)
    BY <1>2 DEF OpToRel
  <1> QED BY <1>3

\* The i-th member of a set of CPU numbers exists if the set is large enough.
LEMMA NthExists ==
  ASSUME NEW n \in Nat, NEW S \in SUBSET (0 .. n - 1), NEW i \in Nat, i < Cardinality(S)
  PROVE  \E c \in S : Cardinality({d \in S : d < c}) = i
  <1> DEFINE B(c) == {d \in S : d < c}
             T == {c \in Nat : Cardinality(B(c)) > i}
  <1>1. IsFiniteSet(S)
    <2>1. n - 1 \in Int /\ S \in SUBSET (0 .. n - 1)
      OBVIOUS
    <2>2. IsFiniteSet(0 .. n - 1)
      BY <2>1, FS_Interval
    <2> QED BY <2>1, <2>2, FS_Subset
  <1>2. \A c \in Nat : IsFiniteSet(B(c)) /\ Cardinality(B(c)) \in Nat
    BY <1>1, FS_Subset, FS_CardinalityType
  <1>3. B(n) = S /\ B(0) = {}
    <2>1. \A d \in S : d < n /\ ~ (d < 0)
      OBVIOUS
    <2> QED BY <2>1
  <1>4. n \in T /\ 0 \notin T
    BY <1>3, FS_EmptySet
  <1>5. PICK m \in T : \A y \in T : m <= y
    BY <1>4, Least
  <1>6. m \in Nat /\ m > 0 /\ m - 1 \in Nat /\ m - 1 \notin T
    <2>1. m \in Nat /\ m # 0
      BY <1>4, <1>5
    <2> HIDE DEF T
    <2> QED BY <2>1, <1>5
  <1>a. \A d \in S : d < m <=> (d < m - 1 \/ d = m - 1)
    BY <1>6
  <1>7. Cardinality(B(m - 1)) <= i /\ Cardinality(B(m)) > i
    BY <1>2, <1>6
  <1>8. CASE m - 1 \in S
    <2>1. B(m) = B(m - 1) \cup {m - 1} /\ m - 1 \notin B(m - 1)
      BY <1>8, <1>6, <1>a
    <2>2. Cardinality(B(m)) = Cardinality(B(m - 1)) + 1
      BY <2>1, <1>2, <1>6, FS_AddElement
    <2>3. Cardinality(B(m - 1)) = i
      <3>1. Cardinality(B(m - 1)) \in Nat  BY <1>2, <1>6
      <3> HIDE DEF B
      <3> QED BY <2>2, <1>7, <3>1
    <2> QED BY <2>3, <1>8
  <1>9. CASE m - 1 \notin S
    <2>1. B(m) = B(m - 1)
      BY <1>9, <1>a
    <2> QED BY <2>1, <1>7, <1>2, <1>6
  <1> QED BY <1>8, <1>9

\* There are finitely many actors.
LEMMA FiniteActors == IsFiniteSet(Cpus) /\ Cardinality(Cpus) = NumCpus /\ IsFiniteSet(Actors)
  <1>1. NumCpus \in Nat \ {0} /\ NumCpus - 1 \in Int /\ 0 \in Int /\ IsFiniteSet(Irqs)  BY Bounds
  <1>2. IsFiniteSet(Cpus) /\ Cardinality(Cpus) = NumCpus  BY <1>1, FS_Interval DEF Cpus
  <1> QED  BY <1>1, <1>2, FS_Union, Zenon DEF Actors

\* The facts on finite sets that the lemmas of ExecutorSteps assume.
LEMMA SetFactsHold == SetFacts
  <1>1. ASSUME NEW S \in SUBSET Cpus
        PROVE  /\ Cardinality(S) \in 0 .. NumCpus
               /\ \A i \in Nat : i < Cardinality(S) =>
                     \E c \in S : Cardinality({d \in S : d < c}) = i
    <2>1. IsFiniteSet(S) /\ Cardinality(S) <= NumCpus  BY FiniteActors, FS_Subset
    <2>2. Cardinality(S) \in Nat  BY <2>1, FS_CardinalityType
    <2>3. S \in SUBSET (0 .. NumCpus - 1) /\ NumCpus \in Nat  BY Bounds DEF Cpus
    <2>4. \A i \in Nat : i < Cardinality(S) => \E c \in S : Cardinality({d \in S : d < c}) = i
      BY <2>3, NthExists
    <2> QED  BY <2>1, <2>2, <2>3, <2>4
  <1>2. ASSUME NEW S \in SUBSET Actors
        PROVE  /\ Cardinality(S) \in Nat /\ (Cardinality(S) = 0 <=> S = {})
               /\ \A a \in Actors : /\ a \notin S => Cardinality(S \cup {a}) = Cardinality(S) + 1
                                    /\ a \in S => Cardinality(S \ {a}) = Cardinality(S) - 1
    <2>1. IsFiniteSet(S)  BY FiniteActors, FS_Subset, Zenon
    <2> QED  BY <2>1, FS_CardinalityType, FS_EmptySet, FS_AddElement, FS_RemoveElement
  <1> QED  BY <1>1, <1>2, Zenon DEF SetFacts

\* The facts on initial segments that the lemmas of ExecutorSleep assume.
LEMMA SegmentsHold == Segments
  <1> SUFFICES ASSUME NEW n \in 0 .. NumCpus
               PROVE  /\ Cardinality(0 .. n - 1) = n
                      /\ \A c \in 0 .. n - 1 : Cardinality({d \in 0 .. n - 1 : d < c}) = c
    BY Zenon DEF Segments
  <1>1. n \in Nat /\ n - 1 \in Int /\ 0 \in Int  BY Bounds
  <1>2. Cardinality(0 .. n - 1) = n  BY <1>1, FS_Interval
  <1>3. ASSUME NEW c \in 0 .. n - 1  PROVE Cardinality({d \in 0 .. n - 1 : d < c}) = c
    <2>1. c \in Nat /\ c - 1 \in Int /\ {d \in 0 .. n - 1 : d < c} = 0 .. c - 1  BY <1>1
    <2>2. Cardinality(0 .. c - 1) = IF 0 > c - 1 THEN 0 ELSE (c - 1) - 0 + 1
      BY <1>1, <2>1, FS_Interval, Zenon
    <2>3. (IF 0 > c - 1 THEN 0 ELSE (c - 1) - 0 + 1) = c  BY <2>1
    <2> QED  BY <2>1, <2>2, <2>3, Zenon
  <1> QED  BY <1>2, <1>3

-----------------------------------------------------------------------------
(* The invariant holds at the start ... *)

\* The inductive invariant.
ExecutorInv ==
  /\ TypeOK /\ Own /\ Binding /\ Places /\ QueuedCounts
  /\ Consumers /\ Sleepers /\ InOrder /\ Coverage

\* The invariant holds at the start.
LEMMA InvInit ==
  ASSUME Init  PROVE ExecutorInv
  BY SetFactsHold, TypeInit, OwnInit, PlacesInit, CountsInit, SleepInit, CoverageInit, Zenon
     DEF ExecutorInv

\* The cardinalities that PlacedOnce assumes.
LEMMA SinglesHold == Singles
  BY FS_EmptySet, FS_Singleton, Zenon DEF Singles

-----------------------------------------------------------------------------
(* ... and after every step. *)

\* Every step keeps the invariant.
LEMMA InvStep ==
  ASSUME ExecutorInv, Next  PROVE ExecutorInv'
  <1>0. /\ SetFacts /\ Segments /\ TypeOK /\ Own /\ Binding /\ Places /\ QueuedCounts
        /\ Consumers /\ Sleepers /\ InOrder /\ Coverage
    BY SetFactsHold, SegmentsHold, Zenon DEF ExecutorInv
  <1>1. TypeOK'  BY <1>0, TypeStep, Zenon
  <1>2. Own'  BY <1>0, OwnStep, Zenon
  <1>3. Places'  BY <1>0, PlacesStep, Zenon
  <1>4. Binding'
    <2>1. Calls'  BY <1>2, Zenon DEF Own
    <2> QED  BY <1>0, <1>1, <2>1, BindingStep, Zenon
  <1>5. QueuedCounts'  BY <1>0, CountsStep, Zenon
  <1>6. Consumers'  BY <1>0, ConsumersStep, Zenon
  <1>7. Sleepers'  BY <1>0, SleepersStep, Zenon
  <1>8. InOrder'  BY <1>0, OrderStep, Zenon
  <1>9. Coverage'  BY <1>0, CoverageStep, Zenon
  <1> QED  BY <1>1, <1>2, <1>3, <1>4, <1>5, <1>6, <1>7, <1>8, <1>9, Zenon DEF ExecutorInv

\* The invariant is about the variables of the specification only.
LEMMA InvStutter ==
  ASSUME ExecutorInv, UNCHANGED vars  PROVE ExecutorInv'
  <1>0. /\ TypeOK /\ Own /\ Binding /\ Places /\ QueuedCounts
        /\ Consumers /\ Sleepers /\ InOrder /\ Coverage
    BY Zenon DEF ExecutorInv
  <1>1. /\ pc' = pc /\ online' = online /\ id' = id /\ cur' = cur /\ polled' = polled
        /\ theft' = theft /\ sched' = sched /\ queue' = queue /\ queued' = queued
        /\ consumer' = consumer /\ bound' = bound /\ task' = task /\ sleepers' = sleepers
        /\ notified' = notified /\ excused' = excused
    BY Zenon DEF vars
  <1>2. TypeOK'  BY <1>0, <1>1, Zenon DEF TypeOK
  <1>3. Own'
    BY <1>0, <1>1, Zenon DEF Own, Calls, Hands, Thefts, Call, Hand, Theft, At
  <1>4. Binding'  BY <1>0, <1>1, Zenon DEF Binding, BoundWhereQueued
  <1>5. Places'
    <2>0. \A q, t : InQueue(q, t)' <=> InQueue(q, t)  BY <1>1, Zenon DEF InQueue
    <2>1. ASSUME NEW k, NEW x, NEW t  PROVE Has(k, x, t)' <=> Has(k, x, t)
      BY <1>1, <2>0, Zenon DEF Has
    <2>2. \A k, x : Phases(k, x)' = Phases(k, x)  BY <1>1, Zenon DEF Phases
    <2>3. \A q : NoDup(q)' <=> NoDup(q)  BY <1>1, Zenon DEF NoDup
    <2> QED  BY <1>0, <1>1, <2>1, <2>2, <2>3, Zenon DEF Places
  <1>6. QueuedCounts'  BY <1>0, <1>1, Zenon DEF QueuedCounts
  <1>7. Consumers'  BY <1>0, <1>1, Zenon DEF Consumers
  <1>8. Sleepers'  BY <1>0, <1>1, Zenon DEF Sleepers, At
  <1>9. InOrder'  BY <1>0, <1>1, Zenon DEF InOrder, IdsSoFar, At
  <1>10. Coverage'
    <2>1. \A a : At(a)' = At(a)  BY <1>1, Zenon DEF At
    <2>2. \A c : Busy(c)' <=> Busy(c)  BY <1>1, <2>1, Zenon DEF Busy
    <2>3. Alert' <=> Alert  BY <1>1, <2>2, Zenon DEF Alert
    <2>4. \A c, q : Visits(c, q)' <=> Visits(c, q)  BY <1>1, <2>1, Zenon DEF Visits
    <2>5. \A q, t : InQueue(q, t)' <=> InQueue(q, t)  BY <1>1, Zenon DEF InQueue
    <2>6. IdsSoFar' <=> IdsSoFar  BY <1>1, Zenon DEF IdsSoFar
    <2> QED  BY <1>0, <1>1, <2>3, <2>4, <2>5, <2>6, Zenon DEF Coverage
  <1> QED  BY <1>2, <1>3, <1>4, <1>5, <1>6, <1>7, <1>8, <1>9, <1>10, Zenon DEF ExecutorInv

\* Every behaviour of the executor keeps the invariant, with any number of CPUs, tasks and
\* trap handlers.
THEOREM ExecutorInvariant == Spec => []ExecutorInv
  <1>1. Init => ExecutorInv  BY InvInit
  <1>2. ExecutorInv /\ [Next]_vars => ExecutorInv'  BY InvStep, InvStutter
  <1> QED  BY <1>1, <1>2, PTL DEF Spec

-----------------------------------------------------------------------------
(* What follows from it. *)

\* Every variable of the executor stays within its type: in particular no counter
\* wraps below zero and try_steal's locals stay within the number of workers.
THEOREM TypesHold == Spec => []TypeOK
  <1>1. ExecutorInv => TypeOK  BY Zenon DEF ExecutorInv
  <1> QED  BY <1>1, ExecutorInvariant, PTL

\* The `queued' counter of every scheduler and of the injector counts exactly the
\* tasks in its queue and those on their way in or out (Scheduler::schedule, tick_n,
\* Stealer::spawn_one), whatever is stolen meanwhile.
THEOREM CountersExact == Spec => []QueuedCounts
  <1>1. ExecutorInv => QueuedCounts  BY Zenon DEF ExecutorInv
  <1> QED  BY <1>1, ExecutorInvariant, PTL

\* A queued task is bound to the scheduler whose queue it is in, and a task that a
\* waker can reach is bound to one: TaskRef::schedule never panics.
THEOREM BindingHolds == Spec => []BoundWhereQueued
  <1>1. ExecutorInv => BoundWhereQueued  BY Zenon DEF ExecutorInv, Binding
  <1> QED  BY <1>1, ExecutorInvariant, PTL

-----------------------------------------------------------------------------
(* No task is lost or duplicated. *)

\* However it is spawned, woken, stolen and moved, an active task is in exactly one
\* queue, pair of hands or call of schedule, and any other task in none.
THEOREM TasksInOnePlace == Spec => []OnePlace
  <1>1. ExecutorInv => OnePlace
    <2>1. ExecutorInv => TypeOK /\ Places  BY Zenon DEF ExecutorInv
    <2> QED  BY <2>1, PlacedOnce, SinglesHold, Zenon DEF OnePlace
  <1> QED  BY <1>1, ExecutorInvariant, PTL

-----------------------------------------------------------------------------
(* No lost wake-up. *)

\* Where no worker drives a future of its own (Worker::run of a pending future), the
\* workers never all sleep over a queued task that no thief passed over, however many
\* CPUs, tasks, interrupts and rounds of stealing there are.
THEOREM NoTaskStranded ==
  ASSUME Driving = {}  PROVE Spec => []NoStrandedTask
  <1>1. ExecutorInv => NoStrandedTask  BY NobodyStranded, Zenon DEF ExecutorInv
  <1> QED  BY <1>1, ExecutorInvariant, PTL

-----------------------------------------------------------------------------
(* The life of a task. *)

\* Every task of the executor lives the life TaskLifecycle specifies: it is polled only
\* when queued, is queued again only when woken, and nothing happens to it after
\* Task::poll returned Ready.
THEOREM TasksLiveTheirLives == Spec => TasksFollowLifecycle
  <1>1. ExecutorInv /\ [Next]_vars =>
          [\A t \in Tasks : [Life(t)!Next]_<<PhaseOf(t), OutputOf(t)>>]_vars
    <2>1. ExecutorInv => TypeOK /\ Own /\ Places  BY Zenon DEF ExecutorInv
    <2> QED  BY <2>1, LifeStep
  <1> QED  BY <1>1, ExecutorInvariant, PTL DEF Spec, TasksFollowLifecycle
=============================================================================
