----------------------------- MODULE IrqProofs -----------------------------
(***************************************************************************)
(* For any finite set of tasks and any interrupts, the trap handler finds  *)
(* QUEUES free and is never nested, and a wake-up is lost only in the two  *)
(* windows that missed and overslept record; a task with an interrupt of   *)
(* its own stays reachable.  The argument has three parts: who has turned  *)
(* interrupts off (Control), which tasks wait where (Waiting), and what    *)
(* keeps the thread awake while a task is queued                           *)
(* (Awake).  The handler runs to its end while the thread stands still,    *)
(* so each part mostly speaks about one of the two.                        *)
(***************************************************************************)
EXTENDS Irq, FiniteSetTheorems, FunctionTheorems, TLAPS

\* Interrupts are off exactly in the critical section of next_event and in the
\* handler; the queues exist before an interrupt is unmasked.
Control ==
    /\ trap # "recursive"
    /\ sie <=> (trap = "idle" /\ thread \notin HoldSteps)
    /\ trap # "idle" => thread \notin HoldSteps /\ plic.enabled # {}
    /\ thread \in HoldSteps => held_irq["thread"]
    /\ trap = "wake_all" => ~held_irq["handler"]
    /\ held["thread"] = IF thread \in {"entry", "unlock"} THEN "write" ELSE "none"
    /\ held["handler"] = IF trap = "wake_all" THEN "read" ELSE "none"
    /\ once = "RUNNING" <=> thread = "init"
    /\ thread \in EventSteps \ {"force", "init"} => once = "COMPLETE"
    /\ plic.enabled # {} => once = "COMPLETE"
    /\ \A t \in Tasks : resume[t] = "await" => once = "COMPLETE"

\* Where a task stands in next_event tells whether its Wait exists; a Wait has
\* its queue, and its interrupt is claimed by the handler only for a moment.
Waiting ==
    /\ thread \in LoopSteps <=> cur = None
    /\ \A t \in Tasks :
          /\ t # cur => (t \in waits <=> resume[t] = "await")
          /\ t = cur => (t \in waits <=>
                thread \in {"unlock", "restore", "borrow_unmask", "unmask",
                            "end_unmask", "await", "end_poll"})
          /\ t \in waits => irq_num[t] \in queues
    /\ plic.claimed = IF trap = "complete" THEN {claim} ELSE {}
    /\ trap = "complete" => claim \in plic.enabled
    /\ trap \in {"release", "wake_one"} =>
          \A t \in waits : irq_num[t] = claim => t \in notified

\* An interrupt is unmasked exactly for the tasks that wait for it.
Unmasked ==
    /\ \A t \in waits :
          t # cur \/ thread \in {"end_unmask", "await", "end_poll"} => irq_num[t] \in plic.enabled
    /\ \A i \in plic.enabled :
          \E t \in Tasks : irq_num[t] = i /\ (t \in waits \/ t = cur)

\* A task that was woken is queued or missed, and while one is queued the worker
\* is not a sleeper: it has a permit, or drain will find the wake-up.  Past drain
\* a wake-up comes with an IPI.
Awake ==
    /\ \A t \in notified :
          t # cur => t \in missed \/ \E k \in DOMAIN runq : runq[k] = t
    /\ thread = "end_poll" /\ cur \in notified => cur \in missed
    /\ thread \in {"park", "wfi"} /\ unparked => ssoft \/ overslept
    /\ thread = "wait" => sleepers # "waiter"
    /\ thread \in {"drain", "park", "wfi"} => sleepers = "waiter" \/ unparked
    /\ runq # <<>> /\ trap = "idle" =>
          /\ sleepers # "waiter"
          /\ thread = "wait" => sleepers = "permit"

IInv == TypeOK /\ Control /\ Waiting /\ Awake

\* next_event is used with one task for each interrupt: the first of two to be
\* done would mask the interrupt for both.
OneTaskPerIrq == \A t, u \in Tasks : irq_num[t] = irq_num[u] => t = u

-----------------------------------------------------------------------------
\* The orders in which a set of tasks may be queued contain each of them.
LEMMA OrderHasAll ==
    ASSUME NEW S, IsFiniteSet(S), NEW q \in Orders(S)
    PROVE  /\ q \in Seq(S)
           /\ \A t \in S : \E k \in DOMAIN q : q[k] = t
  <1> DEFINE D == 1 .. Cardinality(S)
  <1>1. Cardinality(S) \in Nat  BY FS_CardinalityType
  <1>2. q \in [D -> S] /\ \A i, j \in D : i # j => q[i] # q[j]
    BY DEF Orders
  <1>3. q \in Injection(D, S)
    BY <1>2 DEF Injection, IsInjective
  <1>4. Cardinality(D) = Cardinality(S)
    BY <1>1, FS_Interval
  <1>5. q \in Surjection(D, S)
    BY <1>3, <1>4, FS_Injection
  <1>6. \A t \in S : \E k \in D : q[k] = t
    BY <1>5 DEF Surjection
  <1>7. q \in Seq(S)
    BY <1>1, <1>2
  <1> QED  BY <1>2, <1>6, <1>7

-----------------------------------------------------------------------------
\* Abbreviations that every step expands.
USE DEF hart, device, task, lock, entries, executor, handler

\* The thread runs a task exactly while it is inside next_event.
LEMMA CurIsTask ==
    ASSUME IInv, thread \in EventSteps
    PROVE  cur \in Tasks /\ irq_num[cur] \in Irqs
  <1>1. thread \notin LoopSteps
    BY DEF EventSteps, HoldSteps, LoopSteps
  <1>2. cur \in Tasks
    BY <1>1 DEF IInv, Waiting, TypeOK, PlacesOK
  <1> QED  BY <1>2, IrqAssumption

\* The worker goes back to drain, or on to wait, or takes a task.
LEMMA PollCases ==
    ASSUME PlacesOK, Poll
    PROVE  \/ sleepers = "waiter" /\ thread' = "drain" /\ cur' = cur /\ runq' = runq
           \/ /\ sleepers # "waiter" /\ runq = <<>> /\ thread' = "wait"
              /\ cur' = cur /\ runq' = runq
           \/ /\ sleepers # "waiter" /\ runq # <<>>
              /\ Head(runq) \in Tasks /\ Tail(runq) \in Seq(Tasks)
              /\ thread' = resume[Head(runq)] /\ cur' = Head(runq)
              /\ runq' = Tail(runq)
  <1>1. CASE sleepers = "waiter"  BY <1>1 DEF Poll
  <1>2. CASE sleepers # "waiter" /\ runq = <<>>  BY <1>2 DEF Poll
  <1>3. CASE sleepers # "waiter" /\ runq # <<>>
    <2>1. Head(runq) \in Tasks /\ Tail(runq) \in Seq(Tasks)
      BY <1>3 DEF PlacesOK
    <2> QED  BY <1>3, <2>1 DEF Poll
  <1> QED  BY <1>1, <1>2, <1>3

\* Types of the flags.
LEMMA FlagsStep ==
    ASSUME IInv, [Next]_vars
    PROVE  FlagsOK'
  <1>1. FlagsOK  BY DEF IInv, TypeOK
  <1> USE DEF FlagsOK
  <1>2. CASE Poll
    BY <1>2, <1>1, Zenon DEF Poll
  <1>3. CASE Wait
    BY <1>3, <1>1, Zenon DEF Wait, Goto
  <1>4. CASE drain
    BY <1>4, <1>1, Zenon DEF drain, Goto
  <1>5. CASE park
    BY <1>5, <1>1, Zenon DEF park, Goto
  <1>6. CASE force
    BY <1>6, <1>1, Zenon DEF force, Goto
  <1>7. CASE InitQueues
    BY <1>7, <1>1, Zenon DEF InitQueues, Goto
  <1>8. CASE hold_interrupts
    BY <1>8, <1>1, Zenon DEF hold_interrupts, Goto
  <1>9. CASE write
    BY <1>9, <1>1, Zenon DEF write, Goto, Lock!Write, Lock!Become
  <1>10. CASE Entry
    BY <1>10, <1>1, Zenon DEF Entry, Goto
  <1>11. CASE Unlock
    BY <1>11, <1>1, Zenon DEF Unlock, Goto, Lock!Release, Lock!Become
  <1>12. CASE Restore
    BY <1>12, <1>1, Zenon DEF Restore, Goto, release
  <1>13. CASE Borrow("borrow_unmask", "unmask")
    BY <1>13, <1>1, Zenon DEF Borrow, Goto
  <1>14. CASE irq_unmask
    BY <1>14, <1>1, Zenon DEF irq_unmask, Goto
  <1>15. CASE EndBorrow("end_unmask", "await")
    BY <1>15, <1>1, Zenon DEF EndBorrow, Goto
  <1>16. CASE Await
    BY <1>16, <1>1, Zenon DEF Await, Goto
  <1>16a. CASE EndPoll
    BY <1>16a, <1>1, Zenon DEF EndPoll, Goto
  <1>17. CASE Borrow("borrow_mask", "mask")
    BY <1>17, <1>1, Zenon DEF Borrow, Goto
  <1>18. CASE irq_mask
    BY <1>18, <1>1, Zenon DEF irq_mask, Goto
  <1>19. CASE EndBorrow("end_mask", "force")
    BY <1>19, <1>1, Zenon DEF EndBorrow, Goto
  <1>20. CASE TakeExternal
    BY <1>20, <1>1, Zenon DEF TakeExternal, Interrupted
  <1>21. CASE TakeSoft
    BY <1>21, <1>1, Zenon DEF TakeSoft, Interrupted
  <1>22. CASE irq_claim
    BY <1>22, <1>1, Zenon DEF irq_claim
  <1>23. CASE irq_complete
    BY <1>23, <1>1, Zenon DEF irq_complete
  <1>24. CASE try_read
    BY <1>24, <1>1, Zenon DEF try_read, Lock!Read, Lock!Become
  <1>25. CASE wake_all
    BY <1>25, <1>1, Zenon DEF wake_all, release, Lock!Release, Lock!Become
  <1>26. CASE ReleaseController
    BY <1>26, <1>1, Zenon DEF ReleaseController
  <1>27. CASE wake_one
    BY <1>27, <1>1, Zenon DEF wake_one
  <1>28. ASSUME NEW i \in Irqs, Raise(i)  PROVE  FlagsOK'
    BY <1>28, <1>1, Zenon DEF Raise
  <1>29. CASE UNCHANGED vars
    BY <1>29, <1>1, Zenon DEF vars
  <1> QED
    BY <1>2, <1>3, <1>4, <1>5, <1>6, <1>7, <1>8, <1>9, <1>10, <1>11, <1>12, <1>13,
       <1>14, <1>15, <1>16, <1>16a, <1>17, <1>18, <1>19, <1>20, <1>21, <1>22, <1>23, <1>24, <1>25,
       <1>26, <1>27, <1>28, <1>29, Zenon
    DEF Next, ThreadStep, TrapStep

\* Types of the rest.
LEMMA PlacesStep ==
    ASSUME IInv, [Next]_vars
    PROVE  PlacesOK'
  <1>1. PlacesOK  BY DEF IInv, TypeOK
  <1> USE DEF PlacesOK
  <1>2. CASE Poll
    <2>1. cur' \in Tasks \cup {None} /\ runq' \in Seq(Tasks)
            /\ thread' \in LoopSteps \cup EventSteps
      BY <1>2, <1>1, PollCases DEF LoopSteps, EventSteps
    <2> QED  BY <1>2, <2>1, <1>1 DEF Poll
  <1>3. CASE Wait
    BY <1>3, <1>1, SMTT(20) DEF Wait, Goto, LoopSteps
  <1>4. CASE drain
    BY <1>4, <1>1, SMTT(20) DEF drain, Goto, LoopSteps
  <1>5. CASE park
    BY <1>5, <1>1, SMTT(20) DEF park, Goto, LoopSteps
  <1>6. CASE force
    BY <1>6, <1>1, SMTT(20) DEF force, Goto, LoopSteps, HoldSteps, EventSteps
  <1>7. CASE InitQueues
    BY <1>7, <1>1, SMTT(20) DEF InitQueues, Goto, LoopSteps, HoldSteps, EventSteps
  <1>8. CASE hold_interrupts
    BY <1>8, <1>1, SMTT(20)
    DEF hold_interrupts, Goto, LoopSteps, HoldSteps, EventSteps
  <1>9. CASE write
    BY <1>9, <1>1, SMTT(20)
    DEF write, Goto, Lock!Write, Lock!Become, LoopSteps, HoldSteps, EventSteps, Lock!Guards
  <1>10. CASE Entry
    BY <1>10, <1>1, CurIsTask, SMTT(20)
    DEF Entry, Goto, LoopSteps, HoldSteps, EventSteps
  <1>11. CASE Unlock
    BY <1>11, <1>1, SMTT(20)
    DEF Unlock, Goto, Lock!Release, Lock!Become, LoopSteps, HoldSteps, EventSteps, Lock!Guards
  <1>12. CASE Restore
    BY <1>12, <1>1, SMTT(20)
    DEF Restore, Goto, release, LoopSteps, HoldSteps, EventSteps
  <1>13. CASE Borrow("borrow_unmask", "unmask")
    BY <1>13, <1>1, SMTT(20) DEF Borrow, Goto, LoopSteps, HoldSteps, EventSteps
  <1>14. CASE irq_unmask
    BY <1>14, <1>1, CurIsTask, SMTT(20)
    DEF irq_unmask, Goto, LoopSteps, HoldSteps, EventSteps
  <1>15. CASE EndBorrow("end_unmask", "await")
    BY <1>15, <1>1, SMTT(20) DEF EndBorrow, Goto, LoopSteps, HoldSteps, EventSteps
  <1>16. CASE Await
    BY <1>16, <1>1, CurIsTask, SMTT(20)
    DEF Await, Goto, LoopSteps, HoldSteps, EventSteps, None
  <1>16a. CASE EndPoll
    BY <1>16a, <1>1, CurIsTask, SMTT(20)
    DEF EndPoll, Goto, LoopSteps, HoldSteps, EventSteps, None
  <1>17. CASE Borrow("borrow_mask", "mask")
    BY <1>17, <1>1, SMTT(20) DEF Borrow, Goto, LoopSteps, HoldSteps, EventSteps
  <1>18. CASE irq_mask
    BY <1>18, <1>1, CurIsTask, SMTT(20)
    DEF irq_mask, Goto, LoopSteps, HoldSteps, EventSteps
  <1>19. CASE EndBorrow("end_mask", "force")
    BY <1>19, <1>1, SMTT(20) DEF EndBorrow, Goto, LoopSteps, HoldSteps, EventSteps
  <1>20. CASE TakeExternal
    <2>1. thread' \in LoopSteps \cup EventSteps
      BY <1>20, <1>1 DEF TakeExternal, Interrupted, LoopSteps
    <2>2. trap' \in TrapSteps \cup {"panicked", "recursive"}
      BY <1>20 DEF TakeExternal, TrapSteps
    <2> QED  BY <1>20, <2>1, <2>2, <1>1 DEF TakeExternal
  <1>21. CASE TakeSoft
    BY <1>21, <1>1, SMTT(20) DEF TakeSoft, Interrupted, LoopSteps
  <1>22. CASE irq_claim
    <2>1. PICK i \in plic.pending \cap plic.enabled :
             /\ claim' = i
             /\ plic' = [plic EXCEPT !.pending = @ \ {i}, !.claimed = @ \cup {i}]
      BY <1>22, Zenon DEF irq_claim
    <2>2. i \in Irqs  BY <2>1, <1>1
    <2>3. plic' = [pending |-> plic.pending \ {i}, enabled |-> plic.enabled,
                   claimed |-> plic.claimed \cup {i}]
      BY <2>1, <1>1
    <2>4. plic' \in [pending : SUBSET Irqs, enabled : SUBSET Irqs, claimed : SUBSET Irqs]
      BY <2>2, <2>3, <1>1
    <2> QED  BY <1>22, <2>1, <2>2, <2>4, <1>1 DEF irq_claim, TrapSteps
  <1>23. CASE irq_complete
    BY <1>23, <1>1, SMTT(20) DEF irq_complete, TrapSteps
  <1>24. CASE try_read
    <2>1. CASE held["thread"] \in {"none", "read"}
      <3>1. held' = [held EXCEPT !["handler"] = "read"] /\ trap' = "wake_all" /\ once' = "COMPLETE"
        BY <1>24, <2>1 DEF try_read, Lock!Read, Lock!Become
      <3>2. held' \in [{"thread", "handler"} -> Lock!Guards]
        BY <3>1, <1>1 DEF Lock!Guards
      <3> QED  BY <1>24, <3>1, <3>2, <1>1 DEF try_read, TrapSteps
    <2>2. CASE held["thread"] \notin {"none", "read"}
      <3>1. held' = held /\ trap' = "release" /\ once' = "COMPLETE"
        BY <1>24, <2>2 DEF try_read
      <3> QED  BY <1>24, <3>1, <1>1 DEF try_read, TrapSteps
    <2> QED  BY <2>1, <2>2
  <1>25. CASE wake_all
    <2> DEFINE woken == {t \in waits \ notified : irq_num[t] = claim /\ claim \in queues}
    <2>1. PICK q \in Orders({t \in woken : Suspended(t)}) : runq' = runq \o q
      BY <1>25 DEF wake_all
    <2>2. q \in Seq(Tasks)
      <3>1. {t \in woken : Suspended(t)} \subseteq Tasks  BY <1>1
      <3>2. IsFiniteSet({t \in woken : Suspended(t)})
        BY <3>1, TasksAssumption, FS_Subset
      <3>3. q \in Seq({t \in woken : Suspended(t)})  BY <3>2, OrderHasAll
      <3> QED  BY <3>1, <3>3
    <2>3. runq' \in Seq(Tasks)  BY <2>1, <2>2, <1>1
    <2>4. notified' \subseteq waits'  BY <1>25, <1>1 DEF wake_all
    <2>5. held' \in [{"thread", "handler"} -> Lock!Guards]
      BY <1>25, <1>1 DEF wake_all, Lock!Release, Lock!Become, Lock!Guards
    <2> QED  BY <1>25, <2>3, <2>4, <2>5, <1>1 DEF wake_all, TrapSteps
  <1>26. CASE ReleaseController
    BY <1>26, <1>1, SMTT(20) DEF ReleaseController, TrapSteps
  <1>27. CASE wake_one
    BY <1>27, <1>1, SMTT(20) DEF wake_one, None
  <1>28. ASSUME NEW i \in Irqs, Raise(i)  PROVE  PlacesOK'
    <2>1. plic' \in [pending : SUBSET Irqs, enabled : SUBSET Irqs, claimed : SUBSET Irqs]
      BY <1>28, <1>1 DEF Raise
    <2> QED  BY <1>28, <2>1, <1>1 DEF Raise
  <1>29. CASE UNCHANGED vars
    BY <1>29, <1>1, SMTT(20) DEF vars
  <1> QED
    BY <1>2, <1>3, <1>4, <1>5, <1>6, <1>7, <1>8, <1>9, <1>10, <1>11, <1>12, <1>13,
       <1>14, <1>15, <1>16, <1>16a, <1>17, <1>18, <1>19, <1>20, <1>21, <1>22, <1>23, <1>24, <1>25,
       <1>26, <1>27, <1>28, <1>29, Zenon
    DEF Next, ThreadStep, TrapStep

\* Who has turned interrupts off.
LEMMA ControlStep ==
    ASSUME IInv, [Next]_vars
    PROVE  Control'
  <1>1. PlacesOK  BY DEF IInv, TypeOK
  <1>2. FlagsOK  BY DEF IInv, TypeOK
  <1>3. Control  BY DEF IInv
  <1> USE DEF Control
  <1>4. CASE Poll
    BY <1>4, <1>1, <1>3, PollCases, SMTT(20)
    DEF Poll, HoldSteps, EventSteps, PlacesOK
  <1>5. CASE Wait
    BY <1>5, <1>3, SMTT(20) DEF Wait, Goto, HoldSteps, EventSteps
  <1>6. CASE drain
    BY <1>6, <1>3, SMTT(20) DEF drain, Goto, HoldSteps, EventSteps
  <1>7. CASE park
    BY <1>7, <1>3, SMTT(20) DEF park, Goto, HoldSteps, EventSteps
  <1>8. CASE force
    BY <1>8, <1>3, SMTT(20) DEF force, Goto, HoldSteps, EventSteps
  <1>9. CASE InitQueues
    BY <1>9, <1>3, SMTT(20) DEF InitQueues, Goto, HoldSteps, EventSteps
  <1>10. CASE hold_interrupts
    BY <1>10, <1>1, <1>3, <1>2, SMTT(20)
    DEF hold_interrupts, Goto, HoldSteps, EventSteps, PlacesOK, FlagsOK
  <1>11. CASE write
    BY <1>11, <1>1, <1>3, SMTT(20)
    DEF write, Goto, Lock!Write, Lock!Become, HoldSteps, EventSteps, PlacesOK
  <1>12. CASE Entry
    BY <1>12, <1>3, SMTT(20) DEF Entry, Goto, HoldSteps, EventSteps
  <1>13. CASE Unlock
    BY <1>13, <1>1, <1>3, SMTT(20)
    DEF Unlock, Goto, Lock!Release, Lock!Become, HoldSteps, EventSteps, PlacesOK
  <1>14. CASE Restore
    BY <1>14, <1>1, <1>3, ZenonT(20)
    DEF Restore, Goto, release, HoldSteps, EventSteps, PlacesOK
  <1>15. CASE Borrow("borrow_unmask", "unmask")
    BY <1>15, <1>3, SMTT(20) DEF Borrow, Goto, HoldSteps, EventSteps
  <1>16. CASE irq_unmask
    BY <1>16, <1>3, SMTT(20) DEF irq_unmask, Goto, HoldSteps, EventSteps
  <1>17. CASE EndBorrow("end_unmask", "await")
    BY <1>17, <1>3, SMTT(20) DEF EndBorrow, Goto, HoldSteps, EventSteps
  <1>18. CASE Await
    BY <1>18, <1>1, <1>3, CurIsTask, SMTT(20)
    DEF Await, Goto, HoldSteps, EventSteps, PlacesOK
  <1>18a. CASE EndPoll
    BY <1>18a, <1>1, <1>3, CurIsTask, SMTT(20)
    DEF EndPoll, Goto, HoldSteps, EventSteps, PlacesOK
  <1>19. CASE Borrow("borrow_mask", "mask")
    BY <1>19, <1>3, SMTT(20) DEF Borrow, Goto, HoldSteps, EventSteps
  <1>20. CASE irq_mask
    BY <1>20, <1>3, SMTT(20) DEF irq_mask, Goto, HoldSteps, EventSteps
  <1>21. CASE EndBorrow("end_mask", "force")
    BY <1>21, <1>3, SMTT(20) DEF EndBorrow, Goto, HoldSteps, EventSteps
  <1>22. CASE TakeExternal
    <2>1. trap = "idle" /\ plic.enabled # {}
      BY <1>22, <1>3 DEF TakeExternal, External
    <2>2. trap' \in {"panicked", "claim"} /\ sie' = FALSE
      BY <1>22, <2>1 DEF TakeExternal
    <2>3. /\ thread' \notin HoldSteps
          /\ thread' = "init" <=> thread = "init"
          /\ thread' \in {"entry", "unlock"} <=> thread \in {"entry", "unlock"}
          /\ thread' \in EventSteps \ {"force", "init"} => thread \in EventSteps \ {"force", "init"}
      BY <1>22, <1>3 DEF TakeExternal, Interrupted, HoldSteps, EventSteps
    <2>4. UNCHANGED <<plic, held_irq, held, once, resume>>
      BY <1>22 DEF TakeExternal
    <2> QED  BY <2>1, <2>2, <2>3, <2>4, <1>3
  <1>23. CASE TakeSoft
    BY <1>23, <1>3, SMTT(20) DEF TakeSoft, Interrupted, HoldSteps, EventSteps
  <1>24. CASE irq_claim
    BY <1>24, <1>3, SMTT(20) DEF irq_claim, HoldSteps
  <1>25. CASE irq_complete
    BY <1>25, <1>3, SMTT(20) DEF irq_complete, HoldSteps
  <1>26. CASE try_read
    BY <1>26, <1>1, <1>3, <1>2, SMTT(20)
    DEF try_read, Lock!Read, Lock!Become, HoldSteps, PlacesOK, FlagsOK
  <1>27. CASE wake_all
    BY <1>27, <1>1, <1>3, ZenonT(20)
    DEF wake_all, release, Lock!Release, Lock!Become, HoldSteps, PlacesOK
  <1>28. CASE ReleaseController
    BY <1>28, <1>3, SMTT(20) DEF ReleaseController, HoldSteps
  <1>29. CASE wake_one
    BY <1>29, <1>3, SMTT(20) DEF wake_one, HoldSteps
  <1>30. ASSUME NEW i \in Irqs, Raise(i)  PROVE  Control'
    BY <1>30, <1>3, SMTT(20) DEF Raise
  <1>31. CASE UNCHANGED vars
    BY <1>31, <1>3, SMTT(20) DEF vars
  <1> QED
    BY <1>4, <1>5, <1>6, <1>7, <1>8, <1>9, <1>10, <1>11, <1>12, <1>13, <1>14, <1>15,
       <1>16, <1>17, <1>18, <1>18a, <1>19, <1>20, <1>21, <1>22, <1>23, <1>24, <1>25, <1>26, <1>27,
       <1>28, <1>29, <1>30, <1>31, Zenon
    DEF Next, ThreadStep, TrapStep

\* Which tasks wait.
LEMMA WaitingStep ==
    ASSUME IInv, [Next]_vars
    PROVE  Waiting'
  <1>1. PlacesOK  BY DEF IInv, TypeOK
  <1>2. Control  BY DEF IInv
  <1>3. Waiting  BY DEF IInv
  <1> USE DEF Waiting
  <1>4. CASE Poll
    BY <1>4, <1>1, <1>3, TasksAssumption, PollCases, SMTT(20)
    DEF Poll, None, LoopSteps, PlacesOK
  <1>5. CASE Wait
    BY <1>5, <1>1, <1>3, TasksAssumption, SMTT(20)
    DEF Wait, Goto, None, LoopSteps, PlacesOK
  <1>6. CASE drain
    BY <1>6, <1>1, <1>3, TasksAssumption, SMTT(20)
    DEF drain, Goto, None, LoopSteps, PlacesOK
  <1>7. CASE park
    BY <1>7, <1>1, <1>3, TasksAssumption, SMTT(20)
    DEF park, Goto, None, LoopSteps, PlacesOK
  <1>8. CASE force
    BY <1>8, <1>1, <1>3, TasksAssumption, SMTT(20)
    DEF force, Goto, None, LoopSteps, PlacesOK
  <1>9. CASE InitQueues
    BY <1>9, <1>3, TasksAssumption, SMTT(20) DEF InitQueues, Goto, None, LoopSteps
  <1>10. CASE hold_interrupts
    BY <1>10, <1>3, TasksAssumption, SMTT(20)
    DEF hold_interrupts, Goto, None, LoopSteps
  <1>11. CASE write
    BY <1>11, <1>3, TasksAssumption, SMTT(20)
    DEF write, Goto, Lock!Write, Lock!Become, None, LoopSteps
  <1>12. CASE Entry
    BY <1>12, <1>1, <1>3, TasksAssumption, CurIsTask, SMTT(20)
    DEF Entry, Goto, None, LoopSteps, HoldSteps, EventSteps, PlacesOK
  <1>13. CASE Unlock
    BY <1>13, <1>3, TasksAssumption, SMTT(20)
    DEF Unlock, Goto, Lock!Release, Lock!Become, None, LoopSteps
  <1>14. CASE Restore
    BY <1>14, <1>3, TasksAssumption, SMTT(20)
    DEF Restore, Goto, release, None, LoopSteps
  <1>15. CASE Borrow("borrow_unmask", "unmask")
    BY <1>15, <1>3, TasksAssumption, SMTT(20) DEF Borrow, Goto, None, LoopSteps
  <1>16. CASE irq_unmask
    BY <1>16, <1>1, <1>3, TasksAssumption, CurIsTask, SMTT(20)
    DEF irq_unmask, Goto, None, LoopSteps, HoldSteps, EventSteps, PlacesOK
  <1>17. CASE EndBorrow("end_unmask", "await")
    BY <1>17, <1>3, TasksAssumption, SMTT(20) DEF EndBorrow, Goto, None, LoopSteps
  <1>18. CASE Await
    BY <1>18, <1>1, <1>3, TasksAssumption, CurIsTask, SMTT(20)
    DEF Await, Goto, None, LoopSteps, HoldSteps, EventSteps, PlacesOK
  <1>18a. CASE EndPoll
    BY <1>18a, <1>1, <1>3, TasksAssumption, CurIsTask, SMTT(20)
    DEF EndPoll, Goto, None, LoopSteps, HoldSteps, EventSteps, PlacesOK
  <1>19. CASE Borrow("borrow_mask", "mask")
    BY <1>19, <1>3, TasksAssumption, SMTT(20) DEF Borrow, Goto, None, LoopSteps
  <1>20. CASE irq_mask
    BY <1>20, <1>1, <1>3, TasksAssumption, CurIsTask, SMTT(20)
    DEF irq_mask, Goto, None, LoopSteps, HoldSteps, EventSteps, PlacesOK
  <1>21. CASE EndBorrow("end_mask", "force")
    BY <1>21, <1>3, TasksAssumption, SMTT(20) DEF EndBorrow, Goto, None, LoopSteps
  <1>22. CASE TakeExternal
    BY <1>22, <1>1, <1>3, TasksAssumption, <1>2, SMTT(20)
    DEF TakeExternal, Interrupted, None, LoopSteps, PlacesOK, Control, HoldSteps
  <1>23. CASE TakeSoft
    BY <1>23, <1>3, TasksAssumption, <1>2, SMTT(20)
    DEF TakeSoft, Interrupted, None, LoopSteps, Control, HoldSteps
  <1>24. CASE irq_claim
    BY <1>24, <1>1, <1>3, TasksAssumption, SMTT(20) DEF irq_claim, None, PlacesOK
  <1>25. CASE irq_complete
    BY <1>25, <1>1, <1>3, TasksAssumption, SMTT(20) DEF irq_complete, None, PlacesOK
  <1>26. CASE try_read
    BY <1>26, <1>1, <1>3, TasksAssumption, <1>2, SMTT(20)
    DEF try_read, Lock!Read, Lock!Become, None, PlacesOK, Control, HoldSteps
  <1>27. CASE wake_all
    BY <1>27, <1>1, <1>3, TasksAssumption, SMTT(20)
    DEF wake_all, release, Lock!Release, Lock!Become, None, PlacesOK
  <1>28. CASE ReleaseController
    BY <1>28, <1>3, TasksAssumption, SMTT(20) DEF ReleaseController, None
  <1>29. CASE wake_one
    BY <1>29, <1>3, TasksAssumption, SMTT(20) DEF wake_one, None
  <1>30. ASSUME NEW i \in Irqs, Raise(i)  PROVE  Waiting'
    BY <1>30, <1>1, <1>3, TasksAssumption, SMTT(20) DEF Raise, None, PlacesOK
  <1>31. CASE UNCHANGED vars
    BY <1>31, <1>3, TasksAssumption, SMTT(20) DEF vars, None
  <1> QED
    BY <1>4, <1>5, <1>6, <1>7, <1>8, <1>9, <1>10, <1>11, <1>12, <1>13, <1>14, <1>15,
       <1>16, <1>17, <1>18, <1>18a, <1>19, <1>20, <1>21, <1>22, <1>23, <1>24, <1>25, <1>26, <1>27,
       <1>28, <1>29, <1>30, <1>31, Zenon
    DEF Next, ThreadStep, TrapStep

\* A woken task is queued, and the thread will look.
LEMMA AwakeStep ==
    ASSUME IInv, [Next]_vars
    PROVE  Awake'
  <1>1. PlacesOK  BY DEF IInv, TypeOK
  <1>2. Waiting  BY DEF IInv
  <1>3. Awake  BY DEF IInv
  <1> USE DEF Awake
  <1>4. CASE Poll
    <2>1. cur = None  BY <1>4, <1>2 DEF Poll, Waiting, LoopSteps
    <2>2. \A t \in notified' :
             t # cur' => t \in missed' \/ \E k \in DOMAIN runq' : runq'[k] = t
      <3>1. SUFFICES ASSUME NEW t \in notified, t # cur', t \notin missed
                     PROVE  \E k \in DOMAIN runq' : runq'[k] = t
        BY <1>4 DEF Poll
      <3>2. PICK k \in DOMAIN runq : runq[k] = t
        BY <2>1, <3>1, <1>1, <1>3, TasksAssumption DEF PlacesOK, None
      <3>3. CASE runq' = runq  BY <3>2, <3>3
      <3>4. CASE runq # <<>> /\ cur' = Head(runq) /\ runq' = Tail(runq)
        <4>1. k # 1  BY <3>1, <3>2, <3>4
        <4>2. k - 1 \in DOMAIN runq' /\ runq'[k - 1] = t
          BY <3>2, <3>4, <4>1, <1>1 DEF PlacesOK
        <4> QED  BY <4>2
      <3> QED  BY <1>4, <1>1, <3>3, <3>4, PollCases
    <2>3. /\ sleepers' = sleepers /\ unparked' = unparked /\ trap = "idle"
          /\ trap' = trap
      BY <1>4 DEF Poll
    <2>4. CASE sleepers = "waiter" /\ thread' = "drain" /\ runq' = runq
      BY <2>2, <2>3, <2>4, <1>3
    <2>5. CASE sleepers # "waiter" /\ runq = <<>> /\ thread' = "wait" /\ runq' = runq
      BY <2>2, <2>3, <2>5, <1>3
    <2>6. CASE sleepers # "waiter" /\ runq # <<>> /\ Head(runq) \in Tasks
                 /\ thread' = resume[Head(runq)]
      <3>1. thread' \in {"force", "await"}  BY <2>6, <1>1 DEF PlacesOK
      <3> QED  BY <2>2, <2>3, <2>6, <3>1
    <2> QED  BY <1>4, <1>1, <2>4, <2>5, <2>6, PollCases
  <1>5. CASE Wait
    BY <1>5, <1>1, <1>3, SMTT(20) DEF Wait, Goto, PlacesOK
  <1>6. CASE drain
    BY <1>6, <1>1, <1>3, SMTT(20) DEF drain, Goto, PlacesOK
  <1>7. CASE park
    BY <1>7, <1>3, SMTT(20) DEF park, Goto
  <1>8. CASE force
    BY <1>8, <1>3, SMTT(20) DEF force, Goto
  <1>9. CASE InitQueues
    BY <1>9, <1>3, SMTT(20) DEF InitQueues, Goto
  <1>10. CASE hold_interrupts
    BY <1>10, <1>3, SMTT(20) DEF hold_interrupts, Goto
  <1>11. CASE write
    BY <1>11, <1>3, SMTT(20) DEF write, Goto, Lock!Write, Lock!Become
  <1>12. CASE Entry
    BY <1>12, <1>3, SMTT(20) DEF Entry, Goto
  <1>13. CASE Unlock
    BY <1>13, <1>3, SMTT(20) DEF Unlock, Goto, Lock!Release, Lock!Become
  <1>14. CASE Restore
    BY <1>14, <1>3, SMTT(20) DEF Restore, Goto, release
  <1>15. CASE Borrow("borrow_unmask", "unmask")
    BY <1>15, <1>3, SMTT(20) DEF Borrow, Goto
  <1>16. CASE irq_unmask
    BY <1>16, <1>3, SMTT(20) DEF irq_unmask, Goto
  <1>17. CASE EndBorrow("end_unmask", "await")
    BY <1>17, <1>3, SMTT(20) DEF EndBorrow, Goto
  <1>18. CASE Await
    BY <1>18, <1>1, <1>3, <1>2, CurIsTask, SMTT(20)
    DEF Await, Goto, PlacesOK, Waiting, LoopSteps, EventSteps, None
  <1>18a. CASE EndPoll
    BY <1>18a, <1>1, <1>3, <1>2, CurIsTask, SMTT(20)
    DEF EndPoll, Goto, PlacesOK, Waiting, LoopSteps, EventSteps, None
  <1>19. CASE Borrow("borrow_mask", "mask")
    BY <1>19, <1>3, SMTT(20) DEF Borrow, Goto
  <1>20. CASE irq_mask
    BY <1>20, <1>3, SMTT(20) DEF irq_mask, Goto
  <1>21. CASE EndBorrow("end_mask", "force")
    BY <1>21, <1>3, SMTT(20) DEF EndBorrow, Goto
  <1>22. CASE TakeExternal
    BY <1>22, <1>3, SMTT(20) DEF TakeExternal, Interrupted
  <1>23. CASE TakeSoft
    <2>1. /\ UNCHANGED <<notified, missed, cur, runq, sleepers, unparked>>
          /\ trap' = "idle" => trap = "idle"
          /\ thread' = IF thread = "wfi" THEN "drain" ELSE thread
      BY <1>23 DEF TakeSoft, Interrupted
    <2>2. thread = "park" /\ unparked => overslept'
      BY <1>23, Zenon DEF TakeSoft
    <2>3. thread' \in {"park", "wfi"} => thread = "park"
      BY <2>1
    <2>4. thread' \in {"park", "wfi"} /\ unparked' => ssoft' \/ overslept'
      BY <2>1, <2>2, <2>3, Zenon
    <2> QED  BY <2>1, <2>4, <1>3
  <1>24. CASE irq_claim
    BY <1>24, <1>3, SMTT(20) DEF irq_claim
  <1>25. CASE irq_complete
    BY <1>25, <1>3, SMTT(20) DEF irq_complete
  <1>26. CASE try_read
    BY <1>26, <1>3, SMTT(20) DEF try_read, Lock!Read, Lock!Become
  <1>27. CASE wake_all
    <2> DEFINE woken == {t \in waits \ notified : irq_num[t] = claim /\ claim \in queues}
               S == {t \in woken : Suspended(t)}
    <2>1. PICK q \in Orders(S) : runq' = runq \o q
      BY <1>27 DEF wake_all
    <2>2. IsFiniteSet(S)
      <3>1. S \subseteq Tasks  BY <1>1 DEF PlacesOK
      <3> QED  BY <3>1, TasksAssumption, FS_Subset
    <2>3. q \in Seq(S) /\ \A t \in S : \E k \in DOMAIN q : q[k] = t
      <3> HIDE DEF S
      <3> QED  BY <2>1, <2>2, OrderHasAll
    <2>4. \A t \in notified' :
             t # cur' => t \in missed' \/ \E k \in DOMAIN runq' : runq'[k] = t
      <3>1. SUFFICES ASSUME NEW t \in notified \cup woken, t # cur, t \notin missed
                     PROVE  \E k \in DOMAIN runq' : runq'[k] = t
        BY <1>27 DEF wake_all
      <3>2. CASE t \in notified
        <4>1. PICK k \in DOMAIN runq : runq[k] = t  BY <3>1, <3>2, <1>3
        <4>2. k \in DOMAIN runq' /\ runq'[k] = t
          BY <4>1, <2>1, <2>3, <1>1 DEF PlacesOK
        <4> QED  BY <4>2
      <3>3. CASE t \in woken
        <4>1. t \in S  BY <3>1, <3>3 DEF Suspended
        <4>2. PICK k \in DOMAIN q : q[k] = t  BY <2>3, <4>1
        <4>3. Len(runq) + k \in DOMAIN runq' /\ runq'[Len(runq) + k] = t
          BY <4>2, <2>1, <2>3, <1>1 DEF PlacesOK
        <4> QED  BY <4>3
      <3> QED  BY <3>1, <3>2, <3>3
    <2>5. thread' = "end_poll" /\ cur' \in notified' => cur' \in missed'
      BY <1>27, <1>3 DEF wake_all
    <2>6. /\ thread' = thread /\ sleepers' = sleepers /\ trap' = "release"
          /\ UNCHANGED <<unparked, ssoft, overslept>>
      BY <1>27 DEF wake_all
    <2> QED  BY <2>4, <2>5, <2>6, <1>3
  <1>28. CASE ReleaseController
    BY <1>28, <1>3, SMTT(20) DEF ReleaseController
  <1>29. CASE wake_one
    <2>1. /\ notified' = notified /\ cur' = cur /\ runq' = runq /\ thread' = thread
          /\ missed' = missed /\ overslept' = overslept
      BY <1>29 DEF wake_one
    <2>4. unparked' => ssoft' \/ unparked  BY <1>29, Zenon DEF wake_one
    <2>5. ssoft => ssoft'  BY <1>29, Zenon DEF wake_one
    <2>6. thread' \in {"park", "wfi"} /\ unparked' => ssoft' \/ overslept'
      BY <2>1, <2>4, <2>5, <1>3, Zenon
    <2>2. CASE sleepers = "waiter"
      <3>1. sleepers' = "none"  BY <1>29, <2>2 DEF wake_one
      <3>2. unparked'  BY <1>29, <2>2, Zenon DEF wake_one
      <3>3. thread' # "wait"  BY <2>1, <2>2, <1>3
      <3> QED  BY <2>1, <2>6, <3>1, <3>2, <3>3, <1>3
    <2>3. CASE sleepers # "waiter"
      <3>1. sleepers' = "permit"  BY <1>29, <2>3 DEF wake_one
      <3>2. unparked => unparked'  BY <1>29, Zenon DEF wake_one
      <3> QED  BY <2>1, <2>6, <2>3, <3>1, <3>2, <1>3
    <2> QED  BY <2>2, <2>3
  <1>30. ASSUME NEW i \in Irqs, Raise(i)  PROVE  Awake'
    BY <1>30, <1>3, SMTT(20) DEF Raise
  <1>31. CASE UNCHANGED vars
    BY <1>31, <1>3, SMTT(20) DEF vars
  <1> QED
    BY <1>4, <1>5, <1>6, <1>7, <1>8, <1>9, <1>10, <1>11, <1>12, <1>13, <1>14, <1>15,
       <1>16, <1>17, <1>18, <1>18a, <1>19, <1>20, <1>21, <1>22, <1>23, <1>24, <1>25, <1>26, <1>27,
       <1>28, <1>29, <1>30, <1>31, Zenon
    DEF Next, ThreadStep, TrapStep

\* With one task for each interrupt, nobody masks another's.
LEMMA UnmaskedStep ==
    ASSUME IInv, Unmasked, OneTaskPerIrq, [Next]_vars
    PROVE  Unmasked'
  <1>1. PlacesOK  BY DEF IInv, TypeOK
  <1>2. Waiting  BY DEF IInv
  <1>3. Unmasked /\ OneTaskPerIrq  OBVIOUS
  <1> USE DEF Unmasked
  <1>4. CASE Poll
    BY <1>4, <1>1, <1>3, <1>2, TasksAssumption, PollCases, SMTT(20)
    DEF Poll, PlacesOK, Waiting, LoopSteps, None
  <1>5. CASE Wait
    BY <1>5, <1>1, <1>3, <1>2, SMTT(20) DEF Wait, Goto, PlacesOK, Waiting
  <1>6. CASE drain
    BY <1>6, <1>1, <1>3, <1>2, SMTT(20) DEF drain, Goto, PlacesOK, Waiting
  <1>7. CASE park
    BY <1>7, <1>1, <1>3, <1>2, SMTT(20) DEF park, Goto, PlacesOK, Waiting
  <1>8. CASE force
    BY <1>8, <1>1, <1>3, <1>2, SMTT(20) DEF force, Goto, PlacesOK, Waiting
  <1>9. CASE InitQueues
    BY <1>9, <1>1, <1>3, <1>2, SMTT(20) DEF InitQueues, Goto, PlacesOK, Waiting
  <1>10. CASE hold_interrupts
    BY <1>10, <1>1, <1>3, <1>2, SMTT(20)
    DEF hold_interrupts, Goto, PlacesOK, Waiting
  <1>11. CASE write
    BY <1>11, <1>1, <1>3, <1>2, SMTT(20)
    DEF write, Goto, Lock!Write, Lock!Become, PlacesOK, Waiting
  <1>12. CASE Entry
    BY <1>12, <1>1, <1>3, <1>2, CurIsTask, SMTT(20)
    DEF Entry, Goto, PlacesOK, Waiting, HoldSteps, EventSteps
  <1>13. CASE Unlock
    BY <1>13, <1>1, <1>3, <1>2, SMTT(20)
    DEF Unlock, Goto, Lock!Release, Lock!Become, PlacesOK, Waiting
  <1>14. CASE Restore
    BY <1>14, <1>1, <1>3, <1>2, SMTT(20)
    DEF Restore, Goto, release, PlacesOK, Waiting
  <1>15. CASE Borrow("borrow_unmask", "unmask")
    BY <1>15, <1>1, <1>3, <1>2, SMTT(20) DEF Borrow, Goto, PlacesOK, Waiting
  <1>16. CASE irq_unmask
    BY <1>16, <1>1, <1>3, <1>2, CurIsTask, SMTT(20)
    DEF irq_unmask, Goto, PlacesOK, Waiting, HoldSteps, EventSteps
  <1>17. CASE EndBorrow("end_unmask", "await")
    BY <1>17, <1>1, <1>3, <1>2, SMTT(20) DEF EndBorrow, Goto, PlacesOK, Waiting
  <1>18. CASE Await
    BY <1>18, <1>1, <1>3, <1>2, CurIsTask, TasksAssumption, SMTT(20)
    DEF Await, Goto, PlacesOK, Waiting, HoldSteps, EventSteps, LoopSteps, None
  <1>18a. CASE EndPoll
    BY <1>18a, <1>1, <1>3, <1>2, CurIsTask, TasksAssumption, SMTT(20)
    DEF EndPoll, Goto, PlacesOK, Waiting, HoldSteps, EventSteps, LoopSteps, None
  <1>19. CASE Borrow("borrow_mask", "mask")
    BY <1>19, <1>1, <1>3, <1>2, SMTT(20) DEF Borrow, Goto, PlacesOK, Waiting
  <1>20. CASE irq_mask
    BY <1>20, <1>1, <1>3, <1>2, CurIsTask, SMTT(20)
    DEF irq_mask, Goto, PlacesOK, Waiting, HoldSteps, EventSteps, OneTaskPerIrq
  <1>21. CASE EndBorrow("end_mask", "force")
    BY <1>21, <1>1, <1>3, <1>2, SMTT(20) DEF EndBorrow, Goto, PlacesOK, Waiting
  <1>22. CASE TakeExternal
    BY <1>22, <1>1, <1>3, <1>2, SMTT(20)
    DEF TakeExternal, Interrupted, PlacesOK, Waiting
  <1>23. CASE TakeSoft
    BY <1>23, <1>1, <1>3, <1>2, SMTT(20)
    DEF TakeSoft, Interrupted, PlacesOK, Waiting
  <1>24. CASE irq_claim
    BY <1>24, <1>1, <1>3, <1>2, SMTT(20) DEF irq_claim, PlacesOK, Waiting
  <1>25. CASE irq_complete
    BY <1>25, <1>1, <1>3, <1>2, SMTT(20) DEF irq_complete, PlacesOK, Waiting
  <1>26. CASE try_read
    BY <1>26, <1>1, <1>3, <1>2, SMTT(20)
    DEF try_read, Lock!Read, Lock!Become, PlacesOK, Waiting
  <1>27. CASE wake_all
    BY <1>27, <1>1, <1>3, <1>2, SMTT(20)
    DEF wake_all, release, Lock!Release, Lock!Become, PlacesOK, Waiting
  <1>28. CASE ReleaseController
    BY <1>28, <1>1, <1>3, <1>2, SMTT(20) DEF ReleaseController, PlacesOK, Waiting
  <1>29. CASE wake_one
    BY <1>29, <1>1, <1>3, <1>2, SMTT(20) DEF wake_one, PlacesOK, Waiting
  <1>30. ASSUME NEW i \in Irqs, Raise(i)  PROVE  Unmasked'
    BY <1>30, <1>1, <1>3, <1>2, SMTT(20) DEF Raise, PlacesOK, Waiting
  <1>31. CASE UNCHANGED vars
    BY <1>31, <1>1, <1>3, <1>2, SMTT(20) DEF vars, PlacesOK, Waiting
  <1> QED
    BY <1>4, <1>5, <1>6, <1>7, <1>8, <1>9, <1>10, <1>11, <1>12, <1>13, <1>14, <1>15,
       <1>16, <1>17, <1>18, <1>18a, <1>19, <1>20, <1>21, <1>22, <1>23, <1>24, <1>25, <1>26, <1>27,
       <1>28, <1>29, <1>30, <1>31, Zenon
    DEF Next, ThreadStep, TrapStep

-----------------------------------------------------------------------------
LEMMA InitIInv == Init => IInv /\ Unmasked
  <1> SUFFICES ASSUME Init  PROVE  IInv /\ Unmasked
    OBVIOUS
  <1>1. runq \in Seq(Tasks)
    BY TasksAssumption, OrderHasAll DEF Init
  <1>2. held = [c \in {"thread", "handler"} |-> "none"]
    BY DEF Init, Lock!Init
  <1>3. TypeOK
    BY <1>1, <1>2 DEF Init, TypeOK, FlagsOK, PlacesOK, LoopSteps, None, Lock!Guards
  <1>4. Control
    BY <1>2 DEF Init, Control, HoldSteps, EventSteps
  <1>5. Waiting
    BY TasksAssumption DEF Init, Waiting, LoopSteps, None
  <1>6. Awake
    BY DEF Init, Awake
  <1> QED  BY <1>3, <1>4, <1>5, <1>6 DEF Init, IInv, Unmasked

LEMMA NextIInv == IInv /\ [Next]_vars => IInv'
  BY FlagsStep, PlacesStep, ControlStep, WaitingStep, AwakeStep DEF IInv, TypeOK

\* Every reachable state satisfies the inductive invariant.
THEOREM Invariance == Spec => []IInv
  <1>1. Init => IInv  BY InitIInv
  <1> QED  BY <1>1, NextIInv, PTL DEF Spec

\* The handler finds QUEUES initialised and unlocked (trigger_irq, LazyLock,
\* IrqRwLock), however many tasks and interrupts there are.
THEOREM QueuesFree == Spec => []HandlerFindsQueuesFree
  <1>1. IInv => HandlerFindsQueuesFree
    BY DEF IInv, Control, HandlerFindsQueuesFree, HoldSteps
  <1> QED  BY <1>1, Invariance, PTL

\* The trap handler is never entered from within itself, and interrupts are on
\* again whenever nobody holds them (critical_section::release, IN_TRAP).
THEOREM NeverNested == Spec => []TrapNotNested
  <1>1. IInv => TrapNotNested
    BY DEF IInv, Control, TrapNotNested, HoldSteps
  <1> QED  BY <1>1, Invariance, PTL

\* A wake-up of a task is lost only while that task's poll ends, and one of the
\* worker only between drain and wfi (trigger_irq, State::wake_by_val, wake_one,
\* Notify and block_on).
THEOREM WakeUpsKept == Spec => []WakeRemembered
  <1>1. IInv => WakeRemembered
    <2> SUFFICES ASSUME IInv  PROVE  WakeRemembered
      OBVIOUS
    <2>1. runq # <<>> /\ trap = "idle" =>
             CASE thread = "wait"            -> sleepers = "permit"
               [] thread = "drain"           -> unparked /\ sleepers # "waiter"
               [] thread \in {"park", "wfi"} -> /\ unparked /\ sleepers # "waiter"
                                                /\ ssoft \/ overslept
               [] OTHER                      -> sleepers # "waiter" \/ unparked
      BY DEF IInv, Awake
    <2> QED  BY <2>1 DEF IInv, Waiting, Awake, WakeRemembered
  <1> QED  BY <1>1, Invariance, PTL

\* If no two tasks wait for the same interrupt, a suspended task is always
\* reachable by its next event (next_event, irq_mask, irq_unmask).
THEOREM Reachable ==
    ASSUME OneTaskPerIrq
    PROVE  Spec => []WaiterReachable
  <1>1. Init => IInv /\ Unmasked  BY InitIInv
  <1>2. (IInv /\ Unmasked) /\ [Next]_vars => (IInv /\ Unmasked)'
    BY NextIInv, UnmaskedStep
  <1>3. IInv /\ Unmasked => WaiterReachable
    BY DEF IInv, Waiting, Unmasked, WaiterReachable, Suspended, TypeOK, PlacesOK
  <1> QED  BY <1>1, <1>2, <1>3, PTL DEF Spec

=============================================================================
