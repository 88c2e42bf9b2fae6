-------------------------------- MODULE Irq --------------------------------
(***************************************************************************)
(* Device interrupts on the hart that runs the kernel, from the device to  *)
(* the task that waits for it: the PLIC, the trap handler                  *)
(* (arch/riscv64/trap_handler.rs), trigger_irq and next_event with the     *)
(* QUEUES they share (irq.rs: a LazyLock around an IrqRwLock), and the     *)
(* thread that polls the executor and parks in between (block_on.rs).      *)
(* There is one hart: "single-CPU at handoff is the current contract"      *)
(* (main.rs).                                                              *)
(*                                                                         *)
(* Between any two steps of the thread an interrupt may be taken, as long  *)
(* as SIE is set.  The handler runs to its end with SIE clear, so that     *)
(* only a device can act in between.  The IrqRwLock's word is the subject  *)
(* of module RwLock; here the lock is what RwLockSpec says of it.          *)
(***************************************************************************)
EXTENDS Integers, Sequences, FiniteSets

CONSTANTS
    Tasks,
    Irqs,
    irq_num,    \* the interrupt that each task waits for with next_event
    MaxEvents   \* how often the devices raise an interrupt

ASSUME IrqAssumption ==
    /\ irq_num \in [Tasks -> Irqs]
    /\ MaxEvents \in Nat

ASSUME TasksAssumption == IsFiniteSet(Tasks) /\ "none" \notin Tasks

VARIABLES
    sie,        \* sstatus.SIE: interrupts are taken
    ssoft,      \* sip.SSIP: an IPI is pending
    plic,       \* pending, enabled and claimed interrupts
    events,     \* interrupts raised so far
    thread,     \* what the thread does next ...
    cur,        \* ... for which task
    resume,     \* where each task goes on when it is polled
    held_irq,   \* the RestoreState in the IrqRwLock guard of either
    once,       \* the Once of the LazyLock
    held,       \* the guards of the IrqRwLock
    queues,     \* the interrupts that have an entry in QUEUES
    waits,      \* the tasks whose Wait exists
    notified,   \* ... and that saw a wake_all since they were created
    missed,     \* tasks that were woken before the poll that registered their
                \* waker had ended
    borrowed,   \* the RefCell around the PLIC
    runq,       \* the run queue of the scheduler
    sleepers,   \* Executor::sleepers: "none", "permit" or "waiter"
    unparked,   \* Notify::unparked
    overslept,  \* the IPI of a wake-up was taken between drain() and park()
    trap,       \* what the trap handler does next
    claim       \* the interrupt it claimed

hart     == <<sie, ssoft, held_irq>>
device   == <<plic, events>>
task     == <<cur, resume>>
lock     == <<once, held>>
entries  == <<queues, waits, notified, missed>>
executor == <<runq, sleepers, unparked, overslept>>
handler  == <<trap, claim>>

vars == <<hart, device, thread, task, lock, entries, borrowed, executor, handler>>

None == "none"

\* The orders in which the tasks of a set may be queued.
Orders(S) ==
    {q \in [1 .. Cardinality(S) -> S] :
        \A i, j \in 1 .. Cardinality(S) : i # j => q[i] # q[j]}

Lock == INSTANCE RwLockSpec WITH Clients <- {"thread", "handler"}

Init ==
    /\ sie = TRUE
    /\ ssoft = FALSE
    /\ plic = [pending |-> {}, enabled |-> {}, claimed |-> {}]
    /\ events = 0
    /\ thread = "poll"
    /\ cur = None
    /\ resume = [t \in Tasks |-> "force"]
    /\ held_irq = [c \in {"thread", "handler"} |-> FALSE]
    /\ once = "INCOMPLETE"
    /\ Lock!Init
    /\ queues = {}
    /\ waits = {}
    /\ notified = {}
    /\ missed = {}
    /\ borrowed = FALSE
    /\ runq \in Orders(Tasks)
    /\ sleepers = "none"
    /\ unparked = FALSE
    /\ overslept = FALSE
    /\ trap = "idle"
    /\ claim = None

-----------------------------------------------------------------------------
(* Hardware. *)

\* A device raises its interrupt; the PLIC's gateway holds it back while the
\* last one of this source is claimed and not completed.
Raise(i) ==
    /\ events < MaxEvents
    /\ i \notin plic.pending \cup plic.claimed
    /\ plic' = [plic EXCEPT !.pending = @ \cup {i}]
    /\ events' = events + 1
    /\ UNCHANGED <<hart, thread, task, lock, entries, borrowed, executor,
                   handler>>

External == plic.pending \cap plic.enabled # {}

\* Mutant: interrupts are on after every critical section.
release_always(c) == TRUE

\* critical_section::release: interrupts are enabled only if they were before.
release(c) == held_irq[c] \/ sie

\* Mutant: the handler returns to the wfi.
InterruptedStays == thread

\* Taking an interrupt ends a wfi.
Interrupted == IF thread = "wfi" THEN "drain" ELSE thread

-----------------------------------------------------------------------------
(* block_on and the worker's main loop. *)

Goto(from, to) ==
    /\ thread = from
    /\ trap = "idle"
    /\ thread' = to

\* The worker is polled.  While its wait() is pending that is all it does; it
\* takes tasks from its queue first, and waits when there are none.
Poll ==
    /\ thread = "poll"
    /\ trap = "idle"
    /\ CASE sleepers = "waiter" ->
              /\ thread' = "drain"
              /\ UNCHANGED <<cur, runq>>
         [] sleepers # "waiter" /\ runq = <<>> ->
              /\ thread' = "wait"
              /\ UNCHANGED <<cur, runq>>
         [] OTHER ->
              /\ thread' = resume[Head(runq)]
              /\ cur' = Head(runq)
              /\ runq' = Tail(runq)
    /\ UNCHANGED <<hart, device, resume, lock, entries, borrowed, sleepers,
                   unparked, overslept, handler>>

\* sleepers.wait(): a wake-up that came before is consumed.
Wait ==
    /\ Goto("wait", IF sleepers = "permit" THEN "poll" ELSE "drain")
    /\ sleepers' = IF sleepers = "permit" THEN "none" ELSE "waiter"
    /\ UNCHANGED <<hart, device, task, lock, entries, borrowed, runq,
                   unparked, overslept, handler>>

\* Mutant: the pending wake-up is read but not taken into account.
drain_ignored ==
    /\ Goto("drain", "park")
    /\ unparked' = FALSE
    /\ overslept' = FALSE
    /\ UNCHANGED <<hart, device, task, lock, entries, borrowed, runq,
                   sleepers, handler>>

drain ==
    /\ Goto("drain", IF unparked THEN "poll" ELSE "park")
    /\ unparked' = FALSE
    /\ overslept' = FALSE
    /\ UNCHANGED <<hart, device, task, lock, entries, borrowed, runq,
                   sleepers, handler>>

\* RiscvPark::park: wfi waits until an interrupt is pending.
park ==
    /\ Goto("park", "wfi")
    /\ UNCHANGED <<hart, device, task, lock, entries, borrowed, executor,
                   handler>>

-----------------------------------------------------------------------------
(* next_event, called in a loop by each task. *)

\* LazyLock::force of QUEUES: Once::call_once ...
force ==
    /\ Goto("force", IF once = "COMPLETE" THEN "hold" ELSE "init")
    /\ once' = IF once = "COMPLETE" THEN once ELSE "RUNNING"
    /\ UNCHANGED <<hart, device, task, held, entries, borrowed, executor,
                   handler>>

\* ... runs the closure with interrupts on and publishes the value.
InitQueues ==
    /\ Goto("init", "hold")
    /\ once' = "COMPLETE"
    /\ UNCHANGED <<hart, device, task, held, entries, borrowed, executor,
                   handler>>

\* Mutant: the lock is taken with interrupts on.
hold_interrupts_late ==
    /\ Goto("hold", "write")
    /\ held_irq' = [held_irq EXCEPT !["thread"] = sie]
    /\ UNCHANGED <<sie, ssoft, device, task, lock, entries, borrowed, executor,
                   handler>>

\* IrqRwLock::write: hold_interrupts, then the lock.
hold_interrupts ==
    /\ Goto("hold", "write")
    /\ held_irq' = [held_irq EXCEPT !["thread"] = sie]
    /\ sie' = FALSE
    /\ UNCHANGED <<ssoft, device, task, lock, entries, borrowed, executor,
                   handler>>

write ==
    /\ Goto("write", "entry")
    /\ Lock!Write("thread")
    /\ UNCHANGED <<hart, device, task, once, entries, borrowed, executor,
                   handler>>

\* entry(..).or_insert_with(..).wait_owned().
Entry ==
    /\ Goto("entry", "unlock")
    /\ queues' = queues \cup {irq_num[cur]}
    /\ waits' = waits \cup {cur}
    /\ UNCHANGED <<hart, device, task, lock, notified, missed, borrowed,
                   executor, handler>>

\* drop(queues): the inner guard first ...
Unlock ==
    /\ Goto("unlock", "restore")
    /\ Lock!Release("thread")
    /\ UNCHANGED <<hart, device, task, once, entries, borrowed, executor,
                   handler>>

\* ... then HeldInterrupts: SIE is set again only if it was set.
Restore ==
    /\ Goto("restore", "borrow_unmask")
    /\ sie' = release("thread")
    /\ UNCHANGED <<ssoft, held_irq, device, task, lock, entries, borrowed,
                   executor, handler>>

\* interrupt_controller() borrows the PLIC until the end of the statement.
Borrow(from, op) ==
    /\ Goto(from, op)
    /\ borrowed' = TRUE
    /\ UNCHANGED <<hart, device, task, lock, entries, executor, handler>>

irq_unmask ==
    /\ Goto("unmask", "end_unmask")
    /\ plic' = [plic EXCEPT !.enabled = @ \cup {irq_num[cur]}]
    /\ UNCHANGED <<hart, events, task, lock, entries, borrowed, executor,
                   handler>>

\* Mutant: the enable register is overwritten instead of one bit being cleared.
irq_mask_all ==
    /\ Goto("mask", "end_mask")
    /\ plic' = [plic EXCEPT !.enabled = {}]
    /\ UNCHANGED <<hart, events, task, lock, entries, borrowed, executor,
                   handler>>

irq_mask ==
    /\ Goto("mask", "end_mask")
    /\ plic' = [plic EXCEPT !.enabled = @ \ {irq_num[cur]}]
    /\ UNCHANGED <<hart, events, task, lock, entries, borrowed, executor,
                   handler>>

EndBorrow(from, next) ==
    /\ Goto(from, next)
    /\ borrowed' = FALSE
    /\ UNCHANGED <<hart, device, task, lock, entries, executor, handler>>

\* wait.await: done if a wake_all came since the Wait was made; if not the
\* task's waker is registered with the queue and the poll returns Pending ...
Await ==
    /\ Goto("await", IF cur \in notified THEN "borrow_mask" ELSE "end_poll")
    /\ waits' = IF cur \in notified THEN waits \ {cur} ELSE waits
    /\ notified' = notified \ {cur}
    /\ UNCHANGED <<hart, device, task, lock, queues, missed, borrowed, executor,
                   handler>>

\* ... and State::end_poll makes the task idle: it is not queued again, since a
\* wake-up by value leaves no mark on a task that is POLLING.
EndPoll ==
    /\ Goto("end_poll", "poll")
    /\ resume' = [resume EXCEPT ![cur] = "await"]
    /\ cur' = None
    /\ UNCHANGED <<hart, device, lock, entries, borrowed, executor, handler>>

ThreadStep ==
    \/ Poll
    \/ Wait
    \/ drain
    \/ park
    \/ force
    \/ InitQueues
    \/ hold_interrupts
    \/ write
    \/ Entry
    \/ Unlock
    \/ Restore
    \/ Borrow("borrow_unmask", "unmask")
    \/ irq_unmask
    \/ EndBorrow("end_unmask", "await")
    \/ Await
    \/ EndPoll
    \/ Borrow("borrow_mask", "mask")
    \/ irq_mask
    \/ EndBorrow("end_mask", "force")

-----------------------------------------------------------------------------
(* The trap handler. *)

Stopped == trap \in {"panicked", "recursive"}

\* An external interrupt: IN_TRAP must not be set, and the PLIC is borrowed for
\* the call of trigger_irq.
TakeExternal ==
    /\ sie
    /\ External
    /\ ~Stopped
    /\ trap' = CASE trap # "idle"           -> "recursive"
                 [] trap = "idle" /\ borrowed -> "panicked"
                 [] OTHER                    -> "claim"
    /\ sie' = FALSE
    /\ borrowed' = TRUE
    /\ thread' = Interrupted
    /\ UNCHANGED <<ssoft, held_irq, device, task, lock, entries, executor, claim>>

\* A software interrupt: the handler clears it and returns.
TakeSoft ==
    /\ sie
    /\ ssoft
    /\ ~External
    /\ ~Stopped
    /\ trap' = IF trap = "idle" THEN "idle" ELSE "recursive"
    /\ ssoft' = FALSE
    /\ thread' = Interrupted
    /\ overslept' = (overslept \/ (thread = "park" /\ unparked))
    /\ UNCHANGED <<sie, held_irq, device, task, lock, entries, borrowed, runq,
                   sleepers, unparked, claim>>

\* trigger_irq: claim one of the pending interrupts ...
irq_claim ==
    /\ trap = "claim"
    /\ \E i \in plic.pending \cap plic.enabled :
          /\ claim' = i
          /\ plic' = [plic EXCEPT !.pending = @ \ {i}, !.claimed = @ \cup {i}]
    /\ trap' = "complete"
    /\ UNCHANGED <<hart, events, thread, task, lock, entries, borrowed, executor>>

\* ... and complete it; the PLIC ignores that for a source that is not enabled.
irq_complete ==
    /\ trap = "complete"
    /\ plic' = [plic EXCEPT !.claimed = IF claim \in plic.enabled THEN @ \ {claim} ELSE @]
    /\ trap' = "try_read"
    /\ UNCHANGED <<hart, events, thread, task, lock, entries, borrowed, executor,
                   claim>>

\* QUEUES.try_read(): the LazyLock waits while its value is being made.
try_read ==
    /\ trap = "try_read"
    /\ once # "RUNNING"
    /\ once' = "COMPLETE"
    /\ held_irq' = [held_irq EXCEPT !["handler"] = sie]
    /\ IF held["thread"] \in {"none", "read"}
       THEN Lock!Read("handler") /\ sie' = FALSE /\ trap' = "wake_all"
       ELSE UNCHANGED <<held, sie>> /\ trap' = "release"
    /\ UNCHANGED <<ssoft, device, thread, task, entries, borrowed, executor, claim>>

Suspended(t) == t \in waits /\ t # cur

\* wake_all on the queue of this interrupt: every Wait is done, and its waker,
\* if one is registered, is called by value: that schedules a task that is
\* suspended, and does nothing for the one whose poll was interrupted
\* (State::wake_by_val).  Then the guard is dropped.
wake_all ==
    /\ trap = "wake_all"
    /\ LET woken == {t \in waits \ notified : irq_num[t] = claim /\ claim \in queues}
       IN  /\ notified' = notified \cup woken
           /\ \E q \in Orders({t \in woken : Suspended(t)}) : runq' = runq \o q
           /\ missed' = missed \cup {t \in woken : t = cur /\ thread = "end_poll"}
    /\ Lock!Release("handler")
    /\ sie' = release("handler")
    /\ trap' = "release"
    /\ UNCHANGED <<ssoft, held_irq, device, thread, task, once, queues, waits,
                   borrowed, sleepers, unparked, overslept, claim>>

\* The end of the statement that borrowed the PLIC.
ReleaseController ==
    /\ trap = "release"
    /\ borrowed' = FALSE
    /\ trap' = "wake_one"
    /\ UNCHANGED <<hart, device, thread, task, lock, entries, executor, claim>>

\* Executor::wake_one: a sleeping worker is woken through Notify::wake, which
\* sends an IPI for the first wake-up since the last drain; without a sleeper
\* the wake-up is kept for the next wait().  Then the handler returns.
wake_one ==
    /\ trap = "wake_one"
    /\ sleepers' = IF sleepers = "waiter" THEN "none" ELSE "permit"
    /\ unparked' = (unparked \/ sleepers = "waiter")
    /\ ssoft' = (ssoft \/ (sleepers = "waiter" /\ ~unparked))
    /\ sie' = TRUE
    /\ trap' = "idle"
    /\ claim' = None
    /\ UNCHANGED <<held_irq, device, thread, task, lock, entries, borrowed, runq,
                   overslept>>

TrapStep ==
    \/ TakeExternal
    \/ TakeSoft
    \/ irq_claim
    \/ irq_complete
    \/ try_read
    \/ wake_all
    \/ ReleaseController
    \/ wake_one

Next == ThreadStep \/ TrapStep \/ \E i \in Irqs : Raise(i)

\* The hart runs its thread, and an interrupt that is pending is taken.
Spec == Init /\ [][Next]_vars /\ WF_vars(ThreadStep) /\ WF_vars(TrapStep)
-----------------------------------------------------------------------------
\* What the thread does outside the tasks, inside next_event, and with
\* interrupts off; the steps of the handler.
LoopSteps   == {"poll", "wait", "drain", "park", "wfi"}
HoldSteps   == {"write", "entry", "unlock", "restore"}
EventSteps  == HoldSteps \cup {"force", "init", "hold", "borrow_unmask", "unmask",
                               "end_unmask", "await", "end_poll", "borrow_mask", "mask",
                               "end_mask"}
TrapSteps   == {"claim", "complete", "try_read", "wake_all", "release", "wake_one"}

FlagsOK ==
    /\ sie \in BOOLEAN
    /\ ssoft \in BOOLEAN
    /\ borrowed \in BOOLEAN
    /\ unparked \in BOOLEAN
    /\ overslept \in BOOLEAN
    /\ held_irq \in [{"thread", "handler"} -> BOOLEAN]

PlacesOK ==
    /\ thread \in LoopSteps \cup EventSteps
    /\ trap \in TrapSteps \cup {"idle", "panicked", "recursive"}
    /\ plic \in [pending : SUBSET Irqs, enabled : SUBSET Irqs, claimed : SUBSET Irqs]
    /\ cur \in Tasks \cup {None}
    /\ resume \in [Tasks -> {"force", "await"}]
    /\ once \in {"INCOMPLETE", "RUNNING", "COMPLETE"}
    /\ held \in [{"thread", "handler"} -> Lock!Guards]
    /\ queues \subseteq Irqs
    /\ waits \subseteq Tasks
    /\ notified \subseteq waits
    /\ missed \subseteq Tasks
    /\ runq \in Seq(Tasks)
    /\ sleepers \in {"none", "permit", "waiter"}
    /\ claim \in Irqs \cup {None}

TypeOK == FlagsOK /\ PlacesOK

\* trigger_irq never waits for what it interrupted and never drops an event:
\* by the time an interrupt can be taken the LazyLock has its value, and the
\* IrqRwLock is not held by the thread under the handler.
HandlerFindsQueuesFree ==
    trap = "try_read" => once = "COMPLETE" /\ held["thread"] = "none"

\* default_trap_handler is never entered while it runs: the critical section in
\* QUEUES.try_read() does not turn interrupts on inside the handler, and the one
\* of next_event leaves them as they were (IN_TRAP, handle_recursive_fault).
TrapNotNested ==
    /\ trap # "recursive"
    /\ trap = "idle" /\ held["thread"] = "none" /\ thread \notin {"write", "restore"} => sie

\* What an interrupt is for is forgotten in two places only.  It ends every Wait
\* made before it, also one that has not been polled yet; the task is then in
\* the run queue, unless the interrupt fell between the registration of the
\* waker and the end of that poll (missed).  While there is a task in the run
\* queue the thread has yet to look at the queue, or it will find a permit in
\* sleepers.wait(), or drain() will tell it to poll again; and if it is past
\* drain() the IPI that ends its wfi is still to come, unless that was taken just
\* before the wfi (overslept).
WakeRemembered ==
    /\ trap \in {"release", "wake_one"} =>
         \A t \in waits : irq_num[t] = claim => t \in notified
    /\ \A t \in notified :
         t # cur => t \in missed \/ \E k \in DOMAIN runq : runq[k] = t
    /\ runq # <<>> /\ trap = "idle" =>
         CASE thread = "wait"            -> sleepers = "permit"
           [] thread = "drain"           -> unparked /\ sleepers # "waiter"
           [] thread \in {"park", "wfi"} -> /\ unparked /\ sleepers # "waiter"
                                            /\ ssoft \/ overslept
           [] OTHER                      -> sleepers # "waiter" \/ unparked

\* While a task is suspended in next_event and nothing happened yet, its
\* interrupt is unmasked and its queue is in QUEUES, so that the next event of
\* the device reaches it; and an interrupt is unmasked only for such a task or
\* for one that is inside next_event.
WaiterReachable ==
    /\ \A t \in waits \ notified :
          Suspended(t) => irq_num[t] \in plic.enabled /\ irq_num[t] \in queues
    /\ \A i \in plic.enabled :
          \E t \in Tasks : irq_num[t] = i /\ (t \in waits \/ t = cur)
    /\ trap = "idle" => plic.claimed = {}

\* A parked hart that takes an interrupt while a task is queued gets to poll
\* that task (the loop of block_on and Worker::main_loop).
InterruptServes ==
    \A t \in Tasks :
        (thread = "wfi" /\ trap = "idle" /\ (ssoft \/ External)
            /\ \E k \in DOMAIN runq : runq[k] = t)
        ~> (cur = t \/ trap = "panicked")

\* An unpark that precedes a park makes that park return: the hart never sleeps
\* in wfi with Notify::unparked set and no interrupt pending.
ParkToken ==
    thread = "wfi" /\ trap = "idle" /\ unparked => ssoft \/ External

\* A task whose Wait is done will be polled: it is the running task or it is
\* queued, also if the wake-up raced with the first poll (next_event).
FirstPollDelivers ==
    \A t \in notified : t = cur \/ \E k \in DOMAIN runq : runq[k] = t

\* An interrupt that is taken after next_event unmasked it reaches trigger_irq:
\* the handler never finds the interrupt controller borrowed.
InterruptReachesTrigger == trap # "panicked"
=============================================================================
