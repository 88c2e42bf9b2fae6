-------------------------------- MODULE Timer --------------------------------
(***************************************************************************)
(* The hierarchical timer wheel behind sleep() (sys/async/src/time:        *)
(* timer.rs, timer/wheel.rs, timer/entry.rs, sleep.rs) and the timer       *)
(* interrupt that turns it (sys/kernel/src/arch/riscv64/trap_handler.rs).  *)
(*                                                                         *)
(* On each CPU a thread creates, polls and drops Sleep futures, and a trap *)
(* handler may interrupt it at any step, also while it holds the lock of   *)
(* the wheel: the lock does not mask interrupts.  What happens under the   *)
(* lock is split only where somebody without the lock can look: the flag   *)
(* is_registered and the WaitCell of each entry, and the alarm of the CPU. *)
(*                                                                         *)
(* Time is counted in ticks of the timer.  The hardware clock counts       *)
(* tick_ratio times as fast, now() rounds down and schedule_wakeup         *)
(* multiplies, so an alarm set for tick t goes off once now() >= t.        *)
(***************************************************************************)
EXTENDS Integers, FiniteSets, FiniteSetsExt

CONSTANTS
  Cpus,
  Sleeps,      \* the Sleep futures that may be created
  Bits,        \* Wheel::BITS, also the number of wheels (6, and 2 under loom)
  Durations,   \* the arguments of sleep(), in ticks
  Starts,      \* what the hardware clock may show when the Timer is created
  MaxTicks     \* bound: how many ticks are observed

SLOTS == 2 ^ Bits
Levels == 0 .. Bits - 1
Slots == 0 .. SLOTS - 1
NoCpu == "free"

ASSUME TimerBounds ==
  /\ Bits \in Nat \ {0} /\ Starts \subseteq Nat /\ Durations \subseteq Nat
  /\ MaxTicks \in Nat
  /\ NoCpu \notin Cpus /\ "none" \notin Sleeps

\* The laws of exponents as far as the wheels need them: arithmetic that the provers
\* have no rules for.
ASSUME PowerLaws ==
  /\ SLOTS \in Nat \ {0} /\ SLOTS ^ 0 = 1 /\ SLOTS ^ 1 = SLOTS
  /\ \A i \in 0 .. Bits : SLOTS ^ i \in Nat \ {0}
  /\ \A i, j \in 0 .. Bits : SLOTS ^ (i + j) = SLOTS ^ i * SLOTS ^ j

VARIABLES
  start,       \* the hardware clock at boot, in ticks
  clock,       \* the hardware clock now, in ticks
  now,         \* Core::now
  slots,       \* Wheel::slots: the entries linked into each slot of each wheel
  occupied,    \* Wheel::occupied_slots
  lock,        \* who holds the Mutex around Core
  alarm,       \* per CPU: what its clock was told, {} for "never"
  fut,         \* per sleep: Sleep::state, or that it is not there
  deadline,    \* per sleep: Entry::deadline
  registered,  \* per sleep: Entry::is_registered
  waker,       \* per sleep: Entry::waker
  pc,          \* per CPU: the thread
  handler,     \* per CPU: the trap handler
  turn,        \* the locals of turn_locked and Core::poll
  returned,    \* per CPU: the deadline that try_turn returned to the handler
  nested       \* history: a CPU's timer interrupt hit its own critical section
               \* after it had set the alarm

vars == <<start, clock, now, slots, occupied, lock, alarm, fut, deadline,
          registered, waker, pc, handler, turn, returned, nested>>

Idle == [at |-> "idle", sleep |-> "none"]
NoTurn == [now |-> 0, pending |-> {}, firing |-> {}]

Init ==
  /\ start \in Starts
  /\ clock = start
  /\ now = 0
  /\ slots = [l \in Levels |-> [k \in Slots |-> {}]]
  /\ occupied = [l \in Levels |-> {}]
  /\ lock = NoCpu
  /\ alarm = [c \in Cpus |-> {}]
  /\ fut = [s \in Sleeps |-> "none"]
  /\ deadline = [s \in Sleeps |-> 0]
  /\ registered = [s \in Sleeps |-> FALSE]
  /\ waker = [s \in Sleeps |-> "empty"]
  /\ pc = [c \in Cpus |-> Idle]
  /\ handler = [c \in Cpus |-> "idle"]
  /\ turn = NoTurn
  /\ returned = [c \in Cpus |-> {}]
  /\ nested = FALSE

-----------------------------------------------------------------------------
(* The wheels. *)

\* The wheel for deadline t at time n: the highest digit, base SLOTS, in which
\* they differ; the top wheel takes everything beyond.
wheel_index(n, t) ==
  LET differ == {l \in Levels : n \div SLOTS ^ l # t \div SLOTS ^ l}
  IN  IF differ = {} THEN 0 ELSE Max(differ)

slot_index(l, t) == (t \div SLOTS ^ l) % SLOTS

\* The occupied slot at or after that of time n, wrapping around.
next_slot(l, n) ==
  LET later == {k \in occupied[l] : k >= slot_index(l, n)}
  IN  Min(IF later # {} THEN later ELSE occupied[l])

\* Wheel::next_deadline.  next_slot_distance is already taken modulo SLOTS, so
\* `skipped' is 0 and a slot that was wrapped to counts in the current rotation.
wheel_deadline(l, n) ==
  LET rotation_start == (n \div SLOTS ^ (l + 1)) * SLOTS ^ (l + 1)
  IN  [ticks |-> rotation_start + next_slot(l, n) * SLOTS ^ l,
       slot |-> next_slot(l, n), wheel |-> l]

\* Mutant: the last wheel with an entry decides.
next_deadline_last ==
  LET used == {l \in Levels : occupied[l] # {}}
  IN  IF used = {} THEN {} ELSE {wheel_deadline(Max(used), now)}

\* Core::next_deadline: the first wheel with an entry decides.  {} is None.
next_deadline ==
  LET used == {l \in Levels : occupied[l] # {}}
  IN  IF used = {} THEN {} ELSE {wheel_deadline(Min(used), now)}

next_ticks == {d.ticks : d \in next_deadline}

\* Core::insert_at for a set of entries, at time n.
insert_at(entries, n) ==
  LET Lands(s, l, k) == wheel_index(n, deadline[s]) = l /\ slot_index(l, deadline[s]) = k
  IN  /\ slots' = [l \in Levels |-> [k \in Slots |->
                     slots[l][k] \cup {s \in entries : Lands(s, l, k)}]]
      /\ occupied' = [l \in Levels |->
                     occupied[l] \cup {k \in Slots : \E s \in entries : Lands(s, l, k)}]

-----------------------------------------------------------------------------
(* The thread of a CPU: the life of a Sleep. *)

\* The thread runs, and nobody else has the future.
MayUse(c, s) ==
  /\ pc[c] = Idle /\ handler[c] = "idle"
  /\ \A d \in Cpus : pc[d].sleep # s

Goto(c, at, s) == pc' = [pc EXCEPT ![c] = [at |-> at, sleep |-> s]]
At(c, at) == handler[c] = "idle" /\ pc[c].at = at

\* sleep(): the deadline is counted from the clock, not from Core::now.
Sleep(c, s, duration) ==
  /\ MayUse(c, s)
  /\ fut[s] = "none"
  /\ fut' = [fut EXCEPT ![s] = "Unregistered"]
  /\ deadline' = [deadline EXCEPT ![s] = clock + duration]
  /\ UNCHANGED <<start, clock, now, slots, occupied, lock, alarm, registered, waker,
                 pc, handler, turn, returned, nested>>

\* Mutant: the wheel is chosen from the clock, which may be ahead of Core::now.
Register_clock(c, s) ==
  /\ MayUse(c, s)
  /\ fut[s] = "Unregistered"
  /\ lock = NoCpu
  /\ lock' = c
  /\ \/ /\ deadline[s] <= now
        /\ waker' = [waker EXCEPT ![s] = "closed"]
        /\ Goto(c, "arm", s)
        /\ UNCHANGED <<slots, occupied, registered>>
     \/ /\ deadline[s] > now
        /\ registered' = [registered EXCEPT ![s] = TRUE]
        /\ insert_at({s}, clock)
        /\ Goto(c, "arm", s)
        /\ UNCHANGED waker
  /\ UNCHANGED <<start, clock, now, alarm, fut, deadline, handler, turn, returned, nested>>

\* The first poll of a Sleep: Timer::register up to Core::register.
Register(c, s) ==
  /\ MayUse(c, s)
  /\ fut[s] = "Unregistered"
  /\ lock = NoCpu
  /\ lock' = c
  /\ \/ /\ deadline[s] <= now
        /\ waker' = [waker EXCEPT ![s] = "closed"]
        /\ Goto(c, "arm", s)
        /\ UNCHANGED <<slots, occupied, registered>>
     \/ /\ deadline[s] > now
        /\ registered' = [registered EXCEPT ![s] = TRUE]
        /\ insert_at({s}, now)
        /\ Goto(c, "arm", s)
        /\ UNCHANGED waker
  /\ UNCHANGED <<start, clock, now, alarm, fut, deadline, handler, turn, returned, nested>>

\* Mutant: the alarm is left as it was when one is already set.
Arm_once(c) ==
  /\ At(c, "arm")
  /\ alarm' = [alarm EXCEPT ![c] = IF @ = {} THEN next_ticks ELSE @]
  /\ Goto(c, "unlock", pc[c].sleep)
  /\ UNCHANGED <<start, clock, now, slots, occupied, lock, fut, deadline, registered,
                 waker, handler, turn, returned, nested>>

\* The end of Timer::register and Timer::cancel: schedule_wakeup ...
Arm(c) ==
  /\ At(c, "arm")
  /\ alarm' = [alarm EXCEPT ![c] = next_ticks]
  /\ Goto(c, "unlock", pc[c].sleep)
  /\ UNCHANGED <<start, clock, now, slots, occupied, lock, fut, deadline, registered,
                 waker, handler, turn, returned, nested>>

\* ... and the guard is dropped.  A registered sleep goes on to poll_wait; a sleep
\* that was due is Completed; a cancelled one is gone.
Unlock(c) ==
  /\ At(c, "unlock")
  /\ lock' = NoCpu
  /\ LET s == pc[c].sleep
     IN  \/ /\ fut[s] = "Unregistered" /\ waker[s] # "closed"
            /\ fut' = [fut EXCEPT ![s] = "Registered"]
            /\ Goto(c, "poll_wait", s)
         \/ /\ fut[s] = "Unregistered" /\ waker[s] = "closed"
            /\ fut' = [fut EXCEPT ![s] = "Completed"]
            /\ pc' = [pc EXCEPT ![c] = Idle]
         \/ /\ fut[s] = "dropping"
            /\ fut' = [fut EXCEPT ![s] = "gone"]
            /\ pc' = [pc EXCEPT ![c] = Idle]
  /\ UNCHANGED <<start, clock, now, slots, occupied, alarm, deadline, registered,
                 waker, handler, turn, returned, nested>>

\* WaitCell::poll_wait: Ready once the cell is closed.
PollWait(c) ==
  /\ At(c, "poll_wait")
  /\ LET s == pc[c].sleep
     IN  \/ /\ waker[s] = "closed"
            /\ fut' = [fut EXCEPT ![s] = "Completed"]
            /\ UNCHANGED waker
         \/ /\ waker[s] # "closed"
            /\ waker' = [waker EXCEPT ![s] = "waiting"]
            /\ UNCHANGED fut
  /\ pc' = [pc EXCEPT ![c] = Idle]
  /\ UNCHANGED <<start, clock, now, slots, occupied, lock, alarm, deadline,
                 registered, handler, turn, returned, nested>>

\* A later poll: is_registered is looked at without the lock.
PollAgain(c, s) ==
  /\ MayUse(c, s)
  /\ fut[s] = "Registered"
  /\ \/ /\ registered[s]
        /\ Goto(c, "poll_wait", s)
        /\ UNCHANGED fut
     \/ /\ ~registered[s]
        /\ fut' = [fut EXCEPT ![s] = "Completed"]
        /\ UNCHANGED pc
  /\ UNCHANGED <<start, clock, now, slots, occupied, lock, alarm, deadline,
                 registered, waker, handler, turn, returned, nested>>

\* Drop for Sleep: is_registered is looked at without the lock.
DropSleep(c, s) ==
  /\ MayUse(c, s)
  /\ fut[s] \in {"Unregistered", "Registered", "Completed"}
  /\ \/ /\ registered[s]
        /\ fut' = [fut EXCEPT ![s] = "dropping"]
        /\ Goto(c, "cancel", s)
     \/ /\ ~registered[s]
        /\ fut' = [fut EXCEPT ![s] = "gone"]
        /\ UNCHANGED pc
  /\ UNCHANGED <<start, clock, now, slots, occupied, lock, alarm, deadline,
                 registered, waker, handler, turn, returned, nested>>

\* Core::cancel: the slot is computed anew, from the time it is by now.  An entry
\* that was fired in the meantime is in no list, and List::remove says so.
Cancel(c) ==
  /\ At(c, "cancel")
  /\ lock = NoCpu
  /\ lock' = c
  /\ LET s == pc[c].sleep
         l == wheel_index(now, deadline[s])
         k == slot_index(l, deadline[s])
         rest == slots[l][k] \ {s}
     IN  /\ slots' = [slots EXCEPT ![l][k] = rest]
         /\ registered' = [registered EXCEPT ![s] = @ /\ s \notin slots[l][k]]
         /\ occupied' = [occupied EXCEPT ![l] = IF rest = {} THEN @ \ {k} ELSE @]
         /\ Goto(c, "arm", s)
  /\ UNCHANGED <<start, clock, now, alarm, fut, deadline, waker, handler, turn, returned, nested>>

-----------------------------------------------------------------------------
(* The timer interrupt: Timer::try_turn and schedule_wakeup. *)

AlarmDue(c) == handler[c] = "idle" /\ \E t \in alarm[c] : t <= clock

\* The lock is taken, by this CPU's own thread or by another CPU: the handler turns
\* nothing and sets the alarm to "never".
TurnBusy(c) ==
  /\ AlarmDue(c)
  /\ lock # NoCpu
  /\ alarm' = [alarm EXCEPT ![c] = {}]
  /\ nested' = (nested \/ pc[c].at = "unlock")
  /\ UNCHANGED <<start, clock, now, slots, occupied, lock, fut, deadline, registered,
                 waker, pc, handler, turn, returned>>

\* Mutant: the tick that has begun is taken for over.
TurnStart_ahead(c) ==
  /\ AlarmDue(c)
  /\ lock = NoCpu
  /\ lock' = c
  /\ handler' = [handler EXCEPT ![c] = "poll"]
  /\ turn' = [NoTurn EXCEPT !.now = clock + 1]
  /\ UNCHANGED <<start, clock, now, slots, occupied, alarm, fut, deadline, registered,
                 waker, pc, returned, nested>>

\* turn_locked begins.
TurnStart(c) ==
  /\ AlarmDue(c)
  /\ lock = NoCpu
  /\ lock' = c
  /\ handler' = [handler EXCEPT ![c] = "poll"]
  /\ turn' = [NoTurn EXCEPT !.now = IF clock < now THEN now ELSE clock]
  /\ UNCHANGED <<start, clock, now, slots, occupied, alarm, fut, deadline, registered,
                 waker, pc, returned, nested>>

\* The loop condition of Core::poll.
DueSlots == {d \in next_deadline : d.ticks <= turn.now}

\* Mutant: everything in the slot fires, due or not.
Expired_all(entries) == entries

\* Which entries of a slot fire; the others go to a lower wheel.
Expired(entries) == {s \in entries : deadline[s] <= turn.now}

\* One iteration of Core::poll: take_slot, and sort its entries.
PollSlot(c) ==
  /\ handler[c] = "poll"
  /\ turn.firing = {}
  /\ \E d \in DueSlots :
       LET entries == slots[d.wheel][d.slot]
       IN  /\ slots' = [slots EXCEPT ![d.wheel][d.slot] = {}]
           /\ occupied' = [occupied EXCEPT ![d.wheel] = @ \ {d.slot}]
           /\ turn' = [turn EXCEPT !.firing = Expired(entries),
                                   !.pending = @ \cup (entries \ Expired(entries))]
           /\ now' = d.ticks
  /\ UNCHANGED <<start, clock, lock, alarm, fut, deadline, registered, waker, pc,
                 handler, returned, nested>>

\* Entry::fire: first the flag ...
FireUnregister(c, s) ==
  /\ handler[c] = "poll"
  /\ s \in turn.firing /\ registered[s]
  /\ registered' = [registered EXCEPT ![s] = FALSE]
  /\ UNCHANGED <<start, clock, now, slots, occupied, lock, alarm, fut, deadline, waker,
                 pc, handler, turn, returned, nested>>

\* Mutant: the WaitCell is not closed.
FireClose_silent(c, s) ==
  /\ handler[c] = "poll"
  /\ s \in turn.firing /\ ~registered[s]
  /\ turn' = [turn EXCEPT !.firing = @ \ {s}]
  /\ UNCHANGED <<start, clock, now, slots, occupied, lock, alarm, fut, deadline,
                 registered, waker, pc, handler, returned, nested>>

\* ... then the WaitCell, which wakes the task.
FireClose(c, s) ==
  /\ handler[c] = "poll"
  /\ s \in turn.firing /\ ~registered[s]
  /\ waker' = [waker EXCEPT ![s] = "closed"]
  /\ turn' = [turn EXCEPT !.firing = @ \ {s}]
  /\ UNCHANGED <<start, clock, now, slots, occupied, lock, alarm, fut, deadline,
                 registered, pc, handler, returned, nested>>

\* The end of Core::poll: the time moves on, and what did not fire is reinserted.
PollEnd(c) ==
  /\ handler[c] = "poll"
  /\ turn.firing = {} /\ DueSlots = {}
  /\ now' = turn.now
  /\ insert_at(turn.pending, turn.now)
  /\ turn' = [turn EXCEPT !.pending = {}]
  /\ handler' = [handler EXCEPT ![c] = "again"]
  /\ UNCHANGED <<start, clock, lock, alarm, fut, deadline, registered, waker, pc, returned, nested>>

\* The loop of turn_locked: poll again if the next deadline has passed by now,
\* otherwise return it and unlock.
TurnAgain(c) ==
  /\ handler[c] = "again"
  /\ \E t \in next_ticks : clock >= t
  /\ turn' = [turn EXCEPT !.now = clock]
  /\ handler' = [handler EXCEPT ![c] = "poll"]
  /\ UNCHANGED <<start, clock, now, slots, occupied, lock, alarm, fut, deadline,
                 registered, waker, pc, returned, nested>>

TurnEnd(c) ==
  /\ handler[c] = "again"
  /\ \A t \in next_ticks : clock < t
  /\ handler' = [handler EXCEPT ![c] = "arm"]
  /\ turn' = NoTurn
  /\ returned' = [returned EXCEPT ![c] = next_ticks]
  /\ lock' = NoCpu
  /\ UNCHANGED <<start, clock, now, slots, occupied, alarm, fut, deadline, registered,
                 waker, pc, nested>>

\* The handler sets this CPU's alarm, without the lock.
ArmNext(c) ==
  /\ handler[c] = "arm"
  /\ alarm' = [alarm EXCEPT ![c] = returned[c]]
  /\ returned' = [returned EXCEPT ![c] = {}]
  /\ handler' = [handler EXCEPT ![c] = "idle"]
  /\ UNCHANGED <<start, clock, now, slots, occupied, lock, fut, deadline, registered,
                 waker, pc, turn, nested>>

Tick ==
  /\ clock < start + MaxTicks
  /\ clock' = clock + 1
  /\ UNCHANGED <<start, now, slots, occupied, lock, alarm, fut, deadline, registered,
                 waker, pc, handler, turn, returned, nested>>

-----------------------------------------------------------------------------
ThreadProgress(c) == Arm(c) \/ Unlock(c) \/ PollWait(c) \/ Cancel(c)

ThreadChoice(c) ==
  \E s \in Sleeps : \/ Register(c, s) \/ PollAgain(c, s) \/ DropSleep(c, s)
                    \/ \E d \in Durations : Sleep(c, s, d)

HandlerProgress(c) ==
  \/ TurnBusy(c) \/ TurnStart(c) \/ PollSlot(c) \/ PollEnd(c)
  \/ TurnAgain(c) \/ TurnEnd(c) \/ ArmNext(c)
  \/ \E s \in Sleeps : FireUnregister(c, s) \/ FireClose(c, s)

Next ==
  \/ Tick
  \/ \E c \in Cpus : ThreadProgress(c) \/ ThreadChoice(c) \/ HandlerProgress(c)

Spec == Init /\ [][Next]_vars

\* The clock runs, a CPU takes the interrupts it is due and finishes what it has
\* begun; nobody has to create, poll or drop a sleep.
Fairness ==
  /\ WF_vars(Tick)
  /\ \A c \in Cpus : WF_vars(ThreadProgress(c)) /\ WF_vars(HandlerProgress(c))

FairSpec == Spec /\ Fairness

-----------------------------------------------------------------------------
(* Safety. *)

TypeOK ==
  /\ start \in Starts /\ clock \in start .. start + MaxTicks /\ now \in 0 .. clock
  /\ slots \in [Levels -> [Slots -> SUBSET Sleeps]]
  /\ occupied \in [Levels -> SUBSET Slots]
  /\ lock \in Cpus \cup {NoCpu}
  /\ alarm \in [Cpus -> SUBSET Nat] /\ returned \in [Cpus -> SUBSET Nat]
  /\ \A c \in Cpus : \A t, u \in alarm[c] : t = u
  /\ fut \in [Sleeps -> {"none", "Unregistered", "Registered", "Completed",
                         "dropping", "gone"}]
  /\ deadline \in [Sleeps -> Nat]
  /\ registered \in [Sleeps -> BOOLEAN]
  /\ waker \in [Sleeps -> {"empty", "waiting", "closed"}]
  /\ pc \in [Cpus -> [at : {"idle", "arm", "unlock", "poll_wait", "cancel"},
                     sleep : Sleeps \cup {"none"}]]
  /\ handler \in [Cpus -> {"idle", "poll", "again", "arm"}]
  /\ turn \in [now : Nat, pending : SUBSET Sleeps, firing : SUBSET Sleeps]
  /\ nested \in BOOLEAN

Linked(s) == \E l \in Levels, k \in Slots : s \in slots[l][k]

\* With the lock free, every registered entry is linked into the one slot that
\* Core::cancel would compute for it from the time it is by then, though it was
\* inserted at an earlier time; nothing else is linked, so no slot keeps a pointer
\* to a Sleep that is gone; and the bitmaps show which slots have entries.
CancelFindsEntry ==
  lock = NoCpu =>
    /\ \A l \in Levels, k \in Slots : slots[l][k] =
         {s \in Sleeps : /\ registered[s]
                        /\ l = wheel_index(now, deadline[s])
                        /\ k = slot_index(l, deadline[s])}
    /\ \A l \in Levels : occupied[l] = {k \in Slots : slots[l][k] # {}}
    /\ \A s \in Sleeps : registered[s] => fut[s] \in {"Registered", "dropping"}

\* A sleep never returns Ready before its deadline, whichever wheels it went
\* through on its way (Core::poll, Core::register).
NotEarly == \A s \in Sleeps : fut[s] = "Completed" => deadline[s] <= clock

\* Core::now never passes the deadline of an entry that stays in the wheels: a turn
\* fires everything that is due.
NotOverdue == lock = NoCpu => \A s \in Sleeps : Linked(s) => deadline[s] > now

\* With the lock free and no handler running, some CPU's alarm is set to go off no
\* later than the first deadline.
Armed ==
  lock = NoCpu /\ (\A c \in Cpus : handler[c] = "idle") =>
    \A s \in Sleeps : Linked(s) => \E c \in Cpus : \E t \in alarm[c] : t <= deadline[s]

\* register, cancel and the interrupt handler of every CPU set only the alarm of that
\* CPU, and a handler that cannot get the lock sets it to "never"; still somebody's
\* alarm is set for the first deadline, unless an interrupt hit the critical section
\* of its own CPU.
ArmedUnlessNested == nested \/ Armed

\* Timer::try_turn "does not block when the inner timer mutex lock cannot be
\* acquired, making it suitable to call in interrupt handlers": after an interrupt
\* that could not turn the timer the first deadline is still waited for.
ArmedAfterTryTurn == Armed

\* Timer::turn returns "the next deadline (if any) at which new tasks will become
\* ready": not one that has already passed when Core::poll is done.
NextDeadlineAhead ==
  \A c \in Cpus : handler[c] = "again" => \A t \in next_ticks : t > now

-----------------------------------------------------------------------------
(* Liveness. *)

\* A task that waits in a Sleep is woken once the deadline has come, or the Sleep is
\* dropped first (Timer::try_turn, Entry::fire), as long as no interrupt hit the
\* critical section of its own CPU.
SleepWakes ==
  \A s \in Sleeps :
    (waker[s] = "waiting" /\ deadline[s] <= start + MaxTicks)
      ~> (waker[s] = "closed" \/ fut[s] \in {"dropping", "gone"} \/ nested)
=============================================================================
