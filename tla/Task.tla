-------------------------------- MODULE Task --------------------------------
(***************************************************************************)
(* One spawned task of the kernel's async runtime and every thread that    *)
(* can reach it (sys/async/src/task.rs, task/join_handle.rs,               *)
(* task/builder.rs):                                                       *)
(*                                                                         *)
(*   - the workers that take it from a run queue, poll it and, when it is  *)
(*     done, wake whoever joins it;                                        *)
(*   - the holders of the wakers (and TaskRef clones) the future handed    *)
(*     out during its polls;                                               *)
(*   - the thread that spawned it and owns its JoinHandle.                 *)
(*                                                                         *)
(* A step is one atomic operation on the state word (module TaskState) or  *)
(* one access to a field the word protects: `stage' (the future or its     *)
(* output) and `slot' (Option<Waker> of the joiner).  Which scheduler the  *)
(* run queue belongs to is the subject of module Executor.                 *)
(***************************************************************************)
EXTENDS TaskState, FiniteSets

CONSTANTS
  Workers,   \* threads that run Scheduler::tick_n
  Holders    \* places that may hold a Waker or a TaskRef clone

ASSUME FiniteActors == IsFiniteSet(Workers) /\ IsFiniteSet(Holders)

VARIABLES
  state,      \* Header::state
  stage,      \* TaskInner::stage
  slot,       \* TaskInner::join_waker is Some
  allocated,  \* the Box<Task> has not been freed
  runq,       \* how often the task is linked into a run queue
  wpc,        \* per worker: where it is in tick_n / Task::poll
  hpc,        \* per holder: where it is in waking or dropping
  jpc,        \* the JoinHandle
  notified,   \* "told": the joiner has been told to poll its JoinHandle;
              \* "lost": the joiner's own executor dropped that wake-up
  unserved    \* history: kinds of wake calls made since the last poll began

vars == <<state, stage, slot, allocated, runq, wpc, hpc, jpc, notified, unserved>>

WorkerPC == {"idle", "start", "poll", "end", "wait", "wake", "requeue", "drop"}
HolderPC == {"none", "held", "enqueue", "ref_clone", "ref_enqueue", "drop"}
JoinPC == {"spawn", "idle", "register", "reregister", "registered", "pending",
           "take", "release", "drop", "gone"}

TypeOK ==
  /\ state \in Snapshot
  /\ stage \in {"Pending", "Ready", "Consumed"}
  /\ slot \in BOOLEAN
  /\ allocated \in BOOLEAN
  /\ runq \in Nat
  /\ wpc \in [Workers -> WorkerPC]
  /\ hpc \in [Holders -> HolderPC]
  /\ jpc \in JoinPC
  /\ notified \in {"none", "told", "lost"}
  /\ unserved \in SUBSET {"val", "ref"}

\* TaskRef::new_allocated has built the task: one reference for the queue, one
\* in the JoinHandle, both still with the spawning thread.
Init ==
  /\ state = create_join_handle(clone_ref(New))
  /\ stage = "Pending"
  /\ slot = FALSE
  /\ allocated = TRUE
  /\ runq = 0
  /\ wpc = [w \in Workers |-> "idle"]
  /\ hpc = [h \in Holders |-> "none"]
  /\ jpc = "spawn"
  /\ notified = "told"
  /\ unserved = {}

-----------------------------------------------------------------------------
(* Helpers. *)

\* Mutant: the last reference but one already frees the task.
DropTaskRef_early ==
  /\ state' = drop_ref(state)
  /\ allocated' = (allocated /\ state.refs > 2)

\* Drop for TaskRef: the thread that drops the last reference deallocates.
DropTaskRef ==
  /\ state' = drop_ref(state)
  /\ allocated' = (allocated /\ ~drop_ref_was_last(state))

WorkerGoto(w, from, to) ==
  /\ wpc[w] = from
  /\ wpc' = [wpc EXCEPT ![w] = to]

HolderGoto(h, from, to) ==
  /\ hpc[h] = from
  /\ hpc' = [hpc EXCEPT ![h] = to]

JoinGoto(from, to) ==
  /\ jpc = from
  /\ jpc' = to

-----------------------------------------------------------------------------
(* Spawning: TaskBuilder::try_spawn runs the executor's schedule closure. *)

SpawnScheduled ==
  /\ JoinGoto("spawn", "idle")
  /\ runq' = runq + 1
  /\ UNCHANGED <<state, stage, slot, allocated, wpc, hpc, notified, unserved>>

\* The executor is closed: the closure drops the TaskRef and try_spawn returns
\* the error, dropping the JoinHandle.
SpawnClosed ==
  /\ JoinGoto("spawn", "release")
  /\ DropTaskRef
  /\ UNCHANGED <<stage, slot, runq, wpc, hpc, notified, unserved>>

-----------------------------------------------------------------------------
(* A worker: Scheduler::tick_n and Task::poll. *)

Dequeue(w) ==
  /\ runq > 0
  /\ WorkerGoto(w, "idle", "start")
  /\ runq' = runq - 1
  /\ UNCHANGED <<state, stage, slot, allocated, hpc, jpc, notified, unserved>>

StartPoll(w) ==
  /\ wpc[w] = "start"
  /\ state' = start_poll(state)
  /\ LET action == start_poll_action(state)
     IN  /\ wpc' = [wpc EXCEPT ![w] =
               CASE action = "Poll" -> "poll"
                 [] action = "DontPoll" -> "drop"
                 [] OTHER -> IF should_wait(state) THEN "wait"
                             ELSE IF has_join_waker(state) THEN "wake" ELSE "drop"]
         /\ unserved' = IF action = "Poll" THEN {} ELSE unserved
  /\ UNCHANGED <<stage, slot, allocated, runq, hpc, jpc, notified>>

\* Inside Future::poll: the context's waker, or the task itself (through
\* Scheduler::current_task), is cloned for somebody.
CloneWaker(w, h) ==
  /\ wpc[w] = "poll"
  /\ HolderGoto(h, "none", "held")
  /\ state' = clone_ref(state)
  /\ UNCHANGED <<stage, slot, allocated, runq, wpc, jpc, notified, unserved>>

\* Inside Future::poll: cx.waker().wake_by_ref(), as yield_now does.
WakeSelf(w) ==
  /\ wpc[w] = "poll"
  /\ state' = wake_by_ref(state)
  /\ unserved' = unserved \cup {"ref"}
  /\ UNCHANGED <<stage, slot, allocated, runq, wpc, hpc, jpc, notified>>

\* The future returned Poll::Pending.
EndPollPending(w) ==
  /\ wpc[w] = "poll"
  /\ state' = end_poll(state, FALSE)
  /\ wpc' = [wpc EXCEPT ![w] =
               IF end_poll_action(state, FALSE) = "PendingSchedule"
               THEN "requeue" ELSE "drop"]
  /\ UNCHANGED <<stage, slot, allocated, runq, hpc, jpc, notified, unserved>>

\* Stage::poll: the future returned Poll::Ready or panicked, and its output (or
\* the JoinError) replaces it.
StoreOutput(w) ==
  /\ WorkerGoto(w, "poll", "end")
  /\ stage' = "Ready"
  /\ UNCHANGED <<state, slot, allocated, runq, hpc, jpc, notified, unserved>>

EndPollReady(w) ==
  /\ wpc[w] = "end"
  /\ state' = end_poll(state, TRUE)
  /\ wpc' = [wpc EXCEPT ![w] =
               IF should_wait(state) THEN "wait"
               ELSE IF end_poll_action(state, TRUE) = "ReadyJoined" THEN "wake"
               ELSE "drop"]
  /\ UNCHANGED <<stage, slot, allocated, runq, hpc, jpc, notified, unserved>>

\* Mutant: the worker does not wait for the JoinHandle to finish its write.
WaitForJoinWaker_impatient(w) ==
  /\ WorkerGoto(w, "wait", "wake")
  /\ state' = wait_for_join_waker(state)
  /\ UNCHANGED <<stage, slot, allocated, runq, hpc, jpc, notified, unserved>>

WaitForJoinWaker(w) ==
  /\ can_take_join_waker(state)
  /\ WorkerGoto(w, "wait", "wake")
  /\ state' = wait_for_join_waker(state)
  /\ UNCHANGED <<stage, slot, allocated, runq, hpc, jpc, notified, unserved>>

\* Mutant: the waker is taken out of the slot but not called.
WakeJoinWaker_silent(w) ==
  /\ WorkerGoto(w, "wake", "drop")
  /\ slot' = FALSE
  /\ UNCHANGED <<state, stage, allocated, runq, hpc, jpc, notified, unserved>>

\* join_waker.wake().  A joiner that is itself a task of the executor and whose
\* poll has registered the waker but has not ended drops the wake-up
\* (State::wake_by_val while POLLING); one that runs in block_on keeps it.
WakeJoinWaker(w) ==
  /\ WorkerGoto(w, "wake", "drop")
  /\ slot' = FALSE
  /\ notified' \in CASE ~slot                     -> {notified}
                      [] slot /\ jpc = "pending" -> {"told", "lost"}
                      [] OTHER                     -> {"told"}
  /\ UNCHANGED <<state, stage, allocated, runq, hpc, jpc, unserved>>

\* PollResult::PendingSchedule: the worker's reference goes back to its queue.
Requeue(w) ==
  /\ WorkerGoto(w, "requeue", "idle")
  /\ runq' = runq + 1
  /\ UNCHANGED <<state, stage, slot, allocated, hpc, jpc, notified, unserved>>

WorkerDrop(w) ==
  /\ WorkerGoto(w, "drop", "idle")
  /\ DropTaskRef
  /\ UNCHANGED <<stage, slot, runq, hpc, jpc, notified, unserved>>

WorkerStep(w) ==
  \/ Dequeue(w) \/ StartPoll(w) \/ EndPollPending(w) \/ StoreOutput(w)
  \/ EndPollReady(w) \/ WaitForJoinWaker(w) \/ WakeJoinWaker(w) \/ Requeue(w)
  \/ WorkerDrop(w) \/ WakeSelf(w)
  \/ \E h \in Holders : CloneWaker(w, h)

-----------------------------------------------------------------------------
(* A holder of a Waker: the RawWakerVTable, and of a TaskRef: cancel. *)

\* Waker::clone into another place.
CloneHeld(h, g) ==
  /\ hpc[h] = "held"
  /\ HolderGoto(g, "none", "held")
  /\ state' = clone_ref(state)
  /\ UNCHANGED <<stage, slot, allocated, runq, wpc, jpc, notified, unserved>>

\* Waker::wake.
WakeByVal(h) ==
  /\ HolderGoto(h, "held",
        IF wake_by_val_action(state) = "Enqueue" THEN "enqueue" ELSE "drop")
  /\ state' = wake_by_val(state)
  /\ unserved' = unserved \cup {"val"}
  /\ UNCHANGED <<stage, slot, allocated, runq, wpc, jpc, notified>>

\* TaskRef::schedule(self): the reference moves into the queue.
EnqueueVal(h) ==
  /\ HolderGoto(h, "enqueue", "none")
  /\ runq' = runq + 1
  /\ UNCHANGED <<state, stage, slot, allocated, wpc, jpc, notified, unserved>>

\* Waker::wake_by_ref.
WakeByRef(h) ==
  /\ HolderGoto(h, "held",
        IF wake_by_ref_action(state) = "Enqueue" THEN "ref_clone" ELSE "held")
  /\ state' = wake_by_ref(state)
  /\ unserved' = unserved \cup {"ref"}
  /\ UNCHANGED <<stage, slot, allocated, runq, wpc, jpc, notified>>

\* self.clone().schedule(): the clone ...
CloneForQueue(h) ==
  /\ HolderGoto(h, "ref_clone", "ref_enqueue")
  /\ state' = clone_ref(state)
  /\ UNCHANGED <<stage, slot, allocated, runq, wpc, jpc, notified, unserved>>

\* ... and the enqueueing of the clone.
EnqueueRef(h) ==
  /\ HolderGoto(h, "ref_enqueue", "held")
  /\ runq' = runq + 1
  /\ UNCHANGED <<state, stage, slot, allocated, wpc, jpc, notified, unserved>>

StartDrop(h) ==
  /\ HolderGoto(h, "held", "drop")
  /\ UNCHANGED <<state, stage, slot, allocated, runq, wpc, jpc, notified, unserved>>

HolderDrop(h) ==
  /\ HolderGoto(h, "drop", "none")
  /\ DropTaskRef
  /\ UNCHANGED <<stage, slot, runq, wpc, jpc, notified, unserved>>

\* TaskRef::cancel: the flags are set, then the todo!() unwinds the caller.
CancelByRef(h) ==
  /\ hpc[h] = "held"
  /\ state' = cancel(state)
  /\ UNCHANGED <<stage, slot, allocated, runq, wpc, hpc, jpc, notified, unserved>>

HolderStep(h) ==
  \/ WakeByVal(h) \/ EnqueueVal(h) \/ WakeByRef(h) \/ CloneForQueue(h)
  \/ EnqueueRef(h) \/ StartDrop(h) \/ HolderDrop(h) \/ CancelByRef(h)
  \/ \E g \in Holders : CloneHeld(h, g)

-----------------------------------------------------------------------------
(* The JoinHandle: its Future::poll, cancel and drop. *)

\* Mutant: a cancelled task is taken to have output, whether it completed or not.
PollJoin_cancel_takes ==
  /\ jpc \in {"idle", "pending"}
  /\ state' = try_join(state)
  /\ notified' = "none"
  /\ jpc' = CASE try_join_action(state) \in {"TakeOutput", "Canceled"} -> "take"
              [] try_join_action(state) = "Register" -> "register"
              [] OTHER -> "reregister"
  /\ UNCHANGED <<stage, slot, allocated, runq, wpc, hpc, unserved>>

\* Task::poll_join up to State::try_join.  A poll uses up the notification.
PollJoin ==
  /\ jpc \in {"idle", "pending"}
  /\ state' = try_join(state)
  /\ notified' = "none"
  /\ jpc' = CASE try_join_action(state) = "TakeOutput" -> "take"
              [] try_join_action(state) = "Canceled" ->
                   IF state.has_output THEN "take" ELSE "release"
              [] try_join_action(state) = "Register" -> "register"
              [] OTHER -> "reregister"
  /\ UNCHANGED <<stage, slot, allocated, runq, wpc, hpc, unserved>>

\* The waker of the polling context is stored (Register) or replaces the stored
\* one unless it is the same (Reregister).
StoreJoinWaker ==
  /\ jpc \in {"register", "reregister"}
  /\ jpc' = "registered"
  /\ slot' = TRUE
  /\ UNCHANGED <<state, stage, allocated, runq, wpc, hpc, notified, unserved>>

\* The poll of the JoinHandle returns Pending ...
JoinWakerRegistered ==
  /\ JoinGoto("registered", "pending")
  /\ state' = join_waker_registered(state)
  /\ UNCHANGED <<stage, slot, allocated, runq, wpc, hpc, notified, unserved>>

\* ... and with it, some time later, the poll of the joiner.
JoinerEndPoll ==
  /\ JoinGoto("pending", "idle")
  /\ UNCHANGED <<state, stage, slot, allocated, runq, wpc, hpc, notified, unserved>>

TakeOutput ==
  /\ JoinGoto("take", "release")
  /\ stage' = "Consumed"
  /\ UNCHANGED <<state, slot, allocated, runq, wpc, hpc, notified, unserved>>

\* JoinHandle::cancel: as TaskRef::cancel.
CancelByHandle ==
  /\ jpc \in {"idle", "pending"}
  /\ state' = cancel(state)
  /\ UNCHANGED <<stage, slot, allocated, runq, wpc, hpc, jpc, notified, unserved>>

\* Drop for JoinHandle, before it was joined.
AbandonJoin ==
  /\ jpc \in {"idle", "pending"}
  /\ jpc' = "release"
  /\ UNCHANGED <<state, stage, slot, allocated, runq, wpc, hpc, notified, unserved>>

ReleaseJoinHandle ==
  /\ JoinGoto("release", "drop")
  /\ state' = drop_join_handle(state)
  /\ UNCHANGED <<stage, slot, allocated, runq, wpc, hpc, notified, unserved>>

JoinDrop ==
  /\ JoinGoto("drop", "gone")
  /\ DropTaskRef
  /\ UNCHANGED <<stage, slot, runq, wpc, hpc, notified, unserved>>

JoinStep ==
  \/ PollJoin \/ StoreJoinWaker \/ JoinWakerRegistered \/ JoinerEndPoll \/ TakeOutput
  \/ CancelByHandle \/ AbandonJoin \/ ReleaseJoinHandle \/ JoinDrop

-----------------------------------------------------------------------------
Next ==
  \/ SpawnScheduled \/ SpawnClosed
  \/ \E w \in Workers : WorkerStep(w)
  \/ \E h \in Holders : HolderStep(h)
  \/ JoinStep

Spec == Init /\ [][Next]_vars

\* Scheduling.  A worker that has the task in hand keeps running (it is a CPU in
\* Worker::main_loop or an interrupted one that resumes), every poll of the
\* future returns, and so does every poll of the joiner; the joiner is polled after
\* its waker was called, unless its executor dropped the call ("lost").  Nothing is
\* assumed of the holders of wakers, of spurious polls, or of anybody choosing to
\* cancel or to drop.
WorkerProgress(w) ==
  \/ Dequeue(w) \/ StartPoll(w) \/ EndPollPending(w) \/ StoreOutput(w)
  \/ EndPollReady(w) \/ WaitForJoinWaker(w) \/ WakeJoinWaker(w) \/ Requeue(w)
  \/ WorkerDrop(w)

JoinProgress ==
  \/ notified = "told" /\ PollJoin
  \/ StoreJoinWaker \/ JoinWakerRegistered \/ JoinerEndPoll \/ TakeOutput
  \/ ReleaseJoinHandle \/ JoinDrop

Fairness ==
  /\ \A w \in Workers : WF_vars(WorkerProgress(w))
  /\ WF_vars(JoinProgress)

FairSpec == Spec /\ Fairness

-----------------------------------------------------------------------------
(* Safety. *)

\* Who may put the task into a run queue or is about to run it.
RunningWorkers == {w \in Workers : wpc[w] \in {"start", "poll", "end", "requeue"}}
EnqueuingHolders ==
  {h \in Holders : hpc[h] \in {"enqueue", "ref_clone", "ref_enqueue"}}

\* The run queue links live inside the task's Header (task.rs, run_queue_links),
\* so the task must never be linked twice, nor linked while a worker has it: at
\* any time at most one of the queue, one worker, one waking holder and the
\* spawning thread has the right to run or to queue it.
SingleRunner ==
  /\ runq <= 1
  /\ runq = 1 => RunningWorkers = {} /\ EnqueuingHolders = {} /\ jpc # "spawn"
  /\ jpc = "spawn" => RunningWorkers = {} /\ EnqueuingHolders = {}
  /\ RunningWorkers # {} => EnqueuingHolders = {}
  /\ \A v, w \in RunningWorkers : v = w
  /\ \A g, h \in EnqueuingHolders : g = h

\* Task::poll logs "failed to transition to polling" and forgets the task when
\* start_poll answers DontPoll; a worker that took the task from a queue never
\* gets that answer, so no wake-up is thrown away there.
NeverDontPoll ==
  \A w \in Workers : wpc[w] = "start" => start_poll_action(state) # "DontPoll"

\* The REFS field counts exactly the TaskRefs and Wakers alive, and the task is
\* freed when, and only when, there is none left: nobody can reach a freed task
\* (Drop for TaskRef, clone_waker, Linked::into_ptr, JoinHandle::poll).
RefsCountHolders ==
  /\ state.refs = runq + Cardinality({w \in Workers : wpc[w] # "idle"})
                       + Cardinality({h \in Holders : hpc[h] # "none"})
                       + Cardinality({h \in Holders : hpc[h] = "ref_enqueue"})
                       + (CASE jpc = "spawn" -> 2 [] jpc = "gone" -> 0 [] OTHER -> 1)
  /\ allocated <=> state.refs > 0

\* The `join_waker' field is an UnsafeCell: the worker that completed the task
\* never reads it while the JoinHandle writes it, and two workers never both do.
JoinWakerExclusive ==
  /\ \A v, w \in Workers : wpc[v] = "wake" /\ wpc[w] = "wake" => v = w
  /\ jpc \in {"register", "reregister"} => \A w \in Workers : wpc[w] # "wake"

\* Task::poll_join unwraps the stored waker on Reregister: it is there.
ReregisterFindsWaker == jpc = "reregister" => slot

\* The `stage' field is an UnsafeCell too.  take_output panics unless it finds
\* Stage::Ready, and Stage::poll reaches unreachable!() unless it finds
\* Stage::Pending; neither happens, and no two threads are ever inside it.
StageProtocol ==
  /\ \A v, w \in Workers :
       wpc[v] \in {"poll", "end"} /\ wpc[w] \in {"poll", "end"} => v = w
  /\ \A w \in Workers : wpc[w] = "poll" => stage = "Pending"
  /\ jpc = "take" => /\ stage = "Ready"
                     /\ \A w \in Workers : wpc[w] \notin {"poll", "end"}

\* The task will be polled again: it is queued, about to be queued, or its word
\* remembers the wake-up for the end of the running poll.
WillBePolled ==
  \/ runq > 0
  \/ EnqueuingHolders # {}
  \/ \E w \in Workers :
       \/ wpc[w] \in {"start", "requeue"}
       \/ wpc[w] \in {"poll", "end"} /\ state.woken

\* A wake_by_ref made at any time, on any thread, leads to another poll unless
\* the task completes or is cancelled (State::wake_by_ref and end_poll).
WakeByRefNotLost ==
  "ref" \in unserved /\ ~state.complete /\ ~state.cancelled => WillBePolled

\* The same for Waker::wake.  State::wake_by_val says of a wake during a poll that
\* the task "will be re-queued by the scheduler at the end of the poll if needed".
WakeByValNotLost ==
  "val" \in unserved /\ ~state.complete /\ ~state.cancelled => WillBePolled

\* Snapshot::has_join_waker asserts that "a task cannot have a join waker if it
\* does not have a join handle!" when a worker ends the task.
JoinWakerHasHandle ==
  \A w \in Workers : wpc[w] = "end" /\ has_join_waker(state) => state.has_join_handle

-----------------------------------------------------------------------------
(* Liveness. *)

\* Whoever awaits the JoinHandle of a task that completes gets an answer, even if
\* the task completes while the handle is registering its waker (end_poll,
\* wait_for_join_waker, wake_join_waker, try_join).  The only way to miss it is to
\* be a task that is woken before the poll that registered the waker has ended.
JoinResolves ==
  (state.complete /\ jpc # "spawn") ~> (jpc = "gone" \/ notified = "lost")

\* The same without that way out, as JoinHandle's users expect it.
JoinAlwaysResolves == (state.complete /\ jpc # "spawn") ~> (jpc = "gone")

-----------------------------------------------------------------------------
(* What the task promises to its users: module TaskLifecycle. *)

phase ==
  IF state.complete THEN "complete"
  ELSE IF state.polling THEN "running"
  ELSE IF jpc = "spawn" \/ runq > 0 \/ RunningWorkers # {} \/ EnqueuingHolders # {}
       THEN "queued" ELSE "idle"

output ==
  IF stage = "Consumed" THEN "taken" ELSE IF state.complete THEN "ready" ELSE "none"

Lifecycle == INSTANCE TaskLifecycle

\* The task implements its lifecycle: it is polled only after it was queued, by
\* one worker at a time, never after it completed, and its output is taken at
\* most once and only when it is there.
ImplementsLifecycle == Lifecycle!Spec
=============================================================================
