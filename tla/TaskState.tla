----------------------------- MODULE TaskState -----------------------------
(***************************************************************************)
(* The atomic state word of one asynchronous task and its transitions      *)
(* (sys/async/src/task/state.rs).  Every operator here is one successful   *)
(* compare-and-swap of State::transition: `f(s)' is the word it writes,    *)
(* `f_action(s)' what it tells its caller to do.                           *)
(***************************************************************************)
EXTENDS Naturals

JoinWakerState == {"Empty", "Registering", "Waiting", "Woken"}

Snapshot ==
  [polling : BOOLEAN, complete : BOOLEAN, woken : BOOLEAN, cancelled : BOOLEAN,
   has_join_handle : BOOLEAN, join_waker : JoinWakerState,
   has_output : BOOLEAN, refs : Nat]

\* State::new: one reference and no flag.
New ==
  [polling |-> FALSE, complete |-> FALSE, woken |-> FALSE, cancelled |-> FALSE,
   has_join_handle |-> FALSE, join_waker |-> "Empty",
   has_output |-> FALSE, refs |-> 1]

-----------------------------------------------------------------------------
(* The join waker, seen from the thread that ends the task. *)

\* Is somebody to be woken?  While a JoinHandle is still writing its waker the
\* answer is yes, but only after waiting for the write.
has_join_waker(s) == s.join_waker \in {"Registering", "Waiting"}
should_wait(s) == s.join_waker = "Registering"

claim_join_waker(s) ==
  IF s.join_waker = "Waiting" THEN [s EXCEPT !.join_waker = "Empty"] ELSE s

\* wait_for_join_waker swaps Waiting for Woken, and spins until it can.
can_take_join_waker(s) == s.join_waker = "Waiting"
wait_for_join_waker(s) == [s EXCEPT !.join_waker = "Woken"]

-----------------------------------------------------------------------------
(* Polling. *)

start_poll_action(s) ==
  IF s.polling \/ s.complete THEN "DontPoll"
  ELSE IF s.cancelled THEN "Cancelled" ELSE "Poll"

start_poll(s) ==
  CASE start_poll_action(s) = "DontPoll" -> s
    [] start_poll_action(s) = "Cancelled" -> claim_join_waker(s)
    [] OTHER -> [s EXCEPT !.polling = TRUE, !.woken = FALSE]

\* Mutant: a task woken during its poll is not rescheduled.
end_poll_action_ignores_woken(s, completed) ==
  IF ~completed THEN "Pending"
  ELSE IF has_join_waker(s) THEN "ReadyJoined" ELSE "Ready"

end_poll_action(s, completed) ==
  IF ~completed THEN IF s.woken THEN "PendingSchedule" ELSE "Pending"
  ELSE IF has_join_waker(s) THEN "ReadyJoined" ELSE "Ready"

\* Mutant: a finished task is not marked as complete.
end_poll_incomplete(s, completed) ==
  IF completed
  THEN [claim_join_waker(s) EXCEPT !.polling = FALSE, !.has_output = TRUE]
  ELSE [s EXCEPT !.polling = FALSE, !.complete = FALSE]

end_poll(s, completed) ==
  IF completed
  THEN [claim_join_waker(s) EXCEPT !.polling = FALSE, !.complete = TRUE,
                                   !.has_output = TRUE]
  ELSE [s EXCEPT !.polling = FALSE, !.complete = FALSE]

-----------------------------------------------------------------------------
(* Joining. *)

\* Mutant: the first registration is taken for a repeated one.
should_register_again(s) == "Reregister"

should_register(s) == IF s.join_waker = "Empty" THEN "Register" ELSE "Reregister"

try_join_action(s) ==
  IF s.cancelled THEN "Canceled"
  ELSE IF s.complete /\ s.has_output THEN "TakeOutput" ELSE should_register(s)

try_join(s) ==
  CASE try_join_action(s) = "Canceled" -> s
    [] try_join_action(s) = "TakeOutput" -> [s EXCEPT !.has_output = FALSE]
    [] OTHER -> [s EXCEPT !.join_waker = "Registering"]

join_waker_registered(s) ==
  [s EXCEPT !.has_join_handle = TRUE, !.join_waker = "Waiting"]

create_join_handle(s) == [s EXCEPT !.has_join_handle = TRUE]
drop_join_handle(s) == [s EXCEPT !.has_join_handle = FALSE]

-----------------------------------------------------------------------------
(* Waking and cancelling. *)

wake_by_val_action(s) ==
  IF s.polling \/ s.complete \/ s.woken THEN "Drop" ELSE "Enqueue"

wake_by_val(s) ==
  IF wake_by_val_action(s) = "Enqueue" THEN [s EXCEPT !.woken = TRUE] ELSE s

\* Mutant: a task that is being polled is put into the queue all the same.
wake_by_ref_action_while_polling(s) ==
  IF s.complete \/ s.woken THEN "None" ELSE "Enqueue"

wake_by_ref_action(s) ==
  IF s.complete \/ s.woken \/ s.polling THEN "None" ELSE "Enqueue"

wake_by_ref(s) ==
  IF s.complete \/ s.woken THEN s ELSE [s EXCEPT !.woken = TRUE]

cancel_action(s) == ~s.cancelled
cancel(s) ==
  IF cancel_action(s) THEN [s EXCEPT !.cancelled = TRUE, !.woken = TRUE] ELSE s

-----------------------------------------------------------------------------
(* Reference counting. *)

\* Mutant: the new reference is not counted.
clone_ref_uncounted(s) == s

clone_ref(s) == [s EXCEPT !.refs = @ + 1]

drop_ref(s) == [s EXCEPT !.refs = @ - 1]
drop_ref_was_last(s) == s.refs = 1
=============================================================================
