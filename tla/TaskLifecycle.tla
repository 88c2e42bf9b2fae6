--------------------------- MODULE TaskLifecycle ---------------------------
(***************************************************************************)
(* What a spawned task promises, without threads, references or flags: the *)
(* abstract specification that module Task implements.                     *)
(***************************************************************************)
VARIABLES
  phase,   \* "queued", "running", "idle" or "complete"
  output   \* "none", "ready" or "taken"

Init == phase = "queued" /\ output = "none"

Move(from, to) == phase = from /\ phase' = to /\ UNCHANGED output

Start == Move("queued", "running")
Yield == Move("running", "queued")   \* woken during its own poll
Park == Move("running", "idle")
Wake == Move("idle", "queued")
Discard == Move("queued", "idle")    \* cancelled, or the executor is closed

Complete ==
  /\ phase = "running" /\ output = "none"
  /\ phase' = "complete" /\ output' = "ready"

Take ==
  /\ phase = "complete" /\ output = "ready"
  /\ output' = "taken" /\ UNCHANGED phase

Next == Start \/ Yield \/ Park \/ Wake \/ Discard \/ Complete \/ Take

Spec == Init /\ [][Next]_<<phase, output>>
=============================================================================
