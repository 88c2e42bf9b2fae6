----------------------------- MODULE MCExecutor -----------------------------
(***************************************************************************)
(* Executor for TLC.  Two CPUs steal from each other and two tasks wake    *)
(* each other; one trap handler interrupts both.  The budgets of 256 and   *)
(* the four rounds are cut to one, so that every limit is reached.         *)
(***************************************************************************)
EXTENDS Executor, TLC

\* No task differs from another.
TaskSymmetry == Permutations(Tasks)
=============================================================================
