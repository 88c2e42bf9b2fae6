------------------------------- MODULE MCIrq -------------------------------
(***************************************************************************)
(* Two tasks, each with an interrupt of its own, as next_event is used.    *)
(***************************************************************************)
EXTENDS Irq, TLC

CONSTANTS t1, t2, uart, disk

MCTasks == {t1, t2}
MCIrqs == {uart, disk}
MCirq_num == t1 :> uart @@ t2 :> disk

\* Both wait for the same interrupt.
MCirq_shared == t1 :> uart @@ t2 :> uart
=============================================================================
