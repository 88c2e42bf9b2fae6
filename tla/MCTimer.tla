------------------------------ MODULE MCTimer ------------------------------
(***************************************************************************)
(* Timer for TLC, with the wheels of the loom build: two wheels of four    *)
(* slots, 16 ticks in all.  The clock is watched across the end of a slot  *)
(* of the top wheel and across the end of that wheel's rotation.           *)
(***************************************************************************)
EXTENDS Timer, TLC

Symmetry == Permutations(Cpus) \cup Permutations(Sleeps)
=============================================================================
