------------------------------- MODULE MCTask -------------------------------
(***************************************************************************)
(* Task for TLC.  Two workers are needed for a task to be picked up while  *)
(* another worker still finishes with it; two holders for two wake-ups to  *)
(* race.                                                                   *)
(***************************************************************************)
EXTENDS Task
=============================================================================
