---------------------------- MODULE MCScheduler ----------------------------
(* TLC instance of Scheduler. *)
EXTENDS Scheduler
=============================================================================
