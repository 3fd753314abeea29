----------------------------- MODULE MCScheduler -----------------------------
(* Scheduler for TLC; the constants are given in the configurations. *)
EXTENDS Scheduler
=============================================================================
