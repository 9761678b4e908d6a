---------------------------- MODULE MCScheduler ----------------------------
(* Scheduler on three jobs.                                                *)
EXTENDS Scheduler

CONSTANTS j1, j2, j3
=============================================================================
