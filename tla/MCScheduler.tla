---------------------------- MODULE MCScheduler ----------------------------
(***************************************************************************)
(* A small instance of Scheduler: one recurring and one one-shot task.     *)
(***************************************************************************)
EXTENDS Scheduler

CONSTANTS every, at, h1, h2
=============================================================================
