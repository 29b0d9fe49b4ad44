---------------------------- MODULE MCScheduler ----------------------------
(* Instances of module Scheduler for TLC.                                  *)
EXTENDS Scheduler

OneTrigger == {"a"}
=============================================================================
