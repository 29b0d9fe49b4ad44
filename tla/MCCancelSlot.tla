---------------------------- MODULE MCCancelSlot ----------------------------
(* Instances of module CancelSlot for TLC.                                 *)
EXTENDS CancelSlot

\* Three sandboxes: a warm hit that falls through to a cold one, then a next step.
Three == {"s1", "s2", "s3"}
=============================================================================
