------------------------------ MODULE MCTasks -------------------------------
(* Instances of module Tasks for TLC.                                      *)
EXTENDS Tasks

\* Two posts with one dedupe key, and two without.
MCKey == {[t \in Task |-> k] : k \in {"k", NoKey}}
=============================================================================
