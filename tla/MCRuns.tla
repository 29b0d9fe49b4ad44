------------------------------- MODULE MCRuns -------------------------------
(* Instances of module Runs for TLC.                                       *)
EXTENDS Runs

\* One tenant with one job slot and two runs that compete for it.
OneTenant == {"t1"}
SameOwner == <<"t1", "t1">>
OwnerAlone == <<"t1">>
OneSlot == [t \in OneTenant |-> 1]

\* Two tenants with one run each on a host with room for a single job.
TwoTenants == {"t1", "t2"}
OwnerEach == <<"t1", "t2">>
OneSlotEach == [t \in TwoTenants |-> 1]
=============================================================================
