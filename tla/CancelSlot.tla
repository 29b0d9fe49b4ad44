----------------------------- MODULE CancelSlot -----------------------------
(***************************************************************************)
(* How host.runs.cancel reaches the sandboxes of a job: the registry and   *)
(* the cancel slot of src/runs.rs, shared by the cancelling call, the      *)
(* job's task and the sandbox round trips of src/kinds/python.rs. One run, *)
(* leased and running when the story begins, and one cancelling call.      *)
(* Each step holds one of the two locks (registry, slot) or none.          *)
(***************************************************************************)
EXTENDS Integers, FiniteSets

CONSTANTS
    Sandbox,   \* sandbox processes the job may use, cold or warm
    NoPid,     \* the slot's pid is None
    Overlap    \* TRUE when the tool composes others: several round trips at once

ASSUME SlotAssumption == NoPid \notin Sandbox /\ Overlap \in BOOLEAN

VARIABLES
    row,         \* status of the run's ledger row
    registered,  \* the registry maps the run id to its slot
    slot,        \* CancelState, reachable through an Arc once registered
    task,        \* run_one_job: leased, running, returned, over
    trip,        \* the round trip of each sandbox
    alive,       \* sandboxes whose process group exists
    call,        \* the cancelling call
    killed       \* history: sandboxes cancelled or timed out, and what they were doing

vars == <<row, registered, slot, task, trip, alive, call, killed>>

\* idle: not used yet; spawned: exists, not registered; serving: registered and
\* awaited; answered: replied, not cleared yet; pooled: back in the warm pool,
\* where any other run may take it; over: reaped.
Trip == {"idle", "spawned", "serving", "answered", "pooled", "over"}

\* What the cancelling call reports. The code answers `false` for the last two: absent
\* is a run the registry does not name, not_killed one whose wait was in vain.
Answers == {"killed", "not_killed", "absent"}

InFlight == {s \in Sandbox : trip[s] \in {"spawned", "serving", "answered"}}

TypeOK ==
    /\ row \in {"running", "cancelled", "ended"}
    /\ registered \in BOOLEAN
    /\ slot \in [pid : Sandbox \cup {NoPid}, cancel_requested : BOOLEAN, killed : BOOLEAN]
    /\ task \in {"leased", "running", "returned", "over"}
    /\ trip \in [Sandbox -> Trip]
    /\ alive \subseteq Sandbox
    /\ call \in {"idle", "flagged", "holding", "waiting"} \cup Answers
    /\ killed \subseteq Sandbox \X Trip

Init ==
    /\ row = "running"
    /\ registered = FALSE
    /\ slot = [pid |-> NoPid, cancel_requested |-> FALSE, killed |-> FALSE]
    /\ task = "leased"
    /\ trip = [s \in Sandbox |-> "idle"]
    /\ alive = {}
    /\ call = "idle"
    /\ killed = {}

-----------------------------------------------------------------------------
(* The job's task.                                                         *)

\* run_one_job registers the slot, some time after the lease.
Register ==
    /\ task = "leased"
    /\ task' = "running"
    /\ registered' = TRUE
    /\ UNCHANGED <<row, slot, trip, alive, call, killed>>

\* spawn_persistent, or a sandbox taken from the warm pool.
Spawn(s) ==
    /\ task = "running"
    /\ trip[s] = "idle"
    /\ Overlap \/ InFlight = {}
    /\ trip' = [trip EXCEPT ![s] = "spawned"]
    /\ alive' = alive \cup {s}
    /\ UNCHANGED <<row, registered, slot, task, call, killed>>

\* Variant of SetLive that does not look at cancel_requested.
SetLiveAlways(s) ==
    /\ trip[s] = "spawned"
    /\ slot' = [slot EXCEPT !.pid = s]
    /\ trip' = [trip EXCEPT ![s] = "serving"]
    /\ UNCHANGED <<alive, killed, row, registered, task, call>>

\* CancelSlot::set_live: registers the pid, or kills it for an earlier cancel.
SetLive(s) ==
    /\ trip[s] = "spawned"
    /\ \/ /\ ~slot.cancel_requested
          /\ slot' = [slot EXCEPT !.pid = s]
          /\ trip' = [trip EXCEPT ![s] = "serving"]
          /\ UNCHANGED <<alive, killed>>
       \/ /\ slot.cancel_requested
          /\ slot' = [slot EXCEPT !.killed = TRUE]
          /\ trip' = [trip EXCEPT ![s] = "over"]
          /\ alive' = alive \ {s}
          /\ killed' = killed \cup {<<s, trip[s]>>}
    /\ UNCHANGED <<row, registered, task, call>>

\* PersistentSandbox::call returns: a response, or Closed once the process died.
Answer(s) ==
    /\ trip[s] = "serving"
    /\ trip' = [trip EXCEPT ![s] = "answered"]
    /\ UNCHANGED <<row, registered, slot, task, alive, call, killed>>

\* Variant of Clear that offers a warm sandbox to the pool before clearing.
ClearLater(s) ==
    /\ trip[s] = "answered"
    /\ trip' = [trip EXCEPT ![s] = "pooled"]
    /\ UNCHANGED <<row, registered, slot, alive, task, call, killed>>

\* Variant of Clear that writes a zero pid instead of None.
ClearToZero(s) ==
    /\ trip[s] = "answered"
    /\ slot' = [slot EXCEPT !.pid = "zero"]
    /\ trip' = [trip EXCEPT ![s] = "pooled"]
    /\ UNCHANGED <<row, registered, alive, task, call, killed>>

\* CancelSlot::clear, then a warm sandbox that answered goes back to the pool
\* and any other one is killed and reaped.
Clear(s) ==
    /\ trip[s] = "answered"
    /\ slot' = [slot EXCEPT !.pid = NoPid]
    /\ \/ trip' = [trip EXCEPT ![s] = "pooled"] /\ UNCHANGED alive
       \/ trip' = [trip EXCEPT ![s] = "over"] /\ alive' = alive \ {s}
    /\ UNCHANGED <<row, registered, task, call, killed>>

\* A cold round trip fails: `?` returns before clear, the sandbox is dropped.
ColdFails(s) ==
    /\ trip[s] = "serving"
    /\ trip' = [trip EXCEPT ![s] = "over"]
    /\ alive' = alive \ {s}
    /\ UNCHANGED <<row, registered, slot, task, call, killed>>

JobReturns ==
    /\ task = "running"
    /\ InFlight = {}
    /\ task' = "returned"
    /\ UNCHANGED <<row, registered, slot, trip, alive, call, killed>>

\* The deadline drops Kind::call with every sandbox it holds (kill_on_drop), and
\* the registered pid is killed once more; nobody clears the slot.
Deadline ==
    /\ task = "running"
    /\ task' = "returned"
    /\ trip' = [s \in Sandbox |-> IF s \in InFlight THEN "over" ELSE trip[s]]
    /\ alive' = alive \ (InFlight \cup {slot.pid})
    /\ killed' = killed \cup {<<s, trip[s]>> : s \in {slot.pid} \cap alive}
    /\ UNCHANGED <<row, registered, slot, call>>

\* Variant of Unregister that leaves the run in the registry.
UnregisterNever ==
    /\ task = "returned"
    /\ task' = "over"
    /\ row' = IF row = "running" THEN "ended" ELSE row
    /\ UNCHANGED <<slot, trip, alive, call, killed, registered>>

\* unregister, then the finalize of module Runs.
Unregister ==
    /\ task = "returned"
    /\ task' = "over"
    /\ registered' = FALSE
    /\ row' = IF row = "running" THEN "ended" ELSE row
    /\ UNCHANGED <<slot, trip, alive, call, killed>>

-----------------------------------------------------------------------------
(* host.runs.cancel.                                                       *)

\* cancel_run flips the ledger row of a running run; an ended one is refused.
CancelRow ==
    /\ call = "idle"
    /\ row = "running"
    /\ row' = "cancelled"
    /\ call' = "flagged"
    /\ UNCHANGED <<registered, slot, task, trip, alive, killed>>

\* RunsRegistry::cancel looks the slot up; a run that is not there is taken not
\* to be executing, and nothing is left behind for a task that registers later.
LookUpSlot ==
    /\ call = "flagged"
    /\ call' = IF registered THEN "holding" ELSE "absent"
    /\ UNCHANGED <<row, registered, slot, task, trip, alive, killed>>

\* CancelSlot::request_cancel
RequestCancel ==
    /\ call = "holding"
    /\ \/ /\ slot.pid # NoPid
          /\ slot' = [slot EXCEPT !.cancel_requested = TRUE, !.killed = TRUE]
          /\ alive' = alive \ {slot.pid}
          /\ killed' = killed \cup {<<s, trip[s]>> : s \in {slot.pid} \cap alive}
          /\ call' = "killed"
       \/ /\ slot.pid = NoPid
          /\ slot' = [slot EXCEPT !.cancel_requested = TRUE]
          /\ call' = "waiting"
          /\ UNCHANGED <<alive, killed>>
    /\ UNCHANGED <<row, registered, task, trip>>

\* Variant of AwaitKill without the bound CANCEL_SPAWN_GRACE.
AwaitKillForever ==
    /\ call = "waiting"
    /\ slot.killed
    /\ call' = "killed"
    /\ UNCHANGED <<row, registered, slot, task, trip, alive, killed>>

\* The wait ends when a kill is reported, the run leaves the registry, or the
\* grace period is over.
AwaitKill ==
    /\ call = "waiting"
    /\ call' = IF slot.killed THEN "killed" ELSE "not_killed"
    /\ UNCHANGED <<row, registered, slot, task, trip, alive, killed>>

-----------------------------------------------------------------------------

TaskStep ==
    \/ Register \/ JobReturns \/ Deadline \/ Unregister
    \/ \E s \in Sandbox : Spawn(s) \/ SetLive(s) \/ Answer(s) \/ Clear(s) \/ ColdFails(s)

CancelStep == CancelRow \/ LookUpSlot \/ RequestCancel \/ AwaitKill

\* The run is over and no call is in progress.
Terminated ==
    /\ task = "over"
    /\ call \in Answers \cup {"idle"}
    /\ UNCHANGED vars

Next == TaskStep \/ CancelStep \/ Terminated

\* The task's deadline and the cancelling call's grace period both run out.
Fairness == WF_vars(TaskStep) /\ WF_vars(LookUpSlot \/ RequestCancel \/ AwaitKill)

Spec == Init /\ [][Next]_vars /\ Fairness

-----------------------------------------------------------------------------
(* Properties.                                                             *)

\* runs.rs CancelSlot, kinds/mod.rs compose_call ("`host.runs.cancel` still kills
\* whichever sandbox (parent or child) is currently in flight"): from the moment a call
\* that flipped the row has asked the run's slot, through its wait and after its answer,
\* no sandbox of the run is serving and alive, whether it was spawned before the cancel
\* or is a later one. Exempt is the call that found no slot (call = "absent"): between
\* the lease and run_one_job's register that is a run about to start, which then runs
\* to its end or its deadline although its row is cancelled.
CancelReachesInFlight ==
    row = "cancelled" /\ call \in {"waiting", "killed", "not_killed"} =>
        \A s \in Sandbox : ~(trip[s] = "serving" /\ s \in alive)

\* runs.rs CancelSlot::clear, kinds/python.rs try_warm: a cancel or a deadline
\* never kills a sandbox that is back in the warm pool, where it may be serving
\* another run.
PoolIsNeverKilled ==
    /\ \A k \in killed : k[2] # "pooled"
    /\ slot.pid \in Sandbox => trip[slot.pid] # "pooled"

\* runs.rs RunsRegistry::cancel: the cancelling call always returns.
CancelAnswers == call = "flagged" ~> call \in Answers

\* runs.rs run_one_job: whatever the cancel does, the task ends, and then the run
\* is out of the registry and no sandbox of it is left in flight.
TaskEndsClean == <>[](task = "over" /\ ~registered /\ InFlight = {})
=============================================================================
