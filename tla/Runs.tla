-------------------------------- MODULE Runs --------------------------------
(***************************************************************************)
(* The runs ledger and its executor: the `runs` table of src/db.rs, the    *)
(* leasing loop, job tasks and result storage of src/runs.rs, the export   *)
(* and import jobs of src/export.rs, the run-bound keys of src/subkeys.rs, *)
(* and what a crash, a drain (src/http.rs) and a start (src/main.rs) do to *)
(* them.                                                                   *)
(*                                                                         *)
(* Every db.rs method runs under the single-writer connection mutex, so    *)
(* one method call is one atomic step; everything between two calls can be *)
(* interleaved with any other task of the process.                         *)
(***************************************************************************)
EXTENDS Integers, FiniteSets

CONSTANTS
    MaxRuns,         \* bound: rows ever inserted
    Tenant,          \* tenants
    Owner,           \* the tenant of each run
    JobsConcurrent,  \* plan.jobs_concurrent of each tenant
    HostCeiling,     \* JOBS_HOST_CEILING
    MaxParts,        \* bound: parts of one result
    StateMax,        \* plan.state_bytes_max, counted in parts
    Delegated,       \* runs some caller binds a delegated key to
    MaxRestarts,     \* bound: crashes plus drains
    MaxFaults        \* bound: database calls that fail

RunId == 1..MaxRuns
Part  == 1..MaxParts

ASSUME BoundsAssumption ==
    /\ MaxRuns \in Nat /\ MaxParts \in Nat \ {0} /\ StateMax \in Nat
    /\ MaxRestarts \in Nat /\ MaxFaults \in Nat
ASSUME CapAssumption == HostCeiling \in Nat /\ JobsConcurrent \in [Tenant -> Nat]
ASSUME OwnerAssumption == Tenant # {} /\ Owner \in [RunId -> Tenant] /\ Delegated \subseteq RunId

VARIABLES
    runs,      \* table runs: one row per run, ordered by rowid
    parts,     \* state-store keys runs/<id>/part/<n> that exist
    key,       \* the delegated key bound to each run
    job,       \* the tokio task of each run, if one is alive
    tick,      \* the executor's leasing loop
    purging,   \* part keys a host.runs.purge call has still to delete
    host,      \* life of the server process
    restarts, faults,
    leases,    \* history: how often the executor dispatched each run
    records    \* history: end-of-run records written for each run

vars == <<runs, parts, key, job, tick, purging, host, restarts, faults, leases, records>>

-----------------------------------------------------------------------------
(* Types.                                                                  *)

Open     == {"queued", "running"}
Terminal == {"done", "error", "timeout", "cancelled"}
Status   == {"none"} \cup Open \cup Terminal

\* result is the number of parts result_ref names, 0 when the column is NULL.
Row == [status : Status, tool : {"job", "export"}, attempt : 0..2, result : 0..MaxParts]

NoRow == [status |-> "none", tool |-> "job", attempt |-> 0, result |-> 0]

NewRow(s, tool) == [status |-> s, tool |-> tool, attempt |-> 1, result |-> 0]

\* exec: execute_job is running; build: the archive is being built; check and
\* store: store_result_parts before and during its writes; final: before
\* finalize_run; record: after it, before the receipt, dead letter and lineage.
Task == [pc : {"idle", "exec", "build", "check", "store", "final", "record"},
         out : {"done", "error", "timeout"}, n : 0..MaxParts, k : 0..MaxParts]

\* A task at step c that will report s for a result of n parts, none stored yet.
TaskAt(c, s, n) == [pc |-> c, out |-> s, n |-> n, k |-> 0]

NoTask == TaskAt("idle", "done", 0)

Nobody == CHOOSE t \in Tenant : TRUE

Idle == [pc |-> "idle", todo |-> {}, at |-> Nobody]

TypeOK ==
    /\ runs \in [RunId -> Row]
    /\ parts \in [RunId -> SUBSET Part]
    /\ key \in [RunId -> {"none", "checked", "live", "revoked"}]
    /\ job \in [RunId -> Task]
    /\ tick \in [pc : {"idle", "host", "count", "lease"}, todo : SUBSET Tenant, at : Tenant]
    /\ purging \subseteq RunId \X Part
    /\ host \in {"up", "draining", "exiting", "down", "booting"}
    /\ restarts \in Nat /\ faults \in Nat
    /\ leases \in [RunId -> Nat]
    /\ records \in [RunId -> Nat]

Init ==
    /\ runs = [r \in RunId |-> NoRow]
    /\ parts = [r \in RunId |-> {}]
    /\ key = [r \in RunId |-> "none"]
    /\ job = [r \in RunId |-> NoTask]
    /\ tick = Idle
    /\ purging = {}
    /\ host = "up"
    /\ restarts = 0 /\ faults = 0
    /\ leases = [r \in RunId |-> 0]
    /\ records = [r \in RunId |-> 0]

-----------------------------------------------------------------------------
(* Queries and row updates of db.rs.                                       *)

Of(t) == {r \in RunId : Owner[r] = t}

Running(S) == {r \in S : runs[r].status = "running"}

Queued(S) == {r \in S : runs[r].status = "queued"}

\* ORDER BY rowid LIMIT 1
Oldest(S) == CHOOSE r \in S : \A q \in S : r <= q

\* A run id is fresh when its row is absent and every earlier row of the tenant
\* is present: rowids grow in insertion order.
Fresh(r) ==
    /\ runs[r] = NoRow
    /\ \A q \in Of(Owner[r]) : q < r => runs[q] # NoRow

Revoked(k) == IF k = "live" THEN "revoked" ELSE k

\* The runs in S reach status s; revoke_bound_on runs in the same commit.
EndRows(S, s) ==
    /\ runs' = [r \in RunId |-> IF r \in S THEN [runs[r] EXCEPT !.status = s] ELSE runs[r]]
    /\ key' = [r \in RunId |-> IF r \in S THEN Revoked(key[r]) ELSE key[r]]

\* The bytes of the tenant's state store that results occupy, in parts.
StateUsed(t) == Cardinality({p \in Of(t) \X Part : p[2] \in parts[p[1]]})

\* The process runs background tasks; it serves tool calls.
Alive   == host \in {"up", "draining", "exiting"}
Serving == host \in {"up", "draining"}

-----------------------------------------------------------------------------
(* Tool calls.                                                             *)

\* An asynchronous call, a trigger or a hook inserts a queued run.
InsertQueuedRun(r) ==
    /\ Alive
    /\ Fresh(r)
    /\ runs' = [runs EXCEPT ![r] = NewRow("queued", "job")]
    /\ UNCHANGED <<parts, key, job, tick, purging, host, restarts, faults, leases, records>>

\* Variant of StartExportRun without the look at the tenant's running exports.
StartAnotherExport(r) ==
    /\ Serving
    /\ Fresh(r)
    /\ runs' = [runs EXCEPT ![r] = NewRow("running", "export")]
    /\ job' = [job EXCEPT ![r] = TaskAt("build", "done", 0)]
    /\ UNCHANGED <<parts, key, tick, purging, host, restarts, faults, leases, records>>

\* host.export and host.import: one running row per tenant and tool, inserted
\* running, with a task of its own.
StartExportRun(r) ==
    /\ Serving
    /\ Fresh(r)
    /\ \A q \in Running(Of(Owner[r])) : runs[q].tool # "export"
    /\ runs' = [runs EXCEPT ![r] = NewRow("running", "export")]
    /\ job' = [job EXCEPT ![r] = TaskAt("build", "done", 0)]
    /\ UNCHANGED <<parts, key, tick, purging, host, restarts, faults, leases, records>>

\* host.key.delegate with bind.run_id reads the run (parse_bind) ...
ParseBind(r) ==
    /\ Serving
    /\ r \in Delegated
    /\ key[r] = "none"
    /\ runs[r].status \in Open
    /\ key' = [key EXCEPT ![r] = "checked"]
    /\ UNCHANGED <<runs, parts, job, tick, purging, host, restarts, faults, leases, records>>

\* ... and inserts the key in a later call, without looking at the run again.
InsertSubKey(r) ==
    /\ Serving
    /\ key[r] = "checked"
    /\ key' = [key EXCEPT ![r] = "live"]
    /\ UNCHANGED <<runs, parts, job, tick, purging, host, restarts, faults, leases, records>>

\* Variant of CancelRun that forgets to revoke the keys bound to the run.
CancelRunKeepingKeys(r) ==
    /\ Serving
    /\ runs[r].status \in Open
    /\ runs' = [runs EXCEPT ![r].status = "cancelled"]
    /\ UNCHANGED <<parts, key, job, tick, purging, host, restarts, faults, leases, records>>

\* Variant of CancelRun without its status condition.
CancelAnyRun(r) ==
    /\ Serving
    /\ runs[r] # NoRow
    /\ EndRows({r}, "cancelled")
    /\ UNCHANGED <<parts, job, tick, purging, host, restarts, faults, leases, records>>

\* host.runs.cancel: the ledger part; the kill is module CancelSlot's.
CancelRun(r) ==
    /\ Serving
    /\ runs[r].status \in Open
    /\ EndRows({r}, "cancelled")
    /\ UNCHANGED <<parts, job, tick, purging, host, restarts, faults, leases, records>>

\* host.runs.purge: done rows lose their result_ref in one commit, and the call
\* then deletes the part keys one by one. Any set of the tenant's done rows
\* may have finished by before_unix.
PurgeRuns(t) ==
    /\ Serving
    /\ \E S \in SUBSET {r \in Of(t) : runs[r].status = "done" /\ runs[r].result > 0} :
         /\ S # {}
         /\ runs' = [r \in RunId |-> IF r \in S THEN [runs[r] EXCEPT !.result = 0] ELSE runs[r]]
         /\ purging' = purging \cup {p \in S \X Part : p[2] <= runs[p[1]].result}
    /\ UNCHANGED <<parts, key, job, tick, host, restarts, faults, leases, records>>

\* One state_kv_delete of the purging call.
PurgePart(r, n) ==
    /\ Alive
    /\ <<r, n>> \in purging
    /\ purging' = purging \ {<<r, n>>}
    /\ parts' = [parts EXCEPT ![r] = @ \ {n}]
    /\ UNCHANGED <<runs, key, job, tick, host, restarts, faults, leases, records>>

\* reap_expired_runs ends the running rows whose started_unix + deadline_s has
\* passed: any set of them, for all the ledger says about the time.
EndExpired == \E S \in SUBSET Running(RunId) : EndRows(S, "error")

\* admin.runs_reap
ReapExpiredRuns ==
    /\ Serving
    /\ EndExpired
    /\ UNCHANGED <<parts, job, tick, purging, host, restarts, faults, leases, records>>

-----------------------------------------------------------------------------
(* The executor's leasing loop, runs::tick. Every condition is a query of  *)
(* its own, so the ledger can change between any two of these steps.       *)

\* The count and the list of tenants are two queries; taken as one step, since both are
\* read again before a lease.
TickScan ==
    /\ Alive
    /\ tick.pc = "idle"
    /\ Cardinality(Running(RunId)) < HostCeiling
    /\ tick' = [tick EXCEPT !.pc = "host", !.todo = {t \in Tenant : Queued(Of(t)) # {}}]
    /\ UNCHANGED <<runs, parts, key, job, purging, host, restarts, faults, leases, records>>

\* Variant of TickHostCheck that trusts the count taken at the start of the tick.
TickNoHostCheck ==
    /\ Alive
    /\ tick.pc = "host"
    /\ tick.todo # {}
    /\ \E t \in tick.todo : tick' = [pc |-> "count", todo |-> tick.todo \ {t}, at |-> t]
    /\ UNCHANGED <<runs, parts, key, job, purging, host, restarts, faults, leases, records>>

\* The scan takes the next tenant, unless the host is full.
TickHostCheck ==
    /\ Alive
    /\ tick.pc = "host"
    /\ tick.todo # {}
    /\ \/ /\ Cardinality(Running(RunId)) < HostCeiling
          /\ \E t \in tick.todo : tick' = [pc |-> "count", todo |-> tick.todo \ {t}, at |-> t]
       \/ /\ Cardinality(Running(RunId)) >= HostCeiling
          /\ tick' = Idle
    /\ UNCHANGED <<runs, parts, key, job, purging, host, restarts, faults, leases, records>>

TickEnd ==
    /\ Alive
    /\ tick.pc = "host"
    /\ tick.todo = {}
    /\ tick' = Idle
    /\ UNCHANGED <<runs, parts, key, job, purging, host, restarts, faults, leases, records>>

\* Variant of TickTenantCheck that is off by one.
TickTenantCheckOffByOne ==
    /\ Alive
    /\ tick.pc = "count"
    /\ tick' = [tick EXCEPT !.pc =
                  IF Cardinality(Running(Of(tick.at))) > JobsConcurrent[tick.at]
                  THEN "host" ELSE "lease"]
    /\ UNCHANGED <<runs, parts, key, job, purging, host, restarts, faults, leases, records>>

TickTenantCheck ==
    /\ Alive
    /\ tick.pc = "count"
    /\ tick' = [tick EXCEPT !.pc =
                  IF Cardinality(Running(Of(tick.at))) >= JobsConcurrent[tick.at]
                  THEN "host" ELSE "lease"]
    /\ UNCHANGED <<runs, parts, key, job, purging, host, restarts, faults, leases, records>>

\* Variant of TickLease whose UPDATE does not set the status.
TickLeaseUnmarked ==
    /\ Alive
    /\ tick.pc = "lease"
    /\ tick' = [tick EXCEPT !.pc = "host"]
    /\ \/ /\ Queued(Of(tick.at)) # {}
          /\ LET r == Oldest(Queued(Of(tick.at))) IN
               /\ runs' = runs
               /\ job' = [job EXCEPT ![r] = TaskAt("exec", "done", 0)]
               /\ leases' = [leases EXCEPT ![r] = @ + 1]
       \/ /\ Queued(Of(tick.at)) = {}
          /\ UNCHANGED <<runs, job, leases>>
    /\ UNCHANGED <<parts, key, purging, host, restarts, faults, records>>

\* lease_next_queued_run, then the job's task is spawned.
TickLease ==
    /\ Alive
    /\ tick.pc = "lease"
    /\ tick' = [tick EXCEPT !.pc = "host"]
    /\ \/ /\ Queued(Of(tick.at)) # {}
          /\ LET r == Oldest(Queued(Of(tick.at))) IN
               /\ runs' = [runs EXCEPT ![r].status = "running"]
               /\ job' = [job EXCEPT ![r] = TaskAt("exec", "done", 0)]
               /\ leases' = [leases EXCEPT ![r] = @ + 1]
       \/ /\ Queued(Of(tick.at)) = {}
          /\ UNCHANGED <<runs, job, leases>>
    /\ UNCHANGED <<parts, key, purging, host, restarts, faults, records>>

\* A database call of the scan fails: `?` leaves tick, and the loop starts over.
TickFails ==
    /\ Alive
    /\ faults < MaxFaults
    /\ tick.pc # "idle"
    /\ faults' = faults + 1
    /\ tick' = Idle
    /\ UNCHANGED <<runs, parts, key, job, purging, host, restarts, leases, records>>

-----------------------------------------------------------------------------
(* A job's task, run_one_job, and an export's, run_export_job.             *)

\* execute_job returns. A row that is not a tenant's tool (a queued export)
\* ends as tool_not_found.
JobReturns(r) ==
    /\ Alive
    /\ job[r].pc = "exec"
    /\ \/ /\ runs[r].tool = "job"
          /\ \E n \in Part : job' = [job EXCEPT ![r] = TaskAt("check", "done", n)]
       \/ job' = [job EXCEPT ![r] = TaskAt("final", "error", 0)]
       \/ /\ runs[r].tool = "job"
          /\ job' = [job EXCEPT ![r] = TaskAt("final", "timeout", 0)]
    /\ UNCHANGED <<runs, parts, key, tick, purging, host, restarts, faults, leases, records>>

\* build_archive returns; its result is always one part.
ArchiveBuilt(r) ==
    /\ Alive
    /\ job[r].pc = "build"
    /\ \/ job' = [job EXCEPT ![r] = TaskAt("check", "done", 1)]
       \/ job' = [job EXCEPT ![r] = TaskAt("final", "error", 0)]
    /\ UNCHANGED <<runs, parts, key, tick, purging, host, restarts, faults, leases, records>>

\* The quota check over the whole batch, before the first write.
CheckStateQuota(r) ==
    /\ Alive
    /\ job[r].pc = "check"
    /\ job' = [job EXCEPT ![r] =
                 IF StateUsed(Owner[r]) + job[r].n <= StateMax
                 THEN TaskAt("store", "done", job[r].n)
                 ELSE TaskAt("final", "error", 0)]
    /\ UNCHANGED <<runs, parts, key, tick, purging, host, restarts, faults, leases, records>>

\* The task after its next state_kv_set, of `last` parts in all.
Stored(r, last) == [pc |-> IF job[r].k + 1 >= last THEN "final" ELSE "store",
                    out |-> "done", n |-> job[r].n, k |-> job[r].k + 1]

\* Variant of StorePart whose loop stops one part early.
StorePartShort(r) ==
    /\ Alive
    /\ job[r].pc = "store"
    /\ parts' = [parts EXCEPT ![r] = @ \cup {job[r].k + 1}]
    /\ job' = [job EXCEPT ![r] = Stored(r, job[r].n - 1)]
    /\ UNCHANGED <<runs, key, tick, purging, host, restarts, faults, leases, records>>

\* One state_kv_set of the loop.
StorePart(r) ==
    /\ Alive
    /\ job[r].pc = "store"
    /\ parts' = [parts EXCEPT ![r] = @ \cup {job[r].k + 1}]
    /\ job' = [job EXCEPT ![r] = Stored(r, job[r].n)]
    /\ UNCHANGED <<runs, key, tick, purging, host, restarts, faults, leases, records>>

\* A state_kv_set fails: the parts written so far stay.
StorePartFails(r) ==
    /\ Alive
    /\ faults < MaxFaults
    /\ job[r].pc = "store"
    /\ faults' = faults + 1
    /\ job' = [job EXCEPT ![r] = TaskAt("final", "error", 0)]
    /\ UNCHANGED <<runs, parts, key, tick, purging, host, restarts, leases, records>>

\* An export's own task (only ever a first attempt) writes no end-of-run record.
AfterFinal(r) ==
    IF runs[r].tool = "export" /\ runs[r].attempt = 1
    THEN NoTask ELSE TaskAt("record", "done", 0)

\* The row with the outcome of its task.
Finalized(r) == [status |-> job[r].out, tool |-> runs[r].tool, attempt |-> runs[r].attempt,
                 result |-> IF job[r].out = "done" THEN job[r].n ELSE 0]

\* Variant of FinalizeRun without its status condition.
FinalizeAnyRun(r) ==
    /\ Alive
    /\ job[r].pc = "final"
    /\ runs' = [runs EXCEPT ![r] = Finalized(r)]
    /\ key' = [key EXCEPT ![r] = Revoked(@)]
    /\ job' = [job EXCEPT ![r] = AfterFinal(r)]
    /\ UNCHANGED <<parts, tick, purging, host, restarts, faults, leases, records>>

\* Variant of FinalizeRun whose task does not look at what finalize_run returned.
FinalizeRunRecordsAnyway(r) ==
    /\ Alive
    /\ job[r].pc = "final"
    /\ job' = [job EXCEPT ![r] = AfterFinal(r)]
    /\ \/ /\ runs[r].status \in Open
          /\ runs' = [runs EXCEPT ![r] = Finalized(r)]
          /\ key' = [key EXCEPT ![r] = Revoked(@)]
       \/ /\ runs[r].status \notin Open
          /\ UNCHANGED <<runs, key>>
    /\ UNCHANGED <<parts, tick, purging, host, restarts, faults, leases, records>>

\* finalize_run: a conditional UPDATE; a lost race writes nothing and ends the
\* task.
FinalizeRun(r) ==
    /\ Alive
    /\ job[r].pc = "final"
    /\ \/ /\ runs[r].status \in Open
          /\ runs' = [runs EXCEPT ![r] = Finalized(r)]
          /\ key' = [key EXCEPT ![r] = Revoked(@)]
          /\ job' = [job EXCEPT ![r] = AfterFinal(r)]
       \/ /\ runs[r].status \notin Open
          /\ job' = [job EXCEPT ![r] = NoTask]
          /\ UNCHANGED <<runs, key>>
    /\ UNCHANGED <<parts, tick, purging, host, restarts, faults, leases, records>>

\* finalize_run fails: unwrap_or(false), and the row stays as it was.
FinalizeRunFails(r) ==
    /\ Alive
    /\ faults < MaxFaults
    /\ job[r].pc = "final"
    /\ faults' = faults + 1
    /\ job' = [job EXCEPT ![r] = NoTask]
    /\ UNCHANGED <<runs, parts, key, tick, purging, host, restarts, leases, records>>

\* The receipt, the dead letter and the lineage use of a finalized run.
RecordRunEnd(r) ==
    /\ Alive
    /\ job[r].pc = "record"
    /\ records' = [records EXCEPT ![r] = @ + 1]
    /\ job' = [job EXCEPT ![r] = NoTask]
    /\ UNCHANGED <<runs, parts, key, tick, purging, host, restarts, faults, leases>>

-----------------------------------------------------------------------------
(* Crash, drain and start of the process.                                  *)

\* Everything in memory is gone, the state of unfinished calls included.
Stop ==
    /\ host' = "down"
    /\ job' = [r \in RunId |-> NoTask]
    /\ tick' = Idle
    /\ purging' = {}
    /\ key' = [r \in RunId |-> IF key[r] = "checked" THEN "none" ELSE key[r]]

Crash ==
    /\ host # "down"
    /\ restarts < MaxRestarts
    /\ restarts' = restarts + 1
    /\ Stop
    /\ UNCHANGED <<runs, parts, faults, leases, records>>

DrainBegin ==
    /\ host = "up"
    /\ restarts < MaxRestarts
    /\ restarts' = restarts + 1
    /\ host' = "draining"
    /\ UNCHANGED <<runs, parts, key, job, tick, purging, faults, leases, records>>

\* interrupt_running_runs, once no accepted call is in flight or the bound has
\* passed; the executor and the job tasks are not stopped.
DrainInterrupt ==
    /\ host = "draining"
    /\ host' = "exiting"
    /\ EndRows(Running(RunId), "error")
    /\ UNCHANGED <<parts, job, tick, purging, restarts, faults, leases, records>>

\* The restarts row is written and the process exits.
DrainExit ==
    /\ host = "exiting"
    /\ Stop
    /\ UNCHANGED <<runs, parts, restarts, faults, leases, records>>

Requeued(r, a) == [status |-> "queued", tool |-> runs[r].tool, attempt |-> a,
                   result |-> runs[r].result]

\* Variant of RequeueInterruptedRuns that retries a crashed run for ever.
RequeueAllRuns ==
    /\ host = "down"
    /\ host' = "booting"
    /\ runs' = [r \in RunId |->
                  IF runs[r].status = "running"
                  THEN Requeued(r, runs[r].attempt + 1)
                  ELSE runs[r]]
    /\ UNCHANGED <<parts, key, job, tick, purging, restarts, faults, leases, records>>

\* Variant of RequeueInterruptedRuns that is missing from the start-up.
RequeueNoRuns ==
    /\ host = "down"
    /\ host' = "booting"
    /\ UNCHANGED <<runs, parts, key, job, tick, purging, restarts, faults, leases, records>>

\* Start-up: requeue_interrupted_runs_once ...
RequeueInterruptedRuns ==
    /\ host = "down"
    /\ host' = "booting"
    /\ runs' = [r \in RunId |->
                  IF runs[r].status = "running" /\ runs[r].attempt = 1
                  THEN Requeued(r, 2)
                  ELSE runs[r]]
    /\ UNCHANGED <<parts, key, job, tick, purging, restarts, faults, leases, records>>

\* ... then reap_expired_runs, then the executor and the listener start.
StartServing ==
    /\ host = "booting"
    /\ host' = "up"
    /\ EndExpired
    /\ UNCHANGED <<parts, job, tick, purging, restarts, faults, leases, records>>

-----------------------------------------------------------------------------

Tick == TickScan \/ TickHostCheck \/ TickEnd \/ TickTenantCheck \/ TickLease

TaskStep(r) ==
    \/ JobReturns(r) \/ ArchiveBuilt(r)
    \/ CheckStateQuota(r) \/ StorePart(r) \/ StorePartFails(r)
    \/ FinalizeRun(r) \/ FinalizeRunFails(r) \/ RecordRunEnd(r)

Call(r) ==
    \/ InsertQueuedRun(r) \/ StartExportRun(r) \/ ParseBind(r) \/ InsertSubKey(r)
    \/ CancelRun(r) \/ \E n \in Part : PurgePart(r, n)

Lifecycle ==
    Crash \/ DrainBegin \/ DrainInterrupt \/ DrainExit \/ RequeueInterruptedRuns \/ StartServing

Next ==
    \/ Tick
    \/ \E r \in RunId : TaskStep(r) \/ Call(r)
    \/ \E t \in Tenant : PurgeRuns(t)
    \/ TickFails
    \/ ReapExpiredRuns
    \/ Lifecycle

Spec == Init /\ [][Next]_vars

\* The executor loop is never stopped while the process lives; a job's task ends
\* by its deadline; a stopped process is started again by its supervisor, and a
\* drain is bounded. Nothing makes anybody call admin.runs_reap.
Fairness ==
    /\ WF_vars(Tick)
    /\ \A r \in RunId : WF_vars(TaskStep(r))
    /\ WF_vars(DrainInterrupt) /\ WF_vars(DrainExit)
    /\ WF_vars(RequeueInterruptedRuns) /\ WF_vars(StartServing)

FairSpec == Spec /\ Fairness

-----------------------------------------------------------------------------
(* Properties.                                                             *)

JobRows(S) == {r \in S : runs[r].tool = "job"}

\* runs.rs tick: the jobs of a tenant that are running never exceed its plan's
\* jobs_concurrent, although the count and the lease are separate calls and
\* exports start in between.
WithinJobsConcurrent ==
    \A t \in Tenant : Cardinality(JobRows(Running(Of(t)))) <= JobsConcurrent[t]

\* runs.rs tick: running jobs never exceed JOBS_HOST_CEILING.
WithinHostCeiling == Cardinality(JobRows(Running(RunId))) <= HostCeiling

\* db.rs finalize_run, runs.rs store_result_parts: whoever reads a done run with
\* a result_ref finds every part it names.
DoneHasResult ==
    \A r \in RunId : runs[r].status = "done" => 1..runs[r].result \subseteq parts[r]

\* db.rs requeue_interrupted_runs_once: no run is dispatched more than twice, and
\* a queued run is never being executed.
AtMostTwoExecutions ==
    \A r \in RunId : /\ leases[r] <= runs[r].attempt
                     /\ runs[r].attempt <= 2
                     /\ runs[r].status = "queued" => job[r].pc = "idle"

\* runs.rs run_one_job: a run gets at most one set of end-of-run records, and
\* only when its own task ended it: a cancelled run, whose task lost the race to
\* finalize, gets none, over both attempts together.
RecordedOnceEnded ==
    \A r \in RunId : /\ records[r] <= 1
                     /\ records[r] = 1 => runs[r].status \in Terminal \ {"cancelled"}

\* runs.rs run_one_job, main.rs start-up: while the process is up and no database
\* call failed, a running row nobody executes is one a second process death left
\* behind.
RunningIsExecuted ==
    \A r \in RunId :
        /\ host \in {"up", "draining", "exiting"} /\ faults = 0
        /\ runs[r].status = "running" /\ job[r].pc = "idle"
        => runs[r].attempt = 2

\* export.rs export: a tenant never has two archives being built for running rows.
OneExportBuild ==
    \A q, r \in RunId :
        /\ Owner[q] = Owner[r]
        /\ runs[q].status = "running" /\ job[q].pc = "build"
        /\ runs[r].status = "running" /\ job[r].pc = "build"
        => q = r

\* db.rs finalize_run, cancel_run, reap_expired_runs, interrupt_running_runs: an
\* ended run keeps its status and its result, which only a purge clears.
EndedStays ==
    [][\A r \in RunId :
         runs[r].status \in Terminal =>
            /\ runs'[r].status = runs[r].status
            /\ runs'[r].result \in {runs[r].result, 0}]_vars

\* subkeys.rs revoke_bound_on: the step that ends a run leaves no key bound to it
\* usable, and a revoked key stays revoked.
KeysEndWithRun ==
    [][\A r \in RunId :
         /\ runs[r].status \in Open /\ runs'[r].status \in Terminal => key'[r] # "live"
         /\ key[r] = "revoked" => key'[r] = "revoked"]_vars

\* The ledger the callers see is the one RunLifecycle describes.
Abstract == INSTANCE RunLifecycle
              WITH ledger <- [r \in RunId |-> [status |-> runs[r].status, attempt |-> runs[r].attempt]]

\* runs.rs and db.rs together implement the life cycle of RunLifecycle.
ImplementsLifecycle == Abstract!Spec

\* runs.rs tick and run_one_job, db.rs requeue_interrupted_runs_once: every run that was
\* submitted is leased and ends at last, also when the process dies once while another
\* tenant's run holds the only slot (AbandonedIsReaped is about the second death).
EveryRunEnds == \A r \in RunId : runs[r].status \in Open ~> runs[r].status \in Terminal

\* db.rs requeue_interrupted_runs_once ("left `running` so `reap_expired_runs`'s
\* deadline-based rule eventually catches it"): a run on its second attempt ends
\* at last.
AbandonedIsReaped ==
    \A r \in RunId : (runs[r].attempt = 2 /\ runs[r].status = "running")
                       ~> runs[r].status \in Terminal

\* db.rs finalize_run ("a lost race writes nothing"): a stored part belongs to a
\* result some row names, to a task about to finalize, or to a purge under way.
NoOrphanParts ==
    \A r \in RunId : \A n \in parts[r] :
        \/ n <= runs[r].result
        \/ job[r].pc \in {"check", "store", "final"}
        \/ <<r, n>> \in purging
=============================================================================
