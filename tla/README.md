# A TLA+ verification of mcphost

mcphost is a multi-tenant host for MCP tools: one Rust process over one SQLite
database. Agents publish tools, call them synchronously or as background jobs, put
them on schedules, wire them to web hooks, and keep state, tables, documents and
messages on the host. This directory models the parts of it where several actors meet
over that database (background runs, schedules, deliveries from outside, repeated tool
calls, tasks handed from one agent to another), model-checks them with TLC and proves
theorems about each of them with TLAPS.

Paths below are relative to `src/src/` unless they say otherwise.

## 1. Inventory

Every `db.rs` method runs under the mutex of a single connection, so one method call
is one atomic step. All the concurrency of the program lies between two such calls:
between two `await`s any other task may have changed any row.

| Component | State | Operations | What is hard | What makes it correct |
|---|---|---|---|---|
| Runs ledger and executor (`runs.rs`, `db.rs`) | table `runs`, parts `runs/<id>/part/<n>` in the state store, one task per running job | enqueue, lease, execute, store parts, finalize, cancel, purge, reap | count, check and lease are separate calls; four ways to end a run race; parts are written and deleted one by one | caps hold; a run ends once; a done run has its whole result; at most two executions; every run ends |
| Export and import (`export.rs`, `import.rs`) | running rows of their own tool names, a task each | start (or return the running one), build, finish | they bypass the queue and the caps but count against them; restart queues them for an executor that does not know them | one build at a time |
| Run-bound keys (`subkeys.rs`) | `sub_keys` rows bound to a run | check, insert, revoke | check and insert are separate; four ways to end a run | the end of a run revokes its keys |
| Cancellation (`runs.rs`, `kinds/python.rs`) | in-memory registry and one slot per run | register, set_live, clear, request_cancel, wait | cancel against spawn, clear, pool and deadline; nested calls share the slot | the sandbox in flight is stopped, a pooled one never |
| Drain, crash, restart (`drain.rs`, `http.rs`, `main.rs`) | draining flag, in-flight gauge | begin, interrupt, exit, requeue, reap | background tasks live on after the interrupt | nothing is lost, nothing runs for ever |
| Schedule triggers (`triggers.rs`, `cron.rs`) | table `triggers` (`next_unix`, `last_run_id`) | set, pause, resume, remove, fire, tick | a tick works from a snapshot; a firing is an insert and a later update | no replay, no overlap, every due trigger attended |
| Receipts (`receipts.rs`) | receipts per trigger | record, streak, alert | the streak is re-derived after the insert | one receipt per ended run, one alert per streak |
| Hooks, web hooks, dead letters (`hooks.rs`, `webhooks.rs`, `deadletters.rs`) | `event_dedupe`, event logs, dead letters | receive, replay, test | the dedupe claim commits before the run exists | an event is run once or is listed as dead |
| Idempotency keys (`idempotency.rs`, `handler.rs`) | one `call_results` row per key | claim, wait, take over, replay, finish, release | the row is the only lock; a holder may be slow, dropped or dead | a key runs once and replays its own result |
| Confirmation (`confirm.rs`, `handler.rs`) | `confirm_tokens` | mint, check, consume, release | check and consume are separate calls; the write may fail | a token authorises one deletion |
| Tasks (`tasks.rs`, `messaging.rs`) | `tasks` rows, the messages of their threads | post, claim, complete, sweep | five calls to post, three to complete, no transaction around them | one ending, announced, final; no task stays open |
| Asks (`asks.rs`, `elicit.rs`) | open questions | ask, answer, expire | answer against expiry | one answer |
| Budget and progress (`budget.rs`, `runs.rs`) | `counters_json` | set limits, record, report | read-modify-write over two calls; limits written after the row is visible | counters grow, limits apply |
| Messaging, channels, consent | inboxes, cursors, contacts | send, read, ack | cursor against retention | nothing unread is lost |
| Authorization server, OAuth, vault | codes, tokens | issue, rotate, revoke, refresh | concurrent refresh | codes are single use |
| State, tables, blobs, docs, index | tenant data | CRUD, search | quotas are checked before the write | mostly query text and I/O |
| Billing, plans, alerts, retention, docs and SDK generators, CLI | configuration, reports | - | - | not concurrent, or offline |

`PROJECT.json` lists all of them with their status, and under `hazards` what in this
code is hard to test, each at its line.

## 2. Modules

| Module | What it is |
|---|---|
| `RunLifecycle` | Abstract specification: what callers of `host.runs.*` may see of a run's status and attempt. |
| `Runs` | The ledger, the leasing loop, job and export tasks, result parts, bound keys, crash, drain and start. |
| `RunsProofs` | Theorems about `Runs`, with proofs. |
| `CancelSlot` | One run, one cancelling call, several sandboxes: registry and slot. |
| `Scheduler` | Schedule triggers, the tool calls on them and the tick. |
| `Deliveries` | Hooks and web hooks, their dedupe, dead letters and replays, receipts and alerts; the executor reduced to what they see of it. |
| `ToolCalls` | A destructive verb called under one idempotency key through the confirmation gate. |
| `Tasks` | `host.task.*` and the deadline sweep. |
| `CancelSlotProofs`, `SchedulerProofs`, `DeliveriesProofs`, `ToolCallsProofs`, `TasksProofs` | Theorems about the module of that name, with proofs. |
| `MCRuns`, `MCCancelSlot`, `MCScheduler`, `MCDeliveries`, `MCToolCalls`, `MCTasks` | Instances for TLC. |

Definitions named "Variant of ..." are deliberately wrong versions of the definition
that follows them; they are not part of any specification. Each one shows that a
property would notice the mistake.

### Runs

`runs[r]` is the row of run `r` (status, whether a tenant's tool or an export,
attempt, and how many parts `result_ref` names); `parts[r]` the part keys in the state
store; `job[r]` the tokio task of the run with a program counter that stops between
any two database calls of `run_one_job` or `run_export_job`; `tick` the leasing loop,
which stops at each of its queries; `key[r]` a delegated key bound to the run, with a
state for a call that has checked the run and not inserted the key; `purging` the
parts a purging call has still to delete; `host` the life of the process. A crash
erases `job`, `tick`, `purging` and unfinished calls and keeps the tables.

`leases` and `records` are history: dispatches and end-of-run records per run.

Abstractions. Tenants and plans are fixed, so a missing tenant or plan (a `continue`
of the loop) does not occur. Time is not counted: a reap may end any set of running
rows, since nothing in the ledger says how late it is; that is more behaviour than the
code has, so what holds here holds there. A job may return a result of any number of
parts, an error or a timeout. Import and export are one tool; the code allows one
running row for each of them. Database errors are modelled where the code goes on after
one: a failed part write, a failed `finalize_run`, a failed query of the tick. The tick's
first two queries (the host's count, the tenants with queued runs) are one step, because
both are read again before a lease. Rows that
are inserted in their final status (`skipped`, `rejected`) never move and are left out,
as are composed step rows (`in_flight`), which neither the caps nor the restart touch.

### CancelSlot

Starts with a leased run whose task has not registered yet. A sandbox goes idle,
spawned, serving, answered, then pooled or over. `Overlap` says whether several round
trips may be in flight, as under a composed or fanned-out tool. Each step holds one
lock, or none. The grace period may end at any moment. A cancel that flips the row and then
finds no slot answers `absent`: the run has ended, or it is leased and its task has not
called `register` yet (see 5).

### Scheduler

The table `triggers`, the run rows with a `trigger_ref`, `tick_once` stopped between
its database calls, and one `host.trigger.set` call stopped between its read and its
write. A cron expression is a period, whose occurrences are the multiples of it; the
calendar walk of `next_after` is left for a module of its own. `epoch` is history: it
counts the updates in place and half-done firings of a trigger, the two things that may
legitimately let an occurrence fire again. The quota of a new trigger is counted and the row
inserted in one step, and one `set` call is in flight at a time: two calls passing the quota
together are not modelled.

### Deliveries

An attempt is one request together with the run id it would use: a delivery to
`POST /hooks/...` (event), one to `POST /hook/{id}` (webhook), or a replay of a letter, a
run or an inbox row. `claim` is the two dedupe tables; `req` where the request stands
between two database calls and, once answered, which attempt's run the answer stands for;
`run` the run row with the tail of its job task (receipt, streak check, letter); `box` the
ring of dead letters with the count of the evicted; `streak` receipts, resume floors and
alerts. `Runs` has the executor in full; here it leases below the ceiling and finishes, and
a drain, a reap or a restart may come between. A crash includes the start that follows it,
with its one requeue. A `finalize_run` that fails ends the task and leaves the row running
(`FinalizeRunFails`), and the replay of a letter may answer an error after its run was queued,
when `set_dead_letter_replayed` fails.

History: all letters ever written, the lapsed dedupe windows; `mislaid`, the attempts whose
letter a fault took (its insert failed, the process died before it, or the row was ended by a
reap or a drain, which write none); and `blurred`, set when a receipt, a resume or a crash
comes between a receipt and the streak check it calls for.

Abstractions. `received_unix` is read with the write of the letter, so the ring is in the
order of the writes. Whether a letter was replayed, the trigger's `last_run_id` and pausing
(other than a webhook that stores without enqueuing) are not kept. Signature checks, rate
limits and body limits are one nondeterministic refusal. `alert_on_streak` reads the receipts,
reads the resume floors and sends the notice in three calls and is one step: a resume between
the reads acts as one before both, and a receipt there is one the check did not see, which
`blurred` excludes either way. A floors read that fails counts as no floor in the code; it is not
modelled apart from a check that fails altogether.

### ToolCalls

`slot` is the `call_results` row of the key; other keys, tools and tenants never meet it.
`call` is where each request stands in `call_tool` and in the gate of
`dispatch_tenant_tool_dry_run`: claim, measure, check, consume, write, give back, finish,
or the release its dropped guard spawned. `token` is `confirm_tokens`, `rows` how many rows
each deletion matches now, which other calls of the tenant change. The diff a token is
bound to is the verb's arguments and the number of rows.

Time counts in whole steps: ages of the row and of a request, capped where the code stops
telling them apart. A second passes only when no request that polls every 25 ms has
something to see. `CallMax` is the longest time from a claim to the commit of its finish,
which the tool's timeout sets (a verb that errs is taken to have written nothing; one that
commits part of its work first is not modelled): `tool_calls` takes it below `WAIT_MAX_SECS`, as for a tool
that answers or times out within 30 s, `tool_calls_slow` above it.

### Tasks

`task` is the table, `thread` the task statuses announced in each thread, `post` and `call`
where each post, claim and complete stands between two database calls. `messaging` is
reduced to one send (delivered, refused, or nothing stored) and replies, which may fail, as may
the read of the row between a completion and its reply and the revert of a completion whose
reply failed. A session knows a task from its message, so it can claim one whose `link_thread`
has not run yet. `credit` is history: who was told that its result completed the task. `unseen`
holds the tasks closed with nobody left to tell the thread: closed before they had one, or by
a completing call that a crash, a failed `load_task` or a failed revert cut short. A refused
reply does not put a task there.

## 3. Runs of TLC

| Run | Instance | Shows |
|---|---|---|
| `runs_safety` | 2 runs of one tenant, 1 job slot, ceiling 2, results of up to 2 parts, state for 2 parts, 2 process deaths, 1 failed call (441 thousand states) | type, tenant cap, complete results, at most two executions, unique records, no task-less running row, single exports, ended rows stay, refinement of `RunLifecycle` |
| `runs_live` | 2 tenants with a run each, ceiling 1, a delegated key, 1 process death, fairness | host ceiling, keys end with runs, every run is served and ends |
| `runs_orphan` | 1 run | violation, see 5 |
| `runs_stuck` | 2 runs, 2 process deaths, fairness | violation, see 5 |
| `cancel_slot` | 3 sandboxes, one round trip at a time | a cancel that finds the slot stops the sandbox in flight and every later one, never a pooled one; both sides end |
| `cancel_overlap` | 3 sandboxes, several at once | violation, see 5 |
| `scheduler` | 1 trigger, periods 1 and 2, time 0..2, 3 calls, 1 mishap | no replay, honest `last_run_id`, one at a time until the first skip, a due trigger is attended |
| `scheduler_overlap` | 1 trigger, time 0..3 | violation, see 5 |
| `deliveries` | 3 attempts in 5 mixes (event, retry and replay of letter or run; events of two keys; webhook, retry and event or replayed row), 1 job slot, ring of 1, streak 2, 1 resume, and 2 faults or 1 fault and a lapsed window (1.2 million states) | one run and one inbox row per key and window; an acknowledged delivery has its run or row unless its claimant failed; letters and alerts are exact; accepted events end, but for abandoned runs and those behind them |
| `tool_calls` | 3 requests (same key and arguments; one with other arguments; one without key), 1 token, wait 2, calls of at most 1, 1 inserted row, 1 fault (491 thousand states) | replays are of the same arguments, the key runs once, an unclaimed dispatch needs two earlier claimants, a token is spent once, everybody is answered |
| `tool_calls_slow` | the same with calls of up to 3, no fault | violation, see 5 |
| `tasks` | 2 posts with and without a shared dedupe key, 2 sessions, 1 open task allowed, deadline 1, 2 faults (340 thousand states) | a thread has one ending, a confirmed completion stands, endings are announced or taken back, no task stays open |

Bounds. Two runs are enough for one to hold the slot and one to wait, and for an export
beside a job; two parts for a result that is half written; two deaths for both branches
of the requeue. With state for two parts and results of two, the quota refuses the second result.
One trigger suffices because triggers share only the quota and the order of a pass;
time 2 gives a firing, an overdue one and a next one for both periods. The bounds on
restarts, faults, calls and mishaps (`MaxRestarts`, `MaxFaults`, `MaxCalls`,
`MaxMishaps`) appear in the guards and nowhere else. No run needs symmetry.

In `deliveries` the code's `ALERT_STREAK` of 3 is 2, so that a streak can be reached,
passed, broken and forgiven by three runs; two keys give a full ring whose letters come
from different deliveries. Two faults are what it takes to lose a run's process twice, or to
lose its `finalize_run` and another's letter, while an accepted run waits for the slot. An ended
window makes a key new again and multiplies the instance, so `MaxUpsets` lets it come with one
fault and not with two. In `tool_calls` three requests are what a takeover needs beside
a waiter; one inserted row is enough to make the deletion need a token and a second one
would only change the number in the diff. In `tasks` two sessions make completions race,
and two faults make a failed reply and a failed revert meet.

Some properties say exactly under which circumstance the plain promise fails:

* `CancelReachesInFlight`: a cancel that found no slot, between the lease and `register`;
* `UnclaimedNeedsTwo`: two takeovers of the key;
* `ClosedWithNotice`: the tasks of `unseen`;
* `AckedIsAccounted`: the duplicates of a claimant that failed or died;
* `LettersAccounted`: a letter that a fault itself took (`mislaid`);
* `OneAlertPerStreak`: overlapping checks (`blurred`);
* `AckedEventEnds`: a run without a task, its `finalize_run` having failed or its process having
  died twice, and the queued runs that wait while such rows fill the ceiling.

The exemptions are facts about the code, found by checking the plain promise first; each
property shows there is no other way. None of them is "some fault happened": a fault excuses the
task, the letter or the run it hit and no other. (`RanOnce`, `RunningIsExecuted` and the second
half of `TokenSpentOnce` are the properties that are silent after a fault.)

Fairness. The executor and scheduler loops are `loop { ...; sleep }` tasks that only
the end of the process stops: weak fairness of `Tick`. A job's task ends by its deadline
(`tokio::time::timeout`): weak fairness of each task. A drain is bounded by its
`bound_s`, and a stopped process is started again by its supervisor: weak fairness of
the drain and start steps. Nothing is assumed of callers: no fairness for cancel, purge
or `admin.runs_reap`. In `CancelSlot` the task's deadline and the grace period of the
cancelling call run out. In `Deliveries`, `ToolCalls` and `Tasks` the runtime polls every
request and task under way (weak fairness of each one's steps, none of its first), the
executor leases and `spawn_sweep` sweeps again and again, and time passes. No sender has to
retry, nobody has to claim, complete, replay or resume, and no fault has to happen.

`EveryRunEnds` is checked with one process death and no failed call. With a second death it does
not hold: that is `runs_stuck`. `RunningIsExecuted` is likewise about deaths, and says nothing once
a call has failed. `AckedEventEnds` is checked with both kinds of fault and names what they leave
open.

## 4. Proofs

Every invariant and action property that a passing run checks, and the refinement, is also
a theorem of its specification, for every value of the constants that satisfies the named
assumptions of its module. The assumptions say that bounds are natural numbers, that sets
something is chosen from are not empty (tenants, triggers, periods, tasks, arguments), that
the sets that are counted over or that need a largest member are finite (`Call`, `Attempt`,
`Period`), and that `WAIT_MAX_SECS` is shorter than the lifetime of a stored outcome, as in the
source; TLC evaluates them in every run. Three theorems have one of two hypotheses of their own
(`~Overlap`, `CallMax < WaitMax`), and for each a run of section 3 shows the property violated
without it.

Almost none of the invariants is inductive: what makes each true is spread over the tables and the
program counters of the calls between two database calls. The invariants below were checked
with TLC on the small instances before they were proved. Where an action changes records or
sequences, a lemma says what it does to each variable (`...Effect`), and the steps of all
invariants are proved from these, one case per action.

### RunsProofs

From `BoundsAssumption`, `CapAssumption` and `OwnerAssumption`:

* `TypeCorrect`, `ResultsAreComplete`, `ExecutionsAreBounded`, `RecordsAreUnique`,
  `RunningRowsHaveTasks`, `ExportsAreSingle`: six of the invariants of `runs_safety`;
* `CapsHold`, `HostCeilingHolds`: both concurrency caps;
* `EndedRunsStay`, `KeysAreRevoked`: the two action properties;
* `LifecycleIsImplemented`: `Runs` implements `RunLifecycle`.

`DoneHasResult` needs to know that a task about to
finalize has stored what it claims (`TaskOK`), that no task can store or finalize for a
row that is done (`RowOK`), and that a purge deletes only what no row names
(`PurgingOK`). `AtMostTwoExecutions` needs that a queued row was leased fewer times than
it has attempts. `RunningIsExecuted` needs that no task outlives its process and that
start-up leaves no first attempt running (`HostOK`). Their conjunction with `TypeOK`,
`OneExportBuild` and `RunningIsExecuted` is `IndInv`; one lemma per action shows that
it is preserved. The caps need `CapsOK` on top: a check the leasing loop has passed
stays true until the lease, because between the two jobs can end but not start, the
loop being the only one that starts them (`NoJobStarts`, `LoopMoves`).

### CancelSlotProofs

`TypeCorrect`; `PoolIsSafe` with or without overlapping round trips, because the slot never
names a pooled sandbox (this one is inductive); `CancelIsEffective` when there is no overlap
(`~Overlap`), by `SoloInv`: a serving sandbox is the one the slot names until it answers, a call
that asked the slot has set its flag, and under the flag nothing alive is serving, because
`set_live` sees it. `cancel_overlap` is the counterexample
with overlap.

### SchedulerProofs

`InvariantHolds`, and from it `TypeCorrect`, `NoReplays`, `LastRunsAreReal` and
`RunsOneAtATime`, for any number of triggers and any finite set of periods. A tick works from
a snapshot while the tenant changes the table, so the argument for `NoReplay` follows the
occurrence: whatever a firing can start from, the row of a trigger (`FireOK`), a due snapshot
or the one taken (`SnapOK`), names an occurrence after every run of the undisturbed record,
and no run is later than the tick under way (`RowOK`); `next_after` is strictly after the tick
(`NextAfterInHorizon`). The exception is a trigger whose run is inserted and not recorded
(`Halfway`), which only the tick itself, or a failure that disturbs the record, can leave.
`LastRunIsReal` needs that the newest scheduled run of that trigger is the one just inserted
(`InsertOK`). `OneAtATime` needs `OpenOK`: an open run is the newest of its trigger, and none
is open when the pass is about to enqueue one. Types depend on these, since `last_run_id` is
read back from the table; so all are one induction.

### DeliveriesProofs

`TypeCorrect`, `KeyFiresOnce`, `AnswersAreTrue`, `LettersAreKept`, `AlertsAreExact`.
`RequestInv` says that the claimant of a key has its run or row, is on its way to it, or
broke off (`ClaimOK`), and counts the attempts that fired or may still fire under a key against its
dedupe windows: the count is the strengthening `OneRunPerKey` needs, since a claimed request
fires several calls later. `BoxInv` is the ring as the end of all letters ever written, with
its counter; `LetterInv` adds what each request and each task still owes, unless a fault took it. `StreakInv` says that while nothing
blurred the receipts at most one check is pending, and that the alerts are the long streaks
but the one this check is about to find; the lemmas under it follow the set of long streaks
through an appended receipt and a resume.

### ToolCallsProofs

`TypeCorrect`, `TokensAreSpentOnce` and `UnclaimedIsRare` hold for any clocks. `TokenOK` says
who holds a used token: at most one request between its consumption and its giving back, and
without a fault somebody. `WaitInv` counts claims: whoever waits longer than the claim it
finds has seen two. `ReplaysMatch` and `KeyedRunsOnce` need that a dispatch ends before
`WAIT_MAX_SECS` (`CallMax < WaitMax`, the setting of `tool_calls`): then the row of the key is
the claim of the one request that holds it, exactly as old as its dispatch (`ClaimInv`), and no takeover
can find it. `tool_calls_slow` is the counterexample without it.

### TasksProofs

`TypeCorrect`, `ClosingsExclude`, `CompletionsStick`, `ClosingsAreTold`, all from `TaskInv`: a
completion between its UPDATE and its answer owns the row, which is done with this session's
result and not announced, or gone with its failed post (`CompletionOK`); what the thread and the answer
say is true of the row (`ClosingOK`); a closed task has its message, has its completion under
way, or is in `unseen` (`NoticeOK`).

### Only model-checked

The liveness properties (`EveryRunEnds`, `CancelAnswers`, `TaskEndsClean`,
`DueIsAttended`, `EveryCallAnswers`, `EveryTaskCloses`, `AckedEventEnds`): fairness and ENABLED
are beyond this prover. The five violations are counterexamples TLC finds, and no theorem is
about them.

## 5. What disagrees with the repository's own words

* `runs_orphan`: `finalize_run`'s doc says a lost race writes nothing. The parts are
  written before it is called, and a run cancelled meanwhile leaves them in the tenant's
  quota for good.
* `runs_stuck`: `requeue_interrupted_runs_once`'s doc says `reap_expired_runs` eventually
  catches a run that crashed twice. Only a further restart or an operator calls it; until
  then the row holds a job slot.
* `cancel_overlap`: `kinds/mod.rs` says a cancel kills whichever sandbox, parent or
  child, is in flight. Nested and parallel round trips share one pid.
* `scheduler_overlap`: `tick_once`'s doc says an overrunning monitor never piles up. The
  `skipped` row of one overlap hides the open run from the next overlap check, so every
  second firing starts another execution.
* `tool_calls_slow`: `idempotency.rs` says a repeat with the same key and arguments returns
  the stored result. `idem_finish` does not ask whether the row is still its caller's; a
  tool may declare a timeout of 60 s, a claim is taken over after 30 s, and the slow call
  then stores its result under the arguments of the request that took over.

Seen while modelling, without a run of their own:

* `migrations/0092_confirm_tokens.sql:9` says `used_unix` is set in the same transaction as
  the write it authorises. `confirm_token_consume` is a call of its own before the write, so
  a crash or a dropped request in between burns the token (`Drop`, `Crash` of `ToolCalls`).
* `tasks.rs:440` says "No completion without its message". A task completed between the
  commit of its message and `link_thread` has no thread and is announced nowhere (`unseen`);
  so is one whose deadline passes there. A crash, a failed `load_task` after the UPDATE (the `?`
  at line 423 returns before any revert) or a failed revert also leaves one.
* `runs.rs:65-68` and `195-199` say that a run leased `running` whose child does not exist yet is
  flagged and its child killed, and `157-158` that an id absent from the registry is queued or
  already terminal. Between the lease (`1773`) and the task's `register` (`1555`) the row is
  running and the id absent: a cancel there flips the row, flags nobody, answers false, and the
  job then runs to its end or its deadline (`call = "absent"` in `CancelSlot`).
* A failed `finalize_run` (`runs.rs:1668`) and a second process death both leave a running row
  without a task. It counts against `jobs_concurrent`, so with few slots other accepted deliveries
  are not leased until a reap (`Abandoned` in `Deliveries`).
* `replay_dead_letter` (`hooks.rs:1721-1724`) answers an error when marking the letter fails,
  though the run is queued: a caller that repeats the replay runs the tool twice.
* `webhooks.rs:528` says of a duplicate that "the original row is still the tenant's only
  row". If the first delivery's insert was refused after its claim, there is none, and the
  duplicate is answered 200. A duplicate event is likewise told the id of a run that was
  never inserted, when the claimant failed (the exemption in `AckedIsAccounted`).
* `deadletters.rs:1` says every event-fired run that finalized `error` is a dead letter. One
  ended by a reap or a drain is not, nor is a failed replay of a run id, whose `trigger_ref`
  is the original run (the doc of `record_run_error` does say so).
* `receipts.rs:296` says "exactly when the trigger's failure streak reaches ALERT_STREAK,
  one message". Two runs whose receipts are both inserted before either checks send none
  or two (`blurred`).
* `hooks.rs:1581` says a replayed run re-enqueues the original's `args_json`. A rejected
  run has none, so replaying it by run id calls the tool with `{}`; replaying its letter
  does not.

## 6. Not modelled, and the plan

The repository has about 177 thousand lines in 224 files and the map names about 4
thousand of them. Most of the rest is request parsing, query text, formatting, HTTP, tool
runtimes, generators and tests inside the sources: code whose correctness is not a matter of
interleaving or failure. What remains worth a model, in this order:

1. `Budget` and progress: limits written after the queued row (`runs.rs:1035`), counters
   read and written back (`runs.rs:823`).
2. `Asks`: one answer per ask, expiry racing an answer.
3. The hosted authorization server's codes and refresh-token rotation, and concurrent
   refreshes of one upstream token in the vault.
4. Delegated keys in full: depth, cascade, TTL, session binding.
5. `Cron`: `next_after` as a pure algorithm against a reference definition over a small
   calendar; message triggers beside `Deliveries`; the listen hub.
6. Proofs: what the theorems' exceptions leave open, such as how an idempotency key behaves
   across a fault (`RanOnce` is silent then), abstract specifications of a delivery key and of
   a confirmation token with the refinement proved, and the action properties that say
   what a step of the tick or of a completion may never do.

Left out for good: query text and CRUD over tenant data, sandboxes and the operating
system, cryptography and token formats, HTTP and MCP framing, generators and the CLI.
