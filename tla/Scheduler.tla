----------------------------- MODULE Scheduler -----------------------------
(***************************************************************************)
(* Schedule triggers: host.trigger.set, pause, resume, remove and fire of  *)
(* src/triggers.rs, and the scheduler's tick_once, which reads the due     *)
(* rows of table `triggers` once and then works through that snapshot with *)
(* separate database calls. The executor is abstracted to runs that start  *)
(* and end (module Runs has its detail). Time is counted in units in which *)
(* a schedule of period p has its occurrences at the multiples of p.       *)
(***************************************************************************)
EXTENDS Integers, FiniteSets, Sequences

CONSTANTS
    Trigger,        \* trigger ids
    Period,         \* schedules, by their period
    SchedulesMax,   \* plan.schedules_max of the one tenant
    MaxTime,        \* bound: the clock
    MaxCalls,       \* bound: tool calls
    MaxMishaps      \* bound: process deaths plus failed database calls of a tick

ASSUME ScheduleAssumption ==
    /\ Trigger # {} /\ Period # {} /\ Period \subseteq Nat \ {0} /\ IsFiniteSet(Period)
    /\ {SchedulesMax, MaxTime, MaxCalls, MaxMishaps} \subseteq Nat

VARIABLES
    clock,
    trig,    \* table triggers
    rows,    \* the rows of table runs with a trigger_ref, by rowid
    pass,    \* tick_once
    call,    \* the host.trigger.set call in flight
    calls, mishaps,
    epoch    \* history: how often the trigger's firing record was disturbed

vars == <<clock, trig, rows, pass, call, calls, mishaps, epoch>>

-----------------------------------------------------------------------------
(* Types.                                                                  *)

Open == {"queued", "running"}

\* The latest occurrence a next_unix can name.
Horizon == MaxTime + CHOOSE p \in Period : \A q \in Period : q <= p

\* state new: not created yet; last is an index of rows, 0 for NULL.
TriggerRow == [state : {"new", "there", "removed"}, enabled : BOOLEAN, schedule : Period,
               next : 0..Horizon, last : Nat]

\* due and at: the next_unix that made the run due, and the tick's now.
RunRow == [trigger : Trigger, status : Open \cup {"ended", "skipped"}, manual : BOOLEAN,
           due : 0..Horizon, at : 0..MaxTime, epoch : Nat]

Snapshot == [id : Trigger, schedule : Period, next : 0..Horizon]

\* next: about to take a due row; insert: the overlap check is done; update: a
\* run row is inserted, update_trigger_after_fire is not called yet.
Pass == [pc : {"idle", "next", "insert", "update"}, now : 0..MaxTime, due : SUBSET Snapshot,
         cur : SUBSET Snapshot, overlapping : BOOLEAN]

Idle == [pc |-> "idle", now |-> 0, due |-> {}, cur |-> {}, overlapping |-> FALSE]

\* want: the schedule of the arguments; old: the existing row, if there is one.
SetCall == [id : Trigger, want : Period, old : SUBSET Snapshot, now : 0..MaxTime]

TypeOK ==
    /\ clock \in 0..MaxTime
    /\ trig \in [Trigger -> TriggerRow]
    /\ rows \in Seq(RunRow)
    /\ pass \in Pass
    /\ call \subseteq SetCall /\ Cardinality(call) <= 1
    /\ calls \in 0..MaxCalls /\ mishaps \in 0..MaxMishaps
    /\ epoch \in [Trigger -> Nat]

Init ==
    /\ clock = 0
    /\ trig = [t \in Trigger |-> [state |-> "new", enabled |-> TRUE, next |-> 0, last |-> 0,
                                  schedule |-> CHOOSE p \in Period : TRUE]]
    /\ rows = <<>>
    /\ pass = Idle
    /\ call = {}
    /\ calls = 0 /\ mishaps = 0
    /\ epoch = [t \in Trigger |-> 0]

-----------------------------------------------------------------------------
(* Queries.                                                                *)

\* Variant of NextAfter that is off by one period.
NextAfterNext(p, now) == ((now \div p) + 2) * p

\* CronSchedule::next_after: the first occurrence strictly after now.
NextAfter(p, now) == ((now \div p) + 1) * p

There == {t \in Trigger : trig[t].state = "there"}

SnapshotOf(t) == [id |-> t, schedule |-> trig[t].schedule, next |-> trig[t].next]

Indices(t) == {i \in DOMAIN rows : rows[i].trigger = t}

\* Variant of Overlapping that looks for a running run only.
OverlapRunning(t) ==
    \E i \in Indices(t) : rows[i].status = "running" /\ \A j \in Indices(t) : j <= i

\* last_run_status_for_trigger: the status of the trigger's newest row.
Overlapping(t) ==
    \E i \in Indices(t) : rows[i].status \in Open /\ \A j \in Indices(t) : j <= i

\* Variant of Due that leaves overlapping triggers out instead of skipping them.
DueNotOverlapping(now) ==
    {t \in There : trig[t].enabled /\ trig[t].next <= now /\ ~Overlapping(t)}

\* due_schedule_triggers
Due(now) == {t \in There : trig[t].enabled /\ trig[t].next <= now}

-----------------------------------------------------------------------------
(* Tool calls.                                                             *)

\* host.trigger.set looks the name up; set_schedule takes the time.
SetRead(t, p) ==
    /\ call = {}
    /\ calls < MaxCalls
    /\ trig[t].state # "removed"
    /\ calls' = calls + 1
    /\ call' = {[id |-> t, want |-> p, now |-> clock,
                 old |-> IF t \in There THEN {SnapshotOf(t)} ELSE {}]}
    /\ UNCHANGED <<clock, trig, rows, pass, mishaps, epoch>>

\* A new trigger, within the plan's quota. Count and insert are two calls in the code;
\* here they are one step, so two set calls never pass the quota together.
SetCreate(c) ==
    /\ c \in call
    /\ c.old = {}
    /\ call' = {}
    /\ trig' = IF Cardinality(There) < SchedulesMax
               THEN [trig EXCEPT ![c.id] = [state |-> "there", enabled |-> TRUE,
                                            schedule |-> c.want,
                                            next |-> NextAfter(c.want, c.now), last |-> 0]]
               ELSE trig
    /\ UNCHANGED <<clock, rows, pass, calls, mishaps, epoch>>

\* An update in place. A new schedule, or new args or tz under the old one, takes
\* a new next_unix; a new tool alone writes back the next_unix that was read; no
\* change writes nothing. What it does to a row removed meanwhile is lost.
SetUpdate(c) ==
    /\ c \in call
    /\ call' = {}
    /\ \E old \in c.old :
         \/ /\ c.id \in There
            /\ \E n \in {NextAfter(c.want, c.now)}
                          \cup (IF c.want = old.schedule THEN {old.next} ELSE {}) :
                 trig' = [trig EXCEPT ![c.id].schedule = c.want, ![c.id].next = n]
            /\ epoch' = [epoch EXCEPT ![c.id] = @ + 1]
         \/ /\ c.want = old.schedule \/ c.id \notin There
            /\ UNCHANGED <<trig, epoch>>
    /\ UNCHANGED <<clock, rows, pass, calls, mishaps>>

\* host.trigger.pause, and disable_triggers_for_tool when the tool is removed.
Pause(t) ==
    /\ t \in There
    /\ calls < MaxCalls
    /\ calls' = calls + 1
    /\ trig[t].enabled
    /\ trig' = [trig EXCEPT ![t].enabled = FALSE]
    /\ UNCHANGED <<clock, rows, pass, call, mishaps, epoch>>

\* host.trigger.resume leaves next_unix as it was.
Resume(t) ==
    /\ t \in There
    /\ calls < MaxCalls
    /\ calls' = calls + 1
    /\ ~trig[t].enabled
    /\ trig' = [trig EXCEPT ![t].enabled = TRUE]
    /\ UNCHANGED <<clock, rows, pass, call, mishaps, epoch>>

Remove(t) ==
    /\ t \in There
    /\ calls < MaxCalls
    /\ calls' = calls + 1
    /\ trig' = [trig EXCEPT ![t].state = "removed", ![t].next = 0, ![t].last = 0]
    /\ UNCHANGED <<clock, rows, pass, call, mishaps, epoch>>

\* host.trigger.fire enqueues a run, whatever next_unix and enabled say.
Fire(t) ==
    /\ t \in There
    /\ calls < MaxCalls
    /\ calls' = calls + 1
    /\ rows' = Append(rows, [trigger |-> t, status |-> "queued", manual |-> TRUE,
                             due |-> 0, at |-> 0, epoch |-> 0])
    /\ UNCHANGED <<clock, trig, pass, call, mishaps, epoch>>

-----------------------------------------------------------------------------
(* One scheduler tick.                                                     *)

TickStart ==
    /\ pass.pc = "idle"
    /\ pass' = [Idle EXCEPT !.pc = "next", !.now = clock,
                            !.due = {SnapshotOf(t) : t \in Due(clock)}]
    /\ UNCHANGED <<clock, trig, rows, call, calls, mishaps, epoch>>

\* The longest overdue row of the snapshot is next; is its newest run open?
TickOverlap ==
    /\ pass.pc = "next"
    /\ \E row \in pass.due :
         /\ \A other \in pass.due : row.next <= other.next
         /\ pass' = [pass EXCEPT !.pc = "insert", !.due = @ \ {row}, !.cur = {row},
                                 !.overlapping = Overlapping(row.id)]
    /\ UNCHANGED <<clock, trig, rows, call, calls, mishaps, epoch>>

\* insert_skipped_run or insert_queued_run.
TickInsert ==
    /\ pass.pc = "insert"
    /\ pass' = [pass EXCEPT !.pc = "update"]
    /\ \E row \in pass.cur :
         rows' = Append(rows, [trigger |-> row.id, manual |-> FALSE, due |-> row.next,
                               status |-> IF pass.overlapping THEN "skipped" ELSE "queued",
                               at |-> pass.now, epoch |-> epoch[row.id]])
    /\ UNCHANGED <<clock, trig, call, calls, mishaps, epoch>>

\* The newest row of the trigger that its scheduled firing inserted.
LastScheduled(t) ==
    CHOOSE i \in Indices(t) :
        ~rows[i].manual /\ \A j \in Indices(t) : ~rows[j].manual => j <= i

\* Variant of TickUpdate that advances from the occurrence instead of the time.
TickUpdateReplays ==
    /\ pass.pc = "update"
    /\ pass' = [pass EXCEPT !.pc = "next", !.cur = {}]
    /\ \E row \in pass.cur :
         trig' = IF row.id \in There
                 THEN [trig EXCEPT
                         ![row.id].next = NextAfter(row.schedule, row.next),
                         ![row.id].last = IF pass.overlapping THEN @ ELSE LastScheduled(row.id)]
                 ELSE trig
    /\ UNCHANGED <<clock, rows, call, calls, mishaps, epoch>>

\* Variant of TickUpdate that records a skipped firing as the last run.
TickUpdateClobbers ==
    /\ pass.pc = "update"
    /\ pass' = [pass EXCEPT !.pc = "next", !.cur = {}]
    /\ \E row \in pass.cur :
         trig' = IF row.id \in There
                 THEN [trig EXCEPT
                         ![row.id].next = NextAfter(row.schedule, pass.now),
                         ![row.id].last = LastScheduled(row.id)]
                 ELSE trig
    /\ UNCHANGED <<clock, rows, call, calls, mishaps, epoch>>

\* update_trigger_after_fire, from the snapshot's schedule and the tick's time; a
\* skipped firing keeps last_run_id.
TickUpdate ==
    /\ pass.pc = "update"
    /\ pass' = [pass EXCEPT !.pc = "next", !.cur = {}]
    /\ \E row \in pass.cur :
         trig' = IF row.id \in There
                 THEN [trig EXCEPT
                         ![row.id].next = NextAfter(row.schedule, pass.now),
                         ![row.id].last = IF pass.overlapping THEN @ ELSE LastScheduled(row.id)]
                 ELSE trig
    /\ UNCHANGED <<clock, rows, call, calls, mishaps, epoch>>

TickEnd ==
    /\ pass.pc = "next"
    /\ pass.due = {}
    /\ pass' = Idle
    /\ UNCHANGED <<clock, trig, rows, call, calls, mishaps, epoch>>

\* The firing a pass leaves half done: inserted and not recorded.
Disturbed == {row.id : row \in IF pass.pc = "update" THEN pass.cur ELSE {}}

Disturb == epoch' = [t \in Trigger |-> IF t \in Disturbed THEN epoch[t] + 1 ELSE epoch[t]]

\* A database call fails: `?` leaves tick_once, and the loop tries again later.
TickFails ==
    /\ pass.pc # "idle"
    /\ mishaps < MaxMishaps
    /\ mishaps' = mishaps + 1
    /\ pass' = Idle
    /\ Disturb
    /\ UNCHANGED <<clock, trig, rows, call, calls>>

-----------------------------------------------------------------------------
(* The executor, the clock and the process.                                *)

StartRun(i) ==
    /\ rows[i].status = "queued"
    /\ rows' = [rows EXCEPT ![i].status = "running"]
    /\ UNCHANGED <<clock, trig, pass, call, calls, mishaps, epoch>>

\* A run ends by itself, by a cancel, or by a reap.
EndRun(i) ==
    /\ rows[i].status \in Open
    /\ rows' = [rows EXCEPT ![i].status = "ended"]
    /\ UNCHANGED <<clock, trig, pass, call, calls, mishaps, epoch>>

Advance ==
    /\ clock < MaxTime
    /\ clock' = clock + 1
    /\ UNCHANGED <<trig, rows, pass, call, calls, mishaps, epoch>>

\* The process dies and starts again: running rows are queued again or, on their
\* second attempt, left alone.
Restart ==
    /\ mishaps < MaxMishaps
    /\ mishaps' = mishaps + 1
    /\ pass' = Idle
    /\ call' = {}
    /\ Disturb
    /\ \E S \in SUBSET {i \in DOMAIN rows : rows[i].status = "running"} :
         rows' = [i \in DOMAIN rows |->
                    IF i \in S THEN [rows[i] EXCEPT !.status = "queued"] ELSE rows[i]]
    /\ UNCHANGED <<clock, trig, calls>>

-----------------------------------------------------------------------------

Tick == TickStart \/ TickOverlap \/ TickInsert \/ TickUpdate \/ TickEnd

Call ==
    \/ \E t \in Trigger : (\E p \in Period : SetRead(t, p))
                            \/ Pause(t) \/ Resume(t) \/ Remove(t) \/ Fire(t)
    \/ \E c \in call : SetCreate(c) \/ SetUpdate(c)

Next ==
    \/ Tick \/ TickFails
    \/ Call
    \/ \E i \in DOMAIN rows : StartRun(i) \/ EndRun(i)
    \/ Advance \/ Restart

\* The scheduler's loop is never stopped while the process lives. Nothing is
\* assumed of callers, of jobs or of the clock.
Spec == Init /\ [][Next]_vars /\ WF_vars(Tick)

-----------------------------------------------------------------------------
(* Properties.                                                             *)

Scheduled(t) == {i \in Indices(t) : ~rows[i].manual}

Enqueued(t) == {i \in Scheduled(t) : rows[i].status # "skipped"}

\* triggers.rs tick_once, resume ("there was only ever one `next_unix` to miss,
\* never a backlog"): however late a tick comes, and whether or not it skips, the
\* next firing of the trigger is for an occurrence after that tick. Only an
\* update in place, or a firing left half done, may disturb this.
NoReplay ==
    \A t \in Trigger : \A i, j \in Scheduled(t) :
        i < j /\ rows[i].epoch = rows[j].epoch => rows[j].due > rows[i].at

\* db.rs update_trigger_after_fire: last_run_id names a run that this trigger
\* really enqueued by schedule, and the newest one when no pass was cut short.
LastRunIsReal ==
    \A t \in There :
        /\ trig[t].last # 0 => trig[t].last \in Enqueued(t)
        /\ mishaps = 0 /\ (\A row \in pass.cur : row.id # t)
             => \A i \in Enqueued(t) : i <= trig[t].last

\* triggers.rs tick_once: while a trigger never skipped and was never fired by
\* hand, the overlap check keeps its runs one at a time, through restarts and
\* failed passes.
OneAtATime ==
    \A t \in Trigger :
        (\A i \in Indices(t) : ~rows[i].manual /\ rows[i].status # "skipped")
          => Cardinality({i \in Indices(t) : rows[i].status \in Open}) <= 1

\* triggers.rs spawn_scheduler, tick_once: a due, enabled trigger is attended at
\* last, whatever the tenant does to it meanwhile and though a pass fails or the process
\* restarts.
DueIsAttended ==
    \A t \in Trigger : \A n \in 0..MaxTime :
        (t \in There /\ trig[t].enabled /\ trig[t].next = n /\ n <= clock)
          ~> (t \notin There \/ ~trig[t].enabled \/ trig[t].next # n)

\* triggers.rs tick_once ("so an overrunning monitor never piles up concurrent
\* executions of itself"): scheduled runs of one trigger never run side by side.
NoConcurrentExecutions ==
    \A t \in Trigger : Cardinality({i \in Enqueued(t) : rows[i].status = "running"}) <= 1
=============================================================================
