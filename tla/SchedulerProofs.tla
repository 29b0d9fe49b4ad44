-------------------------- MODULE SchedulerProofs --------------------------
(***************************************************************************)
(* Theorems about module Scheduler, for any triggers, periods and bounds.  *)
(* A tick works from a snapshot while the tenant changes the rows, so what *)
(* keeps a trigger from firing twice for one occurrence is spread over the *)
(* snapshot, the row and the runs: whatever a firing can start from names  *)
(* an occurrence after every run of the undisturbed record (FireOK and     *)
(* SnapOK), and a tick is no earlier than any run (RowOK).                 *)
(***************************************************************************)
EXTENDS Scheduler, FiniteSetTheorems, SequenceTheorems, WellFoundedInduction, TLAPS

-----------------------------------------------------------------------------
(* The inductive invariant.                                                *)

\* A run of no trigger that was never created; no run from a later epoch or time.
RowOK(i) ==
    /\ trig[rows[i].trigger].state # "new"
    /\ rows[i].epoch <= epoch[rows[i].trigger]
    /\ rows[i].at <= clock
    /\ pass.pc # "idle" => rows[i].at <= pass.now

\* A pass holds each due trigger once, and takes one at a time.
PassOK ==
    /\ pass.pc \in {"idle", "next"} => pass.cur = {}
    /\ pass.pc = "idle" => pass.due = {}
    /\ \A x, y \in pass.due : x.id = y.id => x = y
    /\ \A x, y \in pass.cur : x = y
    /\ \A x \in pass.cur, y \in pass.due : x.id # y.id
    /\ \A x \in pass.cur \cup pass.due : trig[x.id].state # "new"
    /\ pass.pc # "idle" => pass.now <= clock

\* A trigger that host.trigger.set found missing is still missing.
CallOK == \A c \in call : c.old = {} => trig[c.id].state = "new"

\* Every scheduled run of t in the current epoch was inserted before n.
AfterAll(t, n) ==
    \A i \in DOMAIN rows :
        rows[i].trigger = t /\ ~rows[i].manual /\ rows[i].epoch = epoch[t] => rows[i].at < n

\* The firing of t is inserted and not recorded.
Halfway(t) == pass.pc = "update" /\ \E row \in pass.cur : row.id = t

FireOK(t) == trig[t].state = "there" /\ ~Halfway(t) => AfterAll(t, trig[t].next)

SnapOK ==
    /\ \A row \in pass.due : AfterAll(row.id, row.next)
    /\ pass.pc = "insert" => \A row \in pass.cur : AfterAll(row.id, row.next)

FireInv ==
    /\ \A i \in DOMAIN rows : RowOK(i)
    /\ PassOK /\ CallOK /\ SnapOK
    /\ \A t \in Trigger : FireOK(t)

\* The newest scheduled run of the trigger under way is the one just inserted.
InsertOK ==
    pass.pc = "update" =>
        \A row \in pass.cur :
            \E i \in Scheduled(row.id) :
                /\ \A j \in Scheduled(row.id) : j <= i
                /\ ~pass.overlapping => rows[i].status # "skipped"

LastOK(t) ==
    trig[t].state = "there" =>
        /\ trig[t].last # 0 => trig[t].last \in Enqueued(t)
        /\ mishaps = 0 /\ ~(Halfway(t) /\ ~pass.overlapping)
             => \A i \in Enqueued(t) : i <= trig[t].last

LastInv == InsertOK /\ \A t \in Trigger : LastOK(t)

\* Never fired by hand and never skipped.
Plain(t) == \A i \in DOMAIN rows :
                rows[i].trigger = t => ~rows[i].manual /\ rows[i].status # "skipped"

\* An open run is the newest, and there is none when the pass is about to insert one.
OpenOK(t) ==
    Plain(t) =>
        /\ \A i, j \in DOMAIN rows :
             rows[i].trigger = t /\ rows[j].trigger = t /\ rows[i].status \in Open => j <= i
        /\ pass.pc = "insert" /\ ~pass.overlapping /\ (\E row \in pass.cur : row.id = t)
             => \A i \in DOMAIN rows : rows[i].trigger = t => rows[i].status \notin Open

OpenInv == \A t \in Trigger : OpenOK(t)

-----------------------------------------------------------------------------
(* Time.                                                                   *)

\* A finite set of periods has a longest one.
LEMMA LongestExists ==
    ASSUME NEW S, S \subseteq Nat, IsFiniteSet(S), S # {}
    PROVE  \E m \in S : \A y \in S : y <= m
<1> DEFINE From(x) == {y \in S : x <= y}
           T == {From(x) : x \in S}
<1>1. \A x \in S : From(x) \subseteq S
  OBVIOUS
<1>2. FiniteSubsetsOf(S) = SUBSET S
  BY FS_FiniteSubsetsOfFinite
<1>3. IsWellFoundedOn(StrictSubsetOrdering(S), SUBSET S)
  BY <1>2, FS_StrictSubsetOrderingWellFounded
<1>4. T \subseteq SUBSET S /\ T # {}
  BY <1>1
<1>5. \E s \in T : \A u \in T : ~(<<u, s>> \in StrictSubsetOrdering(S))
  <2> HIDE DEF T
  <2> QED BY <1>3, <1>4, WFMin
<1>6. PICK x \in S : \A y \in S : ~(<<From(y), From(x)>> \in StrictSubsetOrdering(S))
  BY <1>5
<1>7. ASSUME NEW y \in S, x < y
      PROVE  FALSE
  <2>1. From(y) \subseteq From(x) /\ From(y) # From(x)
    <3>1. x \in From(x) /\ x \notin From(y)
      BY <1>7
    <3>2. \A z \in S : y <= z => x <= z
      BY <1>7
    <3>3. From(y) \subseteq From(x)
      BY <3>2
    <3> HIDE DEF From
    <3> QED BY <3>1, <3>3
  <2>2. <<From(y), From(x)>> \in StrictSubsetOrdering(S)
    <3>1. From(y) \in SUBSET S /\ From(x) \in SUBSET S
      BY <1>1
    <3> HIDE DEF From
    <3> QED BY <2>1, <3>1 DEF StrictSubsetOrdering
  <2> QED BY <1>6, <2>2
<1>8. \A y \in S : y <= x
  BY <1>7
<1> QED BY <1>8

\* next_after names an occurrence after now, and no further than a period away.
LEMMA NextAfterBounds ==
    ASSUME NEW p \in Nat \ {0}, NEW now \in Nat
    PROVE  NextAfter(p, now) \in Nat /\ now < NextAfter(p, now) /\ NextAfter(p, now) <= now + p
<1> DEFINE q == now \div p
           m == now % p
<1>1. q \in Nat /\ m \in 0..(p - 1) /\ now = p * q + m
  OBVIOUS
<1> HIDE DEF q, m
<1>2. (q + 1) * p = p * q + p /\ p * q \in Nat
  BY <1>1
<1> DEFINE z == p * q
<1>3. z \in Nat /\ now = z + m /\ (q + 1) * p = z + p
  BY <1>1, <1>2
<1> HIDE DEF z
<1>4. z + p \in Nat /\ now < z + p /\ z + p <= now + p
  BY <1>1, <1>3
<1> QED BY <1>3, <1>4 DEF NextAfter, q

\* So a next_unix stays within the horizon.
LEMMA NextAfterInHorizon ==
    ASSUME NEW p \in Period, NEW now \in 0..MaxTime
    PROVE  NextAfter(p, now) \in 0..Horizon /\ now < NextAfter(p, now)
<1>1. \E m \in Period : \A y \in Period : y <= m
  BY ScheduleAssumption, LongestExists
<1> DEFINE m == CHOOSE x \in Period : \A y \in Period : y <= x
<1>2. m \in Period /\ p <= m
  BY <1>1
<1> HIDE DEF m
<1>3. m \in Nat /\ p \in Nat \ {0} /\ now \in Nat /\ MaxTime \in Nat /\ now <= MaxTime
  BY <1>2, ScheduleAssumption
<1>4. NextAfter(p, now) \in Nat /\ now < NextAfter(p, now) /\ NextAfter(p, now) <= now + p
  BY <1>3, NextAfterBounds
<1>5. Horizon = MaxTime + m
  BY DEF Horizon, m
<1> HIDE DEF NextAfter, Horizon
<1> QED BY <1>2, <1>3, <1>4, <1>5

\* The bounds of the clock and of next_unix are natural numbers.
LEMMA HorizonType == Horizon \in Nat /\ MaxTime \in Nat
<1>1. \E m \in Period : \A y \in Period : y <= m
  BY ScheduleAssumption, LongestExists
<1> DEFINE m == CHOOSE x \in Period : \A y \in Period : y <= x
<1>2. m \in Period
  BY <1>1
<1>3. Horizon = MaxTime + m
  BY DEF Horizon
<1> HIDE DEF m
<1> QED BY <1>2, <1>3, ScheduleAssumption

-----------------------------------------------------------------------------
(* What each action does to the runs and the pass.                         *)

\* The runs are the same but for their status; none is skipped or opened anew.
RowsKept ==
    /\ rows' \in Seq(RunRow) /\ DOMAIN rows' = DOMAIN rows
    /\ \A i \in DOMAIN rows :
         /\ rows'[i].trigger = rows[i].trigger /\ rows'[i].manual = rows[i].manual
         /\ rows'[i].due = rows[i].due /\ rows'[i].at = rows[i].at /\ rows'[i].epoch = rows[i].epoch
         /\ rows'[i].status = "skipped" <=> rows[i].status = "skipped"
         /\ rows'[i].status \in Open => rows[i].status \in Open

\* One run is added at the end.
RowAdded(r) ==
    /\ rows' \in Seq(RunRow) /\ Len(rows') = Len(rows) + 1
    /\ DOMAIN rows' = 1..(Len(rows) + 1) /\ DOMAIN rows = 1..Len(rows) /\ Len(rows) \in Nat
    /\ rows'[Len(rows) + 1] = r
    /\ \A i \in DOMAIN rows : rows'[i] = rows[i]

\* Appending a run row adds it and keeps the others.
LEMMA AppendAdds ==
    ASSUME rows \in Seq(RunRow), NEW r \in RunRow, rows' = Append(rows, r)
    PROVE  RowAdded(r)
BY DEF RowAdded

\* A step that leaves the table alone keeps its rows.
LEMMA StutterKeeps == rows \in Seq(RunRow) /\ rows' = rows => RowsKept
BY DEF RowsKept

\* The executor changes the status of an open run only, and never to skipped.
LEMMA StatusKeeps ==
    ASSUME rows \in Seq(RunRow), NEW i \in DOMAIN rows, NEW s \in {"running", "ended"},
           rows[i].status \in Open, rows' = [rows EXCEPT ![i].status = s]
    PROVE  RowsKept
<1> DEFINE q == [rows[i] EXCEPT !.status = s]
<1>1. rows[i] \in RunRow /\ DOMAIN rows = 1..Len(rows)
  BY LenProperties
<1>2. /\ q \in RunRow /\ q.trigger = rows[i].trigger /\ q.manual = rows[i].manual
      /\ q.due = rows[i].due /\ q.at = rows[i].at /\ q.epoch = rows[i].epoch /\ q.status = s
  BY <1>1 DEF RunRow, Open
<1>3. rows' = [rows EXCEPT ![i] = q]
  OBVIOUS
<1> HIDE DEF q
<1>4. rows' \in Seq(RunRow)
  BY <1>1, <1>2, <1>3, ExceptSeq
<1>5. DOMAIN rows' = DOMAIN rows /\ rows'[i] = q /\ \A j \in DOMAIN rows : j # i => rows'[j] = rows[j]
  BY <1>3
<1> QED BY <1>2, <1>4, <1>5 DEF RowsKept, Open

\* The requeue at start-up changes the status of running runs only.
LEMMA RestartKeeps ==
    ASSUME rows \in Seq(RunRow), NEW S, \A i \in S : rows[i].status = "running",
           rows' = [i \in DOMAIN rows |->
                      IF i \in S THEN [rows[i] EXCEPT !.status = "queued"] ELSE rows[i]]
    PROVE  RowsKept
<1>1. DOMAIN rows = 1..Len(rows) /\ Len(rows) \in Nat /\ \A i \in DOMAIN rows : rows[i] \in RunRow
  BY LenProperties
<1>2. ASSUME NEW i \in DOMAIN rows
      PROVE  /\ rows'[i] \in RunRow
             /\ rows'[i].trigger = rows[i].trigger /\ rows'[i].manual = rows[i].manual
             /\ rows'[i].due = rows[i].due /\ rows'[i].at = rows[i].at /\ rows'[i].epoch = rows[i].epoch
             /\ rows'[i].status = "skipped" <=> rows[i].status = "skipped"
             /\ rows'[i].status \in Open => rows[i].status \in Open
  <2>1. CASE i \in S
    <3>1. rows'[i] = [rows[i] EXCEPT !.status = "queued"] /\ rows[i] \in RunRow
      BY <1>1, <2>1
    <3> QED BY <2>1, <3>1 DEF RunRow, Open
  <2>2. CASE i \notin S
    BY <1>1, <2>2
  <2> QED BY <2>1, <2>2
<1>3. rows' \in [1..Len(rows) -> RunRow]
  BY <1>1, <1>2
<1>4. rows' \in Seq(RunRow)
  BY <1>1, <1>3, SeqDef
<1> QED BY <1>2, <1>4 DEF RowsKept

\* The fields of a pass that is not under way.
LEMMA IdleType == Idle \in Pass /\ Idle.pc = "idle" /\ Idle.cur = {} /\ Idle.due = {}
                  /\ Idle.now = 0 /\ Idle.overlapping = FALSE
BY HorizonType DEF Idle, Pass

\* due_schedule_triggers: the pass holds a snapshot of the due triggers.
LEMMA TickStartEffect ==
    ASSUME TypeOK, TickStart
    PROVE  /\ pass' \in Pass /\ pass.pc = "idle" /\ pass'.pc = "next" /\ pass'.now = clock
           /\ pass'.cur = {} /\ pass'.due = {SnapshotOf(t) : t \in Due(clock)}
           /\ UNCHANGED <<clock, trig, rows, call, calls, mishaps, epoch>>
<1> DEFINE D == {SnapshotOf(t) : t \in Due(clock)}
<1>1. D \subseteq Snapshot
  BY DEF TypeOK, TriggerRow, Snapshot, SnapshotOf, Due, There
<1>2. PICK q \in Pass : q = Idle
  BY IdleType
<1>3. pass' = [q EXCEPT !.pc = "next", !.now = clock, !.due = D]
  BY <1>2 DEF TickStart
<1>4. q.cur = {} /\ clock \in 0..MaxTime
  BY <1>2, IdleType DEF TypeOK
<1> HIDE DEF D
<1>5. pass' \in Pass /\ pass'.pc = "next" /\ pass'.now = clock /\ pass'.due = D /\ pass'.cur = {}
  BY <1>1, <1>3, <1>4 DEF Pass
<1> QED BY <1>5 DEF TickStart, D

\* The pass takes one snapshot and remembers whether its newest run is open.
LEMMA TickOverlapEffect ==
    ASSUME TypeOK, TickOverlap
    PROVE  /\ pass' \in Pass /\ pass.pc = "next" /\ pass'.pc = "insert" /\ pass'.now = pass.now
           /\ \E row \in pass.due :
                /\ pass'.cur = {row} /\ pass'.due = pass.due \ {row}
                /\ pass'.overlapping = Overlapping(row.id)
           /\ UNCHANGED <<clock, trig, rows, call, calls, mishaps, epoch>>
<1>1. PICK row \in pass.due :
        pass' = [pass EXCEPT !.pc = "insert", !.due = pass.due \ {row}, !.cur = {row},
                             !.overlapping = Overlapping(row.id)]
  BY DEF TickOverlap, TypeOK, Pass
<1> DEFINE b == Overlapping(row.id)
<1>2. b \in BOOLEAN
  BY DEF Overlapping
<1>3. row \in Snapshot
  BY DEF TypeOK, Pass
<1> HIDE DEF b
<1>4. pass' = [pass EXCEPT !.pc = "insert", !.due = pass.due \ {row}, !.cur = {row}, !.overlapping = b]
  BY <1>1 DEF b
<1>5. /\ pass' \in Pass /\ pass'.pc = "insert" /\ pass'.now = pass.now
      /\ pass'.cur = {row} /\ pass'.due = pass.due \ {row} /\ pass'.overlapping = b
  BY <1>2, <1>3, <1>4 DEF TypeOK, Pass
<1> QED BY <1>5 DEF TickOverlap, b

\* One scheduled run of the trigger under way is added, queued or skipped.
LEMMA TickInsertEffect ==
    ASSUME TypeOK, TickInsert
    PROVE  /\ pass' \in Pass /\ pass.pc = "insert" /\ pass'.pc = "update" /\ pass'.now = pass.now
           /\ pass'.cur = pass.cur /\ pass'.due = pass.due /\ pass'.overlapping = pass.overlapping
           /\ \E row \in pass.cur, r \in RunRow :
                /\ RowAdded(r)
                /\ r.trigger = row.id /\ r.manual = FALSE /\ r.due = row.next
                /\ r.at = pass.now /\ r.epoch = epoch[row.id]
                /\ r.status = IF pass.overlapping THEN "skipped" ELSE "queued"
           /\ UNCHANGED <<clock, trig, call, calls, mishaps, epoch>>
<1>1. /\ pass' \in Pass /\ pass'.pc = "update" /\ pass'.now = pass.now
      /\ pass'.cur = pass.cur /\ pass'.due = pass.due /\ pass'.overlapping = pass.overlapping
  BY DEF TickInsert, TypeOK, Pass
<1> DEFINE s == IF pass.overlapping THEN "skipped" ELSE "queued"
           new(row) == [trigger |-> row.id, manual |-> FALSE, due |-> row.next, status |-> s,
                        at |-> pass.now, epoch |-> epoch[row.id]]
<1>2. PICK row \in pass.cur : rows' = Append(rows, new(row))
  BY DEF TickInsert
<1>3. s \in {"skipped", "queued"} /\ row \in Snapshot /\ pass.now \in 0..MaxTime
  BY DEF TypeOK, Pass
<1> HIDE DEF s
<1>4. row.id \in Trigger /\ row.next \in 0..Horizon /\ epoch[row.id] \in Nat
  BY <1>3 DEF Snapshot, TypeOK
<1>5. new(row) \in RunRow
  BY <1>3, <1>4 DEF RunRow, Open
<1>6. /\ new(row).trigger = row.id /\ new(row).manual = FALSE /\ new(row).due = row.next
      /\ new(row).at = pass.now /\ new(row).epoch = epoch[row.id] /\ new(row).status = s
  OBVIOUS
<1> HIDE DEF new
<1>7. RowAdded(new(row))
  BY <1>2, <1>5, AppendAdds DEF TypeOK
<1> QED BY <1>1, <1>5, <1>6, <1>7 DEF TickInsert, s

\* The pass lets go of the trigger it has recorded.
LEMMA TickUpdateEffect ==
    ASSUME TypeOK, TickUpdate
    PROVE  /\ pass' \in Pass /\ pass.pc = "update" /\ pass'.pc = "next" /\ pass'.now = pass.now
           /\ pass'.cur = {} /\ pass'.due = pass.due
           /\ UNCHANGED <<clock, rows, call, calls, mishaps, epoch>>
BY DEF TickUpdate, TypeOK, Pass

-----------------------------------------------------------------------------
(* What each action does to the triggers.                                  *)

\* The row of t becomes q.
TrigSet(t, q) ==
    /\ trig' \in [Trigger -> TriggerRow] /\ trig'[t] = q
    /\ \A u \in Trigger : u # t => trig'[u] = trig[u]

\* An update of one row of table triggers.
LEMMA TrigSets ==
    ASSUME TypeOK, NEW t \in Trigger, NEW q \in TriggerRow, trig' = [trig EXCEPT ![t] = q]
    PROVE  TrigSet(t, q)
BY DEF TypeOK, TrigSet

\* The newest scheduled run of a trigger, once one is known, is LastScheduled.
LEMMA LastScheduledIs ==
    ASSUME TypeOK, NEW t \in Trigger, NEW i \in Scheduled(t), \A j \in Scheduled(t) : j <= i
    PROVE  LastScheduled(t) = i
<1>1. DOMAIN rows \subseteq Nat
  BY LenProperties DEF TypeOK
<1>2. i \in Indices(t) /\ ~rows[i].manual /\ \A j \in Indices(t) : ~rows[j].manual => j <= i
  BY DEF Scheduled
<1>3. ASSUME NEW k \in Indices(t), ~rows[k].manual, \A j \in Indices(t) : ~rows[j].manual => j <= k
      PROVE  k = i
  <2>1. i <= k /\ k <= i /\ i \in Nat /\ k \in Nat
    BY <1>1, <1>2, <1>3 DEF Indices
  <2> QED BY <2>1
<1> QED BY <1>2, <1>3 DEF LastScheduled

\* update_trigger_after_fire: a trigger still there gets its next occurrence after the
\* tick and, unless the firing was skipped, the run just inserted as its last.
LEMMA TickUpdateTrig ==
    ASSUME TypeOK, InsertOK, TickUpdate
    PROVE  \E row \in pass.cur :
             \/ trig[row.id].state # "there" /\ trig' = trig
             \/ /\ trig[row.id].state = "there"
                /\ \E q \in TriggerRow :
                     /\ TrigSet(row.id, q) /\ q.state = "there"
                     /\ q.next = NextAfter(row.schedule, pass.now)
                     /\ q.last = IF pass.overlapping THEN trig[row.id].last ELSE LastScheduled(row.id)
<1> DEFINE n(row) == NextAfter(row.schedule, pass.now)
           l(row) == IF pass.overlapping THEN trig[row.id].last ELSE LastScheduled(row.id)
<1>1. PICK row \in pass.cur :
        trig' = IF row.id \in There
                THEN [trig EXCEPT ![row.id].next = NextAfter(row.schedule, pass.now),
                        ![row.id].last = IF pass.overlapping THEN @ ELSE LastScheduled(row.id)]
                ELSE trig
  BY DEF TickUpdate
<1>2. row \in Snapshot /\ pass.now \in 0..MaxTime
  BY DEF TypeOK, Pass
<1>3. row.id \in Trigger /\ row.schedule \in Period /\ trig[row.id] \in TriggerRow
  BY <1>2 DEF Snapshot, TypeOK
<1>4. n(row) \in 0..Horizon
  BY <1>2, <1>3, NextAfterInHorizon
<1>5. l(row) \in Nat
  <2>1. PICK i \in Scheduled(row.id) : \A j \in Scheduled(row.id) : j <= i
    BY DEF InsertOK, TickUpdate
  <2>2. LastScheduled(row.id) = i
    BY <1>3, <2>1, LastScheduledIs
  <2>3. i \in Nat
    BY <2>1, LenProperties DEF Scheduled, Indices, TypeOK
  <2>4. trig[row.id].last \in Nat
    BY <1>3 DEF TriggerRow
  <2> QED BY <2>2, <2>3, <2>4
<1>6. CASE row.id \notin There
  BY <1>1, <1>3, <1>6 DEF There
<1>7. CASE row.id \in There
  <2> DEFINE q == [trig[row.id] EXCEPT !.next = n(row), !.last = l(row)]
  <2>1. trig' = [trig EXCEPT ![row.id] = q]
    BY <1>1, <1>7 DEF TypeOK, TriggerRow
  <2>2. trig[row.id].state = "there"
    BY <1>7 DEF There
  <2> HIDE DEF n, l
  <2>3. q \in TriggerRow /\ q.state = "there" /\ q.next = n(row) /\ q.last = l(row)
    BY <1>3, <1>4, <1>5, <2>2 DEF TriggerRow
  <2> HIDE DEF q
  <2>4. TrigSet(row.id, q)
    BY <1>3, <2>1, <2>3, TrigSets
  <2> QED BY <2>2, <2>3, <2>4 DEF n, l
<1> QED BY <1>6, <1>7

\* host.trigger.set remembers the row it found, or that there was none.
LEMMA SetReadEffect ==
    ASSUME TypeOK, NEW t \in Trigger, NEW p \in Period, SetRead(t, p)
    PROVE  /\ call' \subseteq SetCall /\ Cardinality(call') <= 1 /\ calls' \in 0..MaxCalls
           /\ \A c \in call' : c.id = t /\ (c.old = {} => t \notin There)
           /\ trig[t].state # "removed"
           /\ UNCHANGED <<clock, trig, rows, pass, mishaps, epoch>>
<1> DEFINE old == IF t \in There THEN {SnapshotOf(t)} ELSE {}
           c == [id |-> t, want |-> p, now |-> clock, old |-> old]
<1>1. call' = {c}
  BY DEF SetRead
<1>2. SnapshotOf(t) \in Snapshot
  BY DEF SnapshotOf, Snapshot, TypeOK, TriggerRow
<1>3. old \subseteq Snapshot /\ (old = {} => t \notin There)
  BY <1>2
<1> HIDE DEF old
<1>4. c \in SetCall /\ c.id = t /\ c.old = old
  BY <1>3 DEF SetCall, TypeOK
<1> HIDE DEF c
<1>5. Cardinality({c}) = 1
  BY FS_Singleton
<1>6. calls' \in 0..MaxCalls
  BY ScheduleAssumption DEF SetRead, TypeOK
<1>7. call' \subseteq SetCall /\ \A d \in call' : d.id = t /\ (d.old = {} => t \notin There)
  BY <1>1, <1>3, <1>4
<1>8. Cardinality(call') <= 1
  BY <1>1, <1>5
<1>9. trig[t].state # "removed" /\ UNCHANGED <<clock, trig, rows, pass, mishaps, epoch>>
  BY DEF SetRead
<1> QED BY <1>6, <1>7, <1>8, <1>9

\* set creates the trigger with no last run, or the quota refuses it.
LEMMA SetCreateEffect ==
    ASSUME TypeOK, NEW c \in call, SetCreate(c)
    PROVE  /\ call' = {} /\ c.old = {} /\ c.id \in Trigger
           /\ \/ trig' = trig
              \/ \E q \in TriggerRow : TrigSet(c.id, q) /\ q.state = "there" /\ q.last = 0
           /\ UNCHANGED <<clock, rows, pass, calls, mishaps, epoch>>
<1>1. c \in SetCall
  BY DEF TypeOK
<1>2. c.id \in Trigger /\ c.want \in Period /\ c.now \in 0..MaxTime
  BY <1>1 DEF SetCall
<1> DEFINE n == NextAfter(c.want, c.now)
           q == [state |-> "there", enabled |-> TRUE, schedule |-> c.want, next |-> n, last |-> 0]
<1>3. n \in 0..Horizon
  BY <1>2, NextAfterInHorizon
<1>4. trig' = trig \/ trig' = [trig EXCEPT ![c.id] = q]
  BY DEF SetCreate
<1> HIDE DEF n
<1>5. q \in TriggerRow /\ q.state = "there" /\ q.last = 0
  BY <1>2, <1>3 DEF TriggerRow
<1> HIDE DEF q
<1>6. trig' = trig \/ TrigSet(c.id, q)
  BY <1>2, <1>4, <1>5, TrigSets
<1> QED BY <1>2, <1>5, <1>6 DEF SetCreate

\* set updates in place and disturbs the record, or writes nothing.
LEMMA SetUpdateEffect ==
    ASSUME TypeOK, NEW c \in call, SetUpdate(c)
    PROVE  /\ call' = {} /\ c.id \in Trigger
           /\ \/ trig' = trig /\ epoch' = epoch
              \/ /\ trig[c.id].state = "there"
                 /\ epoch' = [epoch EXCEPT ![c.id] = epoch[c.id] + 1]
                 /\ \E q \in TriggerRow :
                      TrigSet(c.id, q) /\ q.state = "there" /\ q.last = trig[c.id].last
           /\ UNCHANGED <<clock, rows, pass, calls, mishaps>>
<1>1. c \in SetCall
  BY DEF TypeOK
<1>2. c.id \in Trigger /\ c.want \in Period /\ c.now \in 0..MaxTime /\ c.old \subseteq Snapshot
  BY <1>1 DEF SetCall
<1>3. PICK old \in c.old :
        \/ /\ c.id \in There
           /\ \E n \in {NextAfter(c.want, c.now)}
                         \cup (IF c.want = old.schedule THEN {old.next} ELSE {}) :
                trig' = [trig EXCEPT ![c.id].schedule = c.want, ![c.id].next = n]
           /\ epoch' = [epoch EXCEPT ![c.id] = @ + 1]
        \/ UNCHANGED <<trig, epoch>>
  BY DEF SetUpdate
<1>4. CASE UNCHANGED <<trig, epoch>>
  BY <1>2, <1>4 DEF SetUpdate
<1>5. CASE /\ c.id \in There
           /\ \E n \in {NextAfter(c.want, c.now)}
                         \cup (IF c.want = old.schedule THEN {old.next} ELSE {}) :
                trig' = [trig EXCEPT ![c.id].schedule = c.want, ![c.id].next = n]
           /\ epoch' = [epoch EXCEPT ![c.id] = @ + 1]
  <2>1. PICK n \in {NextAfter(c.want, c.now), old.next} :
          trig' = [trig EXCEPT ![c.id].schedule = c.want, ![c.id].next = n]
    BY <1>5
  <2>2. old.next \in 0..Horizon
    BY <1>2 DEF Snapshot
  <2>3. n \in 0..Horizon
    BY <1>2, <2>1, <2>2, NextAfterInHorizon
  <2> DEFINE q == [trig[c.id] EXCEPT !.schedule = c.want, !.next = n]
  <2>4. trig[c.id] \in TriggerRow /\ trig[c.id].state = "there"
    BY <1>2, <1>5 DEF TypeOK, There
  <2>5. trig' = [trig EXCEPT ![c.id] = q]
    BY <1>2, <2>1 DEF TypeOK, TriggerRow
  <2>6. q \in TriggerRow /\ q.state = "there" /\ q.last = trig[c.id].last
    BY <1>2, <2>3, <2>4 DEF TriggerRow
  <2> HIDE DEF q
  <2>7. TrigSet(c.id, q)
    BY <1>2, <2>5, <2>6, TrigSets
  <2> QED BY <1>2, <1>5, <2>4, <2>6, <2>7 DEF SetUpdate, TypeOK
<1> QED BY <1>3, <1>4, <1>5

\* pause and resume keep next_unix and last_run_id; remove takes the row away.
LEMMA SwitchEffect ==
    ASSUME TypeOK, NEW t \in Trigger, Pause(t) \/ Resume(t) \/ Remove(t)
    PROVE  /\ trig[t].state = "there" /\ calls' \in 0..MaxCalls
           /\ \E q \in TriggerRow :
                /\ TrigSet(t, q)
                /\ \/ q.state = "there" /\ q.next = trig[t].next /\ q.last = trig[t].last
                   \/ q.state = "removed"
           /\ UNCHANGED <<clock, rows, pass, call, mishaps, epoch>>
<1>0. trig[t] \in TriggerRow /\ trig[t].state = "there" /\ Horizon \in Nat
  BY HorizonType DEF TypeOK, There, Pause, Resume, Remove
<1>1. calls' \in 0..MaxCalls
  BY ScheduleAssumption DEF TypeOK, Pause, Resume, Remove
<1>2. CASE Pause(t) \/ Resume(t)
  <2>1. PICK b \in BOOLEAN : trig' = [trig EXCEPT ![t].enabled = b]
    BY <1>2 DEF Pause, Resume
  <2> DEFINE q == [trig[t] EXCEPT !.enabled = b]
  <2>2. trig' = [trig EXCEPT ![t] = q]
    BY <2>1
  <2>3. q \in TriggerRow /\ q.state = "there" /\ q.next = trig[t].next /\ q.last = trig[t].last
    BY <1>0 DEF TriggerRow
  <2> HIDE DEF q
  <2>4. TrigSet(t, q)
    BY <2>2, <2>3, TrigSets
  <2> QED BY <1>0, <1>1, <1>2, <2>3, <2>4 DEF Pause, Resume
<1>3. CASE Remove(t)
  <2> DEFINE q == [trig[t] EXCEPT !.state = "removed", !.next = 0, !.last = 0]
  <2>1. trig' = [trig EXCEPT ![t] = q]
    BY <1>3 DEF Remove, TypeOK, TriggerRow
  <2>2. q \in TriggerRow /\ q.state = "removed"
    <3>1. PICK z \in 0..Horizon : z = 0 /\ z \in Nat
      BY <1>0
    <3>2. q = [trig[t] EXCEPT !.state = "removed", !.next = z, !.last = z]
      BY <3>1
    <3> HIDE DEF q
    <3> QED BY <1>0, <3>1, <3>2 DEF TriggerRow
  <2> HIDE DEF q
  <2>3. TrigSet(t, q)
    BY <2>1, <2>2, TrigSets
  <2> QED BY <1>0, <1>1, <1>3, <2>2, <2>3 DEF Remove
<1> QED BY <1>2, <1>3

\* fire adds a manual run and touches nothing else.
LEMMA FireEffect ==
    ASSUME TypeOK, NEW t \in Trigger, Fire(t)
    PROVE  /\ trig[t].state = "there" /\ calls' \in 0..MaxCalls
           /\ \E r \in RunRow : RowAdded(r) /\ r.trigger = t /\ r.manual = TRUE /\ r.at = 0 /\ r.epoch = 0
           /\ UNCHANGED <<clock, trig, pass, call, mishaps, epoch>>
<1> DEFINE r == [trigger |-> t, status |-> "queued", manual |-> TRUE, due |-> 0, at |-> 0, epoch |-> 0]
<1>1. rows' = Append(rows, r)
  BY DEF Fire
<1>2. r \in RunRow /\ r.trigger = t /\ r.manual = TRUE /\ r.at = 0 /\ r.epoch = 0
  BY HorizonType DEF RunRow, Open
<1> HIDE DEF r
<1>3. RowAdded(r)
  BY <1>1, <1>2, AppendAdds DEF TypeOK
<1>4. calls' \in 0..MaxCalls
  BY ScheduleAssumption DEF TypeOK, Fire
<1> QED BY <1>2, <1>3, <1>4 DEF Fire, There

\* The pass is given up, and what it left half done is disturbed.
LEMMA GiveUpEffect ==
    ASSUME TypeOK, TickFails \/ Restart
    PROVE  /\ pass' = Idle /\ mishaps' \in 0..MaxMishaps /\ mishaps' # 0
           /\ epoch' \in [Trigger -> Nat]
           /\ \A t \in Trigger : epoch'[t] = IF Halfway(t) THEN epoch[t] + 1 ELSE epoch[t]
           /\ call' \subseteq call /\ (call' = call \/ call' = {})
           /\ RowsKept
           /\ UNCHANGED <<clock, trig, calls>>
<1>1. epoch' = [t \in Trigger |-> IF t \in Disturbed THEN epoch[t] + 1 ELSE epoch[t]]
  BY DEF TickFails, Restart, Disturb
<1>2. \A t \in Trigger : t \in Disturbed <=> Halfway(t)
  BY DEF Disturbed, Halfway
<1>3. /\ epoch' \in [Trigger -> Nat]
      /\ \A t \in Trigger : epoch'[t] = IF Halfway(t) THEN epoch[t] + 1 ELSE epoch[t]
  <2> HIDE DEF Disturbed, Halfway
  <2> QED BY <1>1, <1>2 DEF TypeOK
<1>4. mishaps' \in 0..MaxMishaps /\ mishaps' # 0
  BY ScheduleAssumption DEF TypeOK, TickFails, Restart
<1>5. RowsKept
  <2>1. CASE TickFails
    BY <2>1, StutterKeeps DEF TypeOK, TickFails
  <2>2. CASE Restart
    <3>1. PICK S \in SUBSET {i \in DOMAIN rows : rows[i].status = "running"} :
            rows' = [i \in DOMAIN rows |->
                       IF i \in S THEN [rows[i] EXCEPT !.status = "queued"] ELSE rows[i]]
      BY <2>2 DEF Restart
    <3>2. \A i \in S : rows[i].status = "running"
      OBVIOUS
    <3> QED BY <3>1, <3>2, RestartKeeps DEF TypeOK
  <2> QED BY <2>1, <2>2
<1> QED BY <1>3, <1>4, <1>5 DEF TickFails, Restart

\* The steps that leave the triggers, the pass and the runs' record alone.
Quiet == RowsKept /\ UNCHANGED <<trig, pass, epoch>> /\ clock <= clock'

\* The clock and the executor are quiet.
LEMMA QuietEffect ==
    ASSUME TypeOK,
           \/ Advance \/ UNCHANGED vars
           \/ \E i \in DOMAIN rows : StartRun(i) \/ EndRun(i)
    PROVE  Quiet /\ clock' \in 0..MaxTime /\ UNCHANGED <<call, calls, mishaps>>
<1>0. clock \in Nat /\ MaxTime \in Nat /\ clock <= MaxTime
  BY HorizonType DEF TypeOK
<1>1. CASE Advance
  <2>1. RowsKept
    BY <1>1, StutterKeeps DEF TypeOK, Advance
  <2> QED BY <1>0, <1>1, <2>1 DEF Advance, Quiet
<1>2. CASE UNCHANGED vars
  <2>1. RowsKept
    BY <1>2, StutterKeeps DEF TypeOK, vars
  <2> QED BY <1>0, <1>2, <2>1 DEF vars, Quiet
<1>3. ASSUME NEW i \in DOMAIN rows, StartRun(i) \/ EndRun(i)
      PROVE  Quiet /\ clock' \in 0..MaxTime /\ UNCHANGED <<call, calls, mishaps>>
  <2>1. PICK s \in {"running", "ended"} : rows' = [rows EXCEPT ![i].status = s]
    BY <1>3 DEF StartRun, EndRun
  <2>2. rows[i].status \in Open
    BY <1>3 DEF StartRun, EndRun, Open
  <2>3. RowsKept
    BY <2>1, <2>2, StatusKeeps DEF TypeOK
  <2> QED BY <1>0, <1>3, <2>3 DEF StartRun, EndRun, Quiet
<1> QED BY <1>1, <1>2, <1>3

-----------------------------------------------------------------------------
(* Types.                                                                  *)

\* Types hold at the start.
LEMMA TypeInit == Init => TypeOK
<1> SUFFICES ASSUME Init PROVE TypeOK
  OBVIOUS
<1>1. PICK p \in Period : p = CHOOSE x \in Period : TRUE
  BY ScheduleAssumption
<1>2. 0 \in 0..Horizon /\ 0 \in 0..MaxTime
  BY HorizonType
<1>3. PICK q \in TriggerRow : trig = [t \in Trigger |-> q]
  <2> DEFINE q == [state |-> "new", enabled |-> TRUE, next |-> 0, last |-> 0, schedule |-> p]
  <2>1. q \in TriggerRow
    BY <1>2 DEF TriggerRow
  <2>2. trig = [t \in Trigger |-> q]
    BY <1>1 DEF Init
  <2> QED BY <2>1, <2>2
<1>4. rows \in Seq(RunRow)
  BY DEF Init
<1>5. call \subseteq SetCall /\ Cardinality(call) <= 1
  BY FS_EmptySet DEF Init
<1>6. calls \in 0..MaxCalls /\ mishaps \in 0..MaxMishaps
  BY ScheduleAssumption DEF Init
<1> QED BY <1>2, <1>3, <1>4, <1>5, <1>6, IdleType DEF Init, TypeOK

\* Types are preserved: the last_run_id a tick records is a run because the firing under
\* way has one (InsertOK).
LEMMA TypeStep == TypeOK /\ InsertOK /\ [Next]_vars => TypeOK'
<1> SUFFICES ASSUME TypeOK, InsertOK, [Next]_vars
             PROVE  TypeOK'
  OBVIOUS
<1>1. CASE TickStart
  BY <1>1, TickStartEffect DEF TypeOK
<1>2. CASE TickOverlap
  BY <1>2, TickOverlapEffect DEF TypeOK
<1>3. CASE TickInsert
  BY <1>3, TickInsertEffect DEF TypeOK, RowAdded
<1>4. CASE TickUpdate
  BY <1>4, TickUpdateEffect, TickUpdateTrig DEF TypeOK, TrigSet
<1>5. CASE TickEnd
  BY <1>5, IdleType DEF TypeOK, TickEnd
<1>6. CASE TickFails \/ Restart
  <2>1. call' \subseteq SetCall /\ Cardinality(call') <= 1
    <3>1. call' = call \/ call' = {}
      BY <1>6, GiveUpEffect
    <3>2. CASE call' = call
      BY <3>2 DEF TypeOK
    <3>3. CASE call' = {}
      <4>1. Cardinality(call') = 0
        BY <3>3, FS_EmptySet
      <4> QED BY <3>3, <4>1
    <3> QED BY <3>1, <3>2, <3>3
  <2> QED BY <1>6, <2>1, GiveUpEffect, IdleType DEF TypeOK, RowsKept
<1>7. ASSUME NEW t \in Trigger, NEW p \in Period, SetRead(t, p)
      PROVE  TypeOK'
  BY <1>7, SetReadEffect DEF TypeOK
<1>8. ASSUME NEW t \in Trigger, Pause(t) \/ Resume(t) \/ Remove(t)
      PROVE  TypeOK'
  BY <1>8, SwitchEffect DEF TypeOK, TrigSet
<1>9. ASSUME NEW t \in Trigger, Fire(t)
      PROVE  TypeOK'
  BY <1>9, FireEffect DEF TypeOK, RowAdded
<1>10. ASSUME NEW c \in call, SetCreate(c)
       PROVE  TypeOK'
  <2>1. call' \subseteq SetCall /\ Cardinality(call') <= 1
    BY <1>10, SetCreateEffect, FS_EmptySet
  <2>2. trig' \in [Trigger -> TriggerRow]
    BY <1>10, SetCreateEffect DEF TypeOK, TrigSet
  <2> QED BY <1>10, <2>1, <2>2, SetCreateEffect DEF TypeOK
<1>11. ASSUME NEW c \in call, SetUpdate(c)
       PROVE  TypeOK'
  <2>1. call' \subseteq SetCall /\ Cardinality(call') <= 1
    BY <1>11, SetUpdateEffect, FS_EmptySet
  <2>2. trig' \in [Trigger -> TriggerRow] /\ epoch' \in [Trigger -> Nat]
    BY <1>11, SetUpdateEffect DEF TypeOK, TrigSet
  <2> QED BY <1>11, <2>1, <2>2, SetUpdateEffect DEF TypeOK
<1>12. CASE Advance \/ UNCHANGED vars \/ \E i \in DOMAIN rows : StartRun(i) \/ EndRun(i)
  BY <1>12, QuietEffect DEF TypeOK, Quiet, RowsKept
<1> QED BY <1>1, <1>2, <1>3, <1>4, <1>5, <1>6, <1>7, <1>8, <1>9, <1>10, <1>11, <1>12
        DEF Next, Tick, Call
\* The run rows are numbered from 1, and their columns have their types.
LEMMA RowFields ==
    ASSUME TypeOK
    PROVE  /\ DOMAIN rows = 1..Len(rows) /\ Len(rows) \in Nat /\ DOMAIN rows \subseteq Nat
           /\ \A i \in DOMAIN rows :
                /\ rows[i].trigger \in Trigger /\ rows[i].manual \in BOOLEAN
                /\ rows[i].due \in Nat /\ rows[i].at \in Nat /\ rows[i].epoch \in Nat
<1>1. DOMAIN rows = 1..Len(rows) /\ Len(rows) \in Nat
  BY LenProperties DEF TypeOK
<1>2. \A i \in DOMAIN rows : rows[i] \in RunRow
  BY <1>1 DEF TypeOK
<1> QED BY <1>1, <1>2, HorizonType DEF RunRow

-----------------------------------------------------------------------------
(* A firing starts from an occurrence after the runs before it.            *)

\* A quiet step keeps every firing ahead of the runs before it.
LEMMA QuietFires ==
    ASSUME TypeOK, TypeOK', FireInv, Quiet, CallOK'
    PROVE  FireInv'
<1>1. clock \in Nat /\ clock' \in Nat /\ pass.now \in Nat
  BY HorizonType DEF TypeOK, Pass
<1>2. \A i \in DOMAIN rows' : RowOK(i)'
  BY <1>1, RowFields DEF FireInv, Quiet, RowsKept, RowOK
<1>3. PassOK'
  BY <1>1 DEF FireInv, Quiet, PassOK
<1>4. \A t, n : AfterAll(t, n) => AfterAll(t, n)'
  BY DEF Quiet, RowsKept, AfterAll
<1>5. SnapOK'
  BY <1>4 DEF FireInv, Quiet, SnapOK
<1>6. \A t \in Trigger : FireOK(t)'
  BY <1>4 DEF FireInv, Quiet, FireOK, Halfway
<1> QED BY <1>2, <1>3, <1>5, <1>6 DEF FireInv

\* One trigger is created, its record is disturbed, or its next_unix stays.
LEMMA TrigFires ==
    ASSUME TypeOK, TypeOK', FireInv, NEW t \in Trigger, NEW q \in TriggerRow, TrigSet(t, q),
           UNCHANGED <<clock, rows, pass>>, CallOK', q.state # "new",
           \/ epoch' = epoch /\ trig[t].state = "new"
           \/ epoch' = [epoch EXCEPT ![t] = epoch[t] + 1]
           \/ epoch' = epoch /\ q.state = "removed"
           \/ epoch' = epoch /\ trig[t].state = "there" /\ q.next = trig[t].next
    PROVE  FireInv'
<1>1. \A u \in Trigger : epoch[u] \in Nat /\ epoch'[u] \in Nat /\ epoch[u] <= epoch'[u]
  BY DEF TypeOK
<1>2. \A i \in DOMAIN rows' : RowOK(i)'
  BY <1>1, RowFields DEF FireInv, RowOK, TrigSet
<1>3. PassOK'
  <2>1. \A x \in pass.cur \cup pass.due : x.id \in Trigger
    BY DEF TypeOK, Pass, Snapshot
  <2> QED BY <2>1 DEF FireInv, PassOK, TrigSet
<1>4. \A u \in Trigger : \A n : AfterAll(u, n) => AfterAll(u, n)'
  <2>1. ASSUME NEW u \in Trigger, NEW n, AfterAll(u, n), NEW i \in DOMAIN rows,
               rows[i].trigger = u, ~rows[i].manual, rows[i].epoch = epoch'[u]
        PROVE  rows[i].at < n
    <3>1. rows[i].epoch <= epoch[u]
      BY <2>1 DEF FireInv, RowOK
    <3>2. epoch'[u] = epoch[u]
      BY <1>1, <2>1, <3>1, RowFields
    <3> QED BY <2>1, <3>2 DEF AfterAll
  <2> QED BY <2>1 DEF AfterAll
<1>5. SnapOK'
  <2>1. \A x \in pass.cur \cup pass.due : x.id \in Trigger
    BY DEF TypeOK, Pass, Snapshot
  <2> QED BY <1>4, <2>1 DEF FireInv, SnapOK
<1>6. ASSUME NEW u \in Trigger, u # t
      PROVE  FireOK(u)'
  <2>1. trig'[u] = trig[u]
    BY <1>6 DEF TrigSet
  <2> QED BY <1>4, <1>6, <2>1 DEF FireInv, FireOK, Halfway
<1>7. FireOK(t)'
  <2>1. trig'[t] = q
    BY DEF TrigSet
  <2>2. CASE trig[t].state = "new"
    <3>1. \A i \in DOMAIN rows : rows[i].trigger # t
      BY <2>2 DEF FireInv, RowOK
    <3> QED BY <3>1 DEF FireOK, AfterAll
  <2>3. CASE epoch' = [epoch EXCEPT ![t] = epoch[t] + 1]
    <3>1. epoch'[t] = epoch[t] + 1
      BY <2>3 DEF TypeOK
    <3>2. \A i \in DOMAIN rows : rows[i].trigger = t => rows[i].epoch # epoch'[t]
      BY <1>1, <3>1, RowFields DEF FireInv, RowOK
    <3> QED BY <3>2 DEF FireOK, AfterAll
  <2>4. CASE q.state = "removed"
    BY <2>1, <2>4 DEF FireOK
  <2>5. CASE trig[t].state = "there" /\ q.next = trig[t].next
    BY <1>4, <2>1, <2>5 DEF FireInv, FireOK, Halfway
  <2> QED BY <2>2, <2>3, <2>4, <2>5
<1> QED BY <1>2, <1>3, <1>5, <1>6, <1>7 DEF FireInv
\* The snapshots of a new pass are the rows as they are: no firing is half done.
LEMMA TickStartFires ==
    ASSUME TypeOK, FireInv, TickStart
    PROVE  FireInv'
<1> USE TickStartEffect
<1>1. clock \in Nat
  BY DEF TypeOK
<1>2. \A i \in DOMAIN rows' : RowOK(i)'
  BY DEF FireInv, RowOK
<1>3. ASSUME NEW x \in pass'.due
      PROVE  x.id \in Trigger /\ x = SnapshotOf(x.id) /\ trig[x.id].state = "there"
             /\ x.next = trig[x.id].next
  BY <1>3 DEF SnapshotOf, Due, There
<1>4. PassOK'
  <2>1. \A x, y \in pass'.due : x.id = y.id => x = y
    <3> HIDE DEF SnapshotOf
    <3> QED BY <1>3
  <2> QED BY <1>1, <1>3, <2>1 DEF PassOK
<1>5. CallOK'
  BY DEF FireInv, CallOK
<1>6. \A t \in Trigger : ~Halfway(t)
  BY DEF Halfway
<1>7. \A t, n : AfterAll(t, n) => AfterAll(t, n)'
  BY DEF AfterAll
<1>8. SnapOK'
  <2>1. ASSUME NEW x \in pass'.due
        PROVE  AfterAll(x.id, x.next)
    BY <1>3, <1>6 DEF FireInv, FireOK
  <2> QED BY <1>7, <2>1 DEF SnapOK
<1>9. \A t \in Trigger : FireOK(t)'
  BY <1>6, <1>7 DEF FireInv, FireOK
<1> QED BY <1>2, <1>4, <1>5, <1>8, <1>9 DEF FireInv

\* A snapshot taken from the due ones stays ahead.
LEMMA TickOverlapFires ==
    ASSUME TypeOK, FireInv, TickOverlap
    PROVE  FireInv'
<1> USE TickOverlapEffect
<1>1. PICK row \in pass.due : pass'.cur = {row} /\ pass'.due = pass.due \ {row}
  OBVIOUS
<1>2. \A i \in DOMAIN rows' : RowOK(i)'
  BY DEF FireInv, RowOK
<1>3. PassOK'
  BY <1>1 DEF FireInv, PassOK
<1>4. CallOK'
  BY DEF FireInv, CallOK
<1>5. \A t, n : AfterAll(t, n) => AfterAll(t, n)'
  BY DEF AfterAll
<1>6. SnapOK'
  BY <1>1, <1>5 DEF FireInv, SnapOK
<1>7. \A t \in Trigger : FireOK(t)'
  BY <1>5 DEF FireInv, FireOK, Halfway
<1> QED BY <1>2, <1>3, <1>4, <1>6, <1>7 DEF FireInv

\* The inserted run is of the trigger under way, which the rest of the pass never holds.
LEMMA TickInsertFires ==
    ASSUME TypeOK, FireInv, TickInsert
    PROVE  FireInv'
<1> USE TickInsertEffect
<1>1. PICK row \in pass.cur, r \in RunRow :
        /\ RowAdded(r) /\ r.trigger = row.id /\ r.at = pass.now /\ r.epoch = epoch[row.id]
  OBVIOUS
<1>2. row.id \in Trigger /\ pass.now \in Nat /\ clock \in Nat /\ pass.now <= clock
  BY DEF FireInv, PassOK, TypeOK, Pass, Snapshot
<1>3. \A i \in DOMAIN rows' : RowOK(i)'
  <2>1. ASSUME NEW i \in DOMAIN rows
        PROVE  RowOK(i)'
    BY <1>1, <2>1 DEF FireInv, RowOK, RowAdded
  <2>2. PICK k \in Nat : k = Len(rows) + 1 /\ rows'[k] = r /\ DOMAIN rows' = DOMAIN rows \cup {k}
    BY <1>1 DEF RowAdded
  <2>3. RowOK(k)'
    <3>1. trig[row.id].state # "new" /\ epoch[row.id] \in Nat
      BY <1>1, <1>2 DEF FireInv, PassOK, TypeOK
    <3> QED BY <1>1, <1>2, <2>2, <3>1 DEF RowOK
  <2> QED BY <2>1, <2>2, <2>3
<1>4. PassOK'
  BY DEF FireInv, PassOK
<1>5. CallOK'
  BY DEF FireInv, CallOK
<1>6. ASSUME NEW t, NEW n, t # row.id, AfterAll(t, n)
      PROVE  AfterAll(t, n)'
  BY <1>1, <1>6 DEF AfterAll, RowAdded
<1>7. SnapOK'
  BY <1>6 DEF FireInv, SnapOK, PassOK
<1>8. \A t \in Trigger : FireOK(t)'
  <2>1. Halfway(row.id)'
    BY DEF Halfway
  <2>2. \A t \in Trigger : ~Halfway(t)
    BY DEF Halfway
  <2> QED BY <1>6, <2>1, <2>2 DEF FireInv, FireOK
<1> QED BY <1>3, <1>4, <1>5, <1>7, <1>8 DEF FireInv

\* next_after is after the tick, and the tick is no earlier than any run.
LEMMA TickUpdateFires ==
    ASSUME TypeOK, InsertOK, FireInv, TickUpdate
    PROVE  FireInv'
<1> USE TickUpdateEffect
<1>1. PICK row \in pass.cur :
        \/ trig[row.id].state # "there" /\ trig' = trig
        \/ /\ trig[row.id].state = "there"
           /\ \E q \in TriggerRow :
                TrigSet(row.id, q) /\ q.state = "there" /\ q.next = NextAfter(row.schedule, pass.now)
  BY TickUpdateTrig
<1>2. row \in Snapshot /\ pass.now \in 0..MaxTime
  BY DEF TypeOK, Pass
<1>3. row.id \in Trigger /\ pass.now \in Nat
        /\ NextAfter(row.schedule, pass.now) \in Nat /\ pass.now < NextAfter(row.schedule, pass.now)
  BY <1>2, NextAfterInHorizon, HorizonType DEF Snapshot
<1> HIDE DEF NextAfter
<1>4. \A t \in Trigger : trig'[t].state = trig[t].state /\ (t # row.id => trig'[t] = trig[t])
  BY <1>1 DEF TrigSet
<1>5. \A i \in DOMAIN rows' : RowOK(i)'
  BY <1>4, RowFields DEF FireInv, RowOK
<1>6. PassOK'
  <2>1. \A x \in pass.due : x.id \in Trigger
    BY DEF TypeOK, Pass, Snapshot
  <2> QED BY <1>4, <2>1 DEF FireInv, PassOK
<1>7. CallOK'
  <2>1. \A c \in call : c.id \in Trigger
    BY DEF TypeOK, SetCall
  <2> QED BY <1>4, <2>1 DEF FireInv, CallOK
<1>8. \A t, n : AfterAll(t, n) => AfterAll(t, n)'
  BY DEF AfterAll
<1>9. SnapOK'
  BY <1>8 DEF FireInv, SnapOK
<1>10. ASSUME NEW t \in Trigger, t # row.id
       PROVE  FireOK(t)'
  <2>1. ~Halfway(t)
    BY <1>10 DEF Halfway, FireInv, PassOK
  <2> QED BY <1>4, <1>8, <1>10, <2>1 DEF FireInv, FireOK
<1>11. FireOK(row.id)'
  <2>1. ASSUME NEW i \in DOMAIN rows
        PROVE  rows[i].at < NextAfter(row.schedule, pass.now)
    <3>1. rows[i].at <= pass.now /\ rows[i].at \in Nat
      BY RowFields DEF FireInv, RowOK
    <3> QED BY <1>3, <3>1
  <2>2. CASE trig[row.id].state # "there" /\ trig' = trig
    BY <2>2 DEF FireOK
  <2>3. CASE trig'[row.id].next = NextAfter(row.schedule, pass.now)
    BY <2>1, <2>3 DEF FireOK, AfterAll
  <2> QED BY <1>1, <2>2, <2>3 DEF TrigSet
<1> QED BY <1>5, <1>6, <1>7, <1>9, <1>10, <1>11 DEF FireInv

\* The pass ends, or is given up: a firing left half done disturbs the record.
LEMMA TickLeavesFires ==
    ASSUME TypeOK, TypeOK', FireInv, TickEnd \/ TickFails \/ Restart
    PROVE  FireInv'
<1>1. /\ pass'.pc = "idle" /\ pass'.cur = {} /\ pass'.due = {} /\ RowsKept
      /\ UNCHANGED <<clock, trig>> /\ call' \subseteq call
      /\ \A t \in Trigger : epoch'[t] = IF Halfway(t) THEN epoch[t] + 1 ELSE epoch[t]
  <2>1. CASE TickEnd
    <3>1. RowsKept
      BY <2>1, StutterKeeps DEF TypeOK, TickEnd
    <3> QED BY <2>1, <3>1, IdleType DEF TickEnd, Halfway
  <2>2. CASE TickFails \/ Restart
    BY <2>2, GiveUpEffect, IdleType
  <2> QED BY <2>1, <2>2
<1>2. \A t \in Trigger : epoch[t] \in Nat /\ epoch'[t] \in Nat /\ epoch[t] <= epoch'[t]
  BY <1>1 DEF TypeOK
<1>3. \A i \in DOMAIN rows' : RowOK(i)'
  BY <1>1, <1>2, RowFields DEF FireInv, RowOK, RowsKept
<1>4. PassOK' /\ SnapOK'
  BY <1>1 DEF PassOK, SnapOK
<1>5. CallOK'
  BY <1>1 DEF FireInv, CallOK
<1>6. ASSUME NEW t \in Trigger
      PROVE  FireOK(t)'
  <2>1. CASE Halfway(t)
    <3>1. epoch'[t] = epoch[t] + 1
      BY <1>1, <2>1
    <3>2. \A i \in DOMAIN rows : rows[i].trigger = t => rows[i].epoch # epoch'[t]
      BY <1>2, <3>1, RowFields DEF FireInv, RowOK
    <3> QED BY <1>1, <3>2 DEF FireOK, AfterAll, RowsKept
  <2>2. CASE ~Halfway(t)
    <3>1. epoch'[t] = epoch[t]
      BY <1>1, <2>2
    <3> QED BY <1>1, <2>2, <3>1 DEF FireInv, FireOK, AfterAll, RowsKept
  <2> QED BY <2>1, <2>2
<1> QED BY <1>3, <1>4, <1>5, <1>6 DEF FireInv

\* A manual run is in nobody's way.
LEMMA FireFires ==
    ASSUME TypeOK, FireInv, NEW t \in Trigger, Fire(t)
    PROVE  FireInv'
<1>1. PICK r \in RunRow : RowAdded(r) /\ r.trigger = t /\ r.manual = TRUE /\ r.at = 0 /\ r.epoch = 0
  BY FireEffect
<1>0. trig[t].state = "there" /\ UNCHANGED <<clock, trig, pass, call, mishaps, epoch>>
  BY FireEffect
<1>2. pass.now \in Nat /\ clock \in Nat /\ epoch[t] \in Nat
  BY DEF TypeOK, Pass
<1>3. \A i \in DOMAIN rows' : RowOK(i)'
  <2>1. ASSUME NEW i \in DOMAIN rows
        PROVE  RowOK(i)'
    BY <1>0, <1>1, <2>1 DEF FireInv, RowOK, RowAdded
  <2>2. PICK k \in Nat : k = Len(rows) + 1 /\ rows'[k] = r /\ DOMAIN rows' = DOMAIN rows \cup {k}
    BY <1>1 DEF RowAdded
  <2>3. RowOK(k)'
    BY <1>0, <1>1, <1>2, <2>2 DEF RowOK
  <2> QED BY <2>1, <2>2, <2>3
<1>4. PassOK' /\ CallOK'
  BY <1>0 DEF FireInv, PassOK, CallOK
<1>5. \A u, n : AfterAll(u, n) => AfterAll(u, n)'
  BY <1>0, <1>1 DEF AfterAll, RowAdded
<1>6. SnapOK' /\ \A u \in Trigger : FireOK(u)'
  BY <1>0, <1>5 DEF FireInv, SnapOK, FireOK, Halfway
<1> QED BY <1>3, <1>4, <1>6 DEF FireInv
\* Every step keeps FireInv.
LEMMA FireStep == TypeOK /\ TypeOK' /\ InsertOK /\ FireInv /\ [Next]_vars => FireInv'
<1> SUFFICES ASSUME TypeOK, TypeOK', InsertOK, FireInv, [Next]_vars
             PROVE  FireInv'
  OBVIOUS
<1>0. rows \in Seq(RunRow) /\ clock \in Nat /\ CallOK /\ \A c \in call : c.id \in Trigger
  BY DEF TypeOK, SetCall, FireInv
<1>1. CASE TickStart
  BY <1>1, TickStartFires
<1>2. CASE TickOverlap
  BY <1>2, TickOverlapFires
<1>3. CASE TickInsert
  BY <1>3, TickInsertFires
<1>4. CASE TickUpdate
  BY <1>4, TickUpdateFires
<1>5. CASE TickEnd \/ TickFails \/ Restart
  BY <1>5, TickLeavesFires
<1>6. ASSUME NEW t \in Trigger, NEW p \in Period, SetRead(t, p)
      PROVE  FireInv'
  <2>1. UNCHANGED <<clock, trig, rows, pass, epoch>> /\ trig[t].state # "removed"
          /\ \A c \in call' : c.id = t /\ (c.old = {} => t \notin There)
    BY <1>6, SetReadEffect
  <2>2. Quiet
    BY <1>0, <2>1, StutterKeeps DEF Quiet
  <2>3. trig[t].state \in {"new", "there", "removed"}
    BY DEF TypeOK, TriggerRow
  <2>4. CallOK'
    BY <2>1, <2>3 DEF CallOK, There
  <2> QED BY <2>2, <2>4, QuietFires
<1>7. ASSUME NEW t \in Trigger, Pause(t) \/ Resume(t) \/ Remove(t)
      PROVE  FireInv'
  <2>1. PICK q \in TriggerRow :
          /\ TrigSet(t, q)
          /\ \/ q.state = "there" /\ q.next = trig[t].next
             \/ q.state = "removed"
    BY <1>7, SwitchEffect
  <2>2. trig[t].state = "there" /\ UNCHANGED <<clock, rows, pass, call, mishaps, epoch>>
    BY <1>7, SwitchEffect
  <2>3. CallOK'
    BY <1>0, <2>1, <2>2 DEF CallOK, TrigSet
  <2> QED BY <2>1, <2>2, <2>3, TrigFires
<1>8. ASSUME NEW t \in Trigger, Fire(t)
      PROVE  FireInv'
  BY <1>8, FireFires
<1>9. ASSUME NEW c \in call, SetCreate(c)
      PROVE  FireInv'
  <2>1. CallOK' /\ c.id \in Trigger /\ trig[c.id].state = "new"
          /\ UNCHANGED <<clock, rows, pass, epoch>>
    BY <1>0, <1>9, SetCreateEffect DEF CallOK
  <2>2. CASE trig' = trig
    <3>1. Quiet
      BY <1>0, <2>1, <2>2, StutterKeeps DEF Quiet
    <3> QED BY <2>1, <3>1, QuietFires
  <2>3. CASE trig' # trig
    <3>1. PICK q \in TriggerRow : TrigSet(c.id, q) /\ q.state = "there"
      BY <1>9, <2>3, SetCreateEffect
    <3> QED BY <2>1, <3>1, TrigFires
  <2> QED BY <2>2, <2>3
<1>10. ASSUME NEW c \in call, SetUpdate(c)
       PROVE  FireInv'
  <2>1. CallOK' /\ c.id \in Trigger /\ UNCHANGED <<clock, rows, pass>>
    BY <1>10, SetUpdateEffect DEF CallOK
  <2>2. CASE trig' = trig /\ epoch' = epoch
    <3>1. Quiet
      BY <1>0, <2>1, <2>2, StutterKeeps DEF Quiet
    <3> QED BY <2>1, <3>1, QuietFires
  <2>3. CASE ~(trig' = trig /\ epoch' = epoch)
    <3>1. PICK q \in TriggerRow : TrigSet(c.id, q) /\ q.state = "there"
      BY <1>10, <2>3, SetUpdateEffect
    <3>2. epoch' = [epoch EXCEPT ![c.id] = epoch[c.id] + 1]
      BY <1>10, <2>3, SetUpdateEffect
    <3> QED BY <2>1, <3>1, <3>2, TrigFires
  <2> QED BY <2>2, <2>3
<1>11. CASE Advance \/ UNCHANGED vars \/ \E i \in DOMAIN rows : StartRun(i) \/ EndRun(i)
  <2>1. Quiet /\ call' = call
    BY <1>11, QuietEffect
  <2>2. CallOK'
    BY <1>0, <2>1 DEF CallOK, Quiet
  <2> QED BY <2>1, <2>2, QuietFires
<1> QED BY <1>1, <1>2, <1>3, <1>4, <1>5, <1>6, <1>7, <1>8, <1>9, <1>10, <1>11
        DEF Next, Tick, Call

\* Only a tick and host.trigger.fire add runs.
LEMMA RowsStep ==
    ASSUME TypeOK, [Next]_vars
    PROVE  RowsKept \/ TickInsert \/ \E t \in Trigger : Fire(t)
<1>0. rows \in Seq(RunRow)
  BY DEF TypeOK
<1>1. CASE UNCHANGED rows
  BY <1>0, <1>1, StutterKeeps
<1>2. CASE TickFails \/ Restart
  BY <1>2, GiveUpEffect
<1>3. CASE Advance \/ UNCHANGED vars \/ \E i \in DOMAIN rows : StartRun(i) \/ EndRun(i)
  BY <1>3, QuietEffect DEF Quiet
<1>4. CASE TickStart \/ TickOverlap \/ TickUpdate \/ TickEnd
  BY <1>1, <1>4 DEF TickStart, TickOverlap, TickUpdate, TickEnd
<1>5. ASSUME NEW t \in Trigger,
             Pause(t) \/ Resume(t) \/ Remove(t) \/ \E p \in Period : SetRead(t, p)
      PROVE  RowsKept
  BY <1>1, <1>5, <1>0, StutterKeeps DEF Pause, Resume, Remove, SetRead
<1>6. ASSUME NEW c \in call, SetCreate(c) \/ SetUpdate(c)
      PROVE  RowsKept
  BY <1>6, <1>0, StutterKeeps DEF SetCreate, SetUpdate
<1> QED BY <1>2, <1>3, <1>4, <1>5, <1>6 DEF Next, Tick, Call

\* A new scheduled run is for an occurrence after every run of its record.
LEMMA ReplayStep == TypeOK /\ FireInv /\ NoReplay /\ [Next]_vars => NoReplay'
<1> SUFFICES ASSUME TypeOK, FireInv, NoReplay, [Next]_vars,
                    NEW t \in Trigger, NEW i \in Scheduled(t)', NEW j \in Scheduled(t)',
                    i < j, rows'[i].epoch = rows'[j].epoch
             PROVE  rows'[j].due > rows'[i].at
  BY DEF NoReplay
<1>0. /\ i \in DOMAIN rows' /\ rows'[i].trigger = t /\ ~rows'[i].manual
      /\ j \in DOMAIN rows' /\ rows'[j].trigger = t /\ ~rows'[j].manual
  BY DEF Scheduled, Indices
<1>1. ASSUME i \in DOMAIN rows, j \in DOMAIN rows,
             rows[i].trigger = t, ~rows[i].manual, rows[j].trigger = t, ~rows[j].manual,
             rows[i].epoch = rows[j].epoch
      PROVE  rows[j].due > rows[i].at
  BY <1>1 DEF NoReplay, Scheduled, Indices
<1>2. CASE RowsKept
  BY <1>0, <1>1, <1>2 DEF RowsKept
<1>3. CASE TickInsert
  <2>1. PICK row \in pass.cur, r \in RunRow :
          /\ RowAdded(r) /\ r.trigger = row.id /\ r.due = row.next /\ r.epoch = epoch[row.id]
    BY <1>3, TickInsertEffect
  <2>2. CASE j \in DOMAIN rows
    <3>1. i \in DOMAIN rows
      BY <1>0, <2>1, <2>2 DEF RowAdded
    <3> QED BY <1>0, <1>1, <2>1, <2>2, <3>1 DEF RowAdded
  <2>3. CASE j \notin DOMAIN rows
    <3>1. rows'[j] = r /\ i \in DOMAIN rows /\ rows'[i] = rows[i]
      BY <1>0, <2>1, <2>3 DEF RowAdded
    <3>2. AfterAll(row.id, row.next)
      BY <1>3, <2>1 DEF FireInv, SnapOK, TickInsert
    <3>3. rows[i].at < row.next
      BY <1>0, <2>1, <3>1, <3>2 DEF AfterAll
    <3> QED BY <2>1, <3>1, <3>3, RowFields
  <2> QED BY <2>2, <2>3
<1>4. ASSUME NEW u \in Trigger, Fire(u)
      PROVE  rows'[j].due > rows'[i].at
  <2>1. PICK r \in RunRow : RowAdded(r) /\ r.manual = TRUE
    BY <1>4, FireEffect
  <2>2. i \in DOMAIN rows /\ j \in DOMAIN rows /\ rows'[i] = rows[i] /\ rows'[j] = rows[j]
    BY <1>0, <2>1 DEF RowAdded
  <2> QED BY <1>0, <1>1, <2>2
<1> QED BY <1>2, <1>3, <1>4, RowsStep
-----------------------------------------------------------------------------
(* last_run_id.                                                            *)

\* The scheduled runs are the same ones, and so are the skipped ones of them.
SameRecord ==
    \A t \in Trigger :
        /\ Scheduled(t)' = Scheduled(t)
        /\ \A i \in Scheduled(t) : rows'[i].status = "skipped" <=> rows[i].status = "skipped"

\* Neither the executor nor a manual run changes the scheduled runs.
LEMMA RecordKept ==
    ASSUME TypeOK, RowsKept \/ \E t \in Trigger : Fire(t)
    PROVE  SameRecord
<1>1. CASE RowsKept
  BY <1>1 DEF RowsKept, SameRecord, Scheduled, Indices
<1>2. ASSUME NEW t \in Trigger, Fire(t)
      PROVE  SameRecord
  <2>1. PICK r \in RunRow : RowAdded(r) /\ r.manual = TRUE
    BY <1>2, FireEffect
  <2>2. ASSUME NEW i \in DOMAIN rows', ~rows'[i].manual
        PROVE  i \in DOMAIN rows
    BY <2>1, <2>2 DEF RowAdded
  <2>3. DOMAIN rows \subseteq DOMAIN rows' /\ \A i \in DOMAIN rows : rows'[i] = rows[i]
    BY <2>1 DEF RowAdded
  <2> QED BY <2>2, <2>3 DEF SameRecord, Scheduled, Indices
<1> QED BY <1>1, <1>2

\* The steps that insert no scheduled run and record none.
LEMMA LastKept ==
    ASSUME TypeOK, FireInv, LastInv, SameRecord,
           \/ pass' = pass /\ mishaps' = mishaps
           \/ pass.pc # "update" /\ pass'.pc # "update" /\ mishaps' = mishaps
           \/ pass'.pc # "update" /\ mishaps' # 0,
           \A t \in Trigger : trig'[t].state = "there" =>
              \/ trig[t].state = "there" /\ trig'[t].last = trig[t].last
              \/ trig[t].state = "new" /\ trig'[t].last = 0
    PROVE  LastInv'
<1>1. InsertOK'
  <2>1. CASE pass'.pc # "update"
    BY <2>1 DEF InsertOK
  <2>2. CASE pass' = pass
    <3>1. \A row \in pass.cur : row.id \in Trigger
      BY DEF TypeOK, Pass, Snapshot
    <3> QED BY <2>2, <3>1 DEF LastInv, InsertOK, SameRecord
  <2> QED BY <2>1, <2>2
<1>2. ASSUME NEW t \in Trigger
      PROVE  LastOK(t)'
  <2>1. Enqueued(t)' = Enqueued(t)
    BY DEF SameRecord, Enqueued
  <2>2. CASE trig[t].state = "new" /\ trig'[t].last = 0
    <3>1. Enqueued(t) = {}
      BY <2>2 DEF FireInv, RowOK, Enqueued, Scheduled, Indices
    <3> QED BY <2>1, <2>2, <3>1 DEF LastOK
  <2>3. CASE trig[t].state = "there" /\ trig'[t].last = trig[t].last
    <3>1. trig'[t].last # 0 => trig'[t].last \in Enqueued(t)'
      BY <2>1, <2>3 DEF LastInv, LastOK
    <3>2. ASSUME mishaps' = 0, ~(Halfway(t)' /\ ~pass'.overlapping)
          PROVE  mishaps = 0 /\ ~(Halfway(t) /\ ~pass.overlapping)
      BY <3>2 DEF Halfway
    <3> QED BY <2>1, <2>3, <3>1, <3>2 DEF LastInv, LastOK
  <2> QED BY <2>2, <2>3 DEF LastOK
<1> QED BY <1>1, <1>2 DEF LastInv

\* The inserted run is the newest; it is enqueued unless the firing was skipped.
LEMMA TickInsertLasts ==
    ASSUME TypeOK, FireInv, LastInv, TickInsert
    PROVE  LastInv'
<1> USE TickInsertEffect
<1>1. PICK row \in pass.cur, r \in RunRow :
        /\ RowAdded(r) /\ r.trigger = row.id /\ r.manual = FALSE
        /\ r.status = IF pass.overlapping THEN "skipped" ELSE "queued"
  OBVIOUS
<1>2. /\ row.id \in Trigger /\ \A x \in pass.cur : x = row
      /\ pass.pc = "insert" /\ pass'.pc = "update"
      /\ pass'.cur = pass.cur /\ pass'.overlapping = pass.overlapping
      /\ UNCHANGED <<trig, mishaps>>
  BY DEF FireInv, PassOK, TypeOK, Pass, Snapshot
<1>3. PICK k \in Nat : /\ k = Len(rows) + 1 /\ rows'[k] = r
                       /\ DOMAIN rows' = DOMAIN rows \cup {k} /\ k \notin DOMAIN rows
                       /\ \A i \in DOMAIN rows : rows'[i] = rows[i] /\ i <= k
  BY <1>1, RowFields DEF RowAdded
<1>4. /\ Scheduled(row.id)' = Scheduled(row.id) \cup {k}
      /\ \A t \in Trigger : t # row.id => Scheduled(t)' = Scheduled(t)
  <2>1. \A t \in Trigger : \A i \in DOMAIN rows : i \in Scheduled(t)' <=> i \in Scheduled(t)
    BY <1>3 DEF Scheduled, Indices
  <2>2. k \in Scheduled(row.id)' /\ \A t \in Trigger : t # row.id => k \notin Scheduled(t)'
    BY <1>1, <1>3 DEF Scheduled, Indices
  <2>3. \A t \in Trigger : Scheduled(t) \subseteq DOMAIN rows /\ Scheduled(t)' \subseteq DOMAIN rows \cup {k}
    BY <1>3 DEF Scheduled, Indices
  <2> QED BY <1>2, <2>1, <2>2, <2>3
<1>5. InsertOK'
  <2>1. \A j \in Scheduled(row.id)' : j <= k
    BY <1>3, <1>4 DEF Scheduled, Indices
  <2>2. ~pass.overlapping => rows'[k].status # "skipped"
    BY <1>1, <1>3
  <2> QED BY <1>2, <1>4, <2>1, <2>2 DEF InsertOK
<1>6. ASSUME NEW t \in Trigger
      PROVE  LastOK(t)'
  <2>0. \A i \in Scheduled(t) : rows'[i] = rows[i]
    BY <1>3 DEF Scheduled, Indices
  <2>1. Enqueued(t) \subseteq Enqueued(t)'
    BY <1>4, <2>0 DEF Enqueued
  <2>2. ~Halfway(t)
    BY <1>2 DEF Halfway
  <2>3. CASE t # row.id \/ pass.overlapping
    <3>1. ASSUME NEW i \in Enqueued(t)' PROVE i \in Enqueued(t)
      <4>1. CASE t # row.id
        BY <1>4, <2>0, <3>1, <4>1 DEF Enqueued
      <4>2. CASE pass.overlapping /\ t = row.id
        <5>1. i # k
          BY <1>1, <1>3, <3>1, <4>2 DEF Enqueued
        <5> QED BY <1>4, <2>0, <3>1, <4>2, <5>1 DEF Enqueued
      <4> QED BY <2>3, <4>1, <4>2
    <3> QED BY <1>2, <2>1, <2>2, <3>1 DEF LastInv, LastOK
  <2>4. CASE t = row.id /\ ~pass.overlapping
    <3>1. Halfway(t)' /\ ~pass'.overlapping
      BY <1>2, <2>4 DEF Halfway
    <3> QED BY <1>2, <2>1, <3>1 DEF LastInv, LastOK
  <2> QED BY <2>3, <2>4
<1> QED BY <1>5, <1>6 DEF LastInv

\* The recorded run is the newest one enqueued.
LEMMA TickUpdateLasts ==
    ASSUME TypeOK, FireInv, LastInv, TickUpdate
    PROVE  LastInv'
<1> USE TickUpdateEffect
<1>1. PICK row \in pass.cur :
        \/ trig[row.id].state # "there" /\ trig' = trig
        \/ /\ trig[row.id].state = "there"
           /\ \E q \in TriggerRow :
                /\ TrigSet(row.id, q) /\ q.state = "there"
                /\ q.last = IF pass.overlapping THEN trig[row.id].last ELSE LastScheduled(row.id)
  BY TickUpdateTrig DEF LastInv
<1>2. row.id \in Trigger /\ \A x \in pass.cur : x = row
  BY DEF FireInv, PassOK, TypeOK, Pass, Snapshot
<1>3. InsertOK'
  BY DEF InsertOK
<1>4. \A t \in Trigger : Scheduled(t)' = Scheduled(t) /\ Enqueued(t)' = Enqueued(t)
  BY DEF Scheduled, Enqueued, Indices
<1>5. ASSUME NEW t \in Trigger, t # row.id
      PROVE  LastOK(t)'
  <2>1. trig'[t] = trig[t]
    BY <1>1, <1>5 DEF TrigSet
  <2>2. ~Halfway(t)
    BY <1>2, <1>5 DEF Halfway
  <2> QED BY <1>4, <2>1, <2>2 DEF LastInv, LastOK
<1>6. LastOK(row.id)'
  <2>1. CASE trig[row.id].state # "there"
    BY <1>1, <2>1 DEF LastOK
  <2>2. CASE trig[row.id].state = "there"
    <3>1. PICK q \in TriggerRow :
            /\ TrigSet(row.id, q) /\ q.state = "there"
            /\ q.last = IF pass.overlapping THEN trig[row.id].last ELSE LastScheduled(row.id)
      BY <1>1, <2>2
    <3>2. CASE pass.overlapping
      <4>1. trig'[row.id].last = trig[row.id].last
        BY <3>1, <3>2 DEF TrigSet
      <4> QED BY <1>2, <1>4, <2>2, <3>2, <4>1 DEF LastInv, LastOK
    <3>3. CASE ~pass.overlapping
      <4>1. PICK i \in Scheduled(row.id) :
              (\A j \in Scheduled(row.id) : j <= i) /\ rows[i].status # "skipped"
        BY <3>3 DEF LastInv, InsertOK
      <4>2. trig'[row.id].last = i
        BY <1>2, <3>1, <3>3, <4>1, LastScheduledIs DEF TrigSet
      <4>3. i \in Enqueued(row.id) /\ \A j \in Enqueued(row.id) : j <= i
        BY <4>1 DEF Enqueued
      <4> QED BY <1>2, <1>4, <4>2, <4>3 DEF LastOK
    <3> QED BY <3>2, <3>3
  <2> QED BY <2>1, <2>2
<1> QED BY <1>3, <1>5, <1>6 DEF LastInv

\* Every step keeps last_run_id right.
LEMMA LastStep == TypeOK /\ FireInv /\ LastInv /\ [Next]_vars => LastInv'
<1> SUFFICES ASSUME TypeOK, FireInv, LastInv, [Next]_vars
             PROVE  LastInv'
  OBVIOUS
<1>0. rows \in Seq(RunRow)
  BY DEF TypeOK
<1>1. CASE TickInsert
  BY <1>1, TickInsertLasts
<1>2. CASE TickUpdate
  BY <1>2, TickUpdateLasts
<1>3. CASE TickStart \/ TickOverlap \/ TickEnd
  <2>1. rows' = rows /\ trig' = trig /\ mishaps' = mishaps
    BY <1>3 DEF TickStart, TickOverlap, TickEnd
  <2>2. pass.pc # "update" /\ pass'.pc # "update"
    BY <1>3, TickStartEffect, TickOverlapEffect, IdleType DEF TickEnd
  <2>3. SameRecord
    BY <1>0, <2>1, StutterKeeps, RecordKept
  <2> QED BY <2>1, <2>2, <2>3, LastKept
<1>4. CASE TickFails \/ Restart
  <2>1. SameRecord /\ trig' = trig /\ mishaps' # 0 /\ pass'.pc # "update"
    BY <1>4, GiveUpEffect, RecordKept, IdleType
  <2> QED BY <2>1, LastKept
<1>5. ASSUME NEW t \in Trigger, NEW p \in Period, SetRead(t, p)
      PROVE  LastInv'
  <2>1. UNCHANGED <<trig, rows, pass, mishaps>>
    BY <1>5, SetReadEffect
  <2>2. SameRecord
    BY <1>0, <2>1, StutterKeeps, RecordKept
  <2> QED BY <2>1, <2>2, LastKept
<1>6. ASSUME NEW t \in Trigger, Pause(t) \/ Resume(t) \/ Remove(t)
      PROVE  LastInv'
  <2>1. UNCHANGED <<rows, pass, mishaps>> /\ trig[t].state = "there"
    BY <1>6, SwitchEffect
  <2>2. SameRecord
    BY <1>0, <2>1, StutterKeeps, RecordKept
  <2>3. PICK q \in TriggerRow :
          TrigSet(t, q) /\ (q.state = "there" => q.last = trig[t].last)
    BY <1>6, SwitchEffect
  <2>4. \A u \in Trigger : trig'[u].state = "there" =>
            trig[u].state = "there" /\ trig'[u].last = trig[u].last
    BY <2>1, <2>3 DEF TrigSet
  <2> QED BY <2>1, <2>2, <2>4, LastKept
<1>7. ASSUME NEW t \in Trigger, Fire(t)
      PROVE  LastInv'
  <2>1. UNCHANGED <<trig, pass, mishaps>>
    BY <1>7, FireEffect
  <2>2. SameRecord
    BY <1>7, RecordKept
  <2> QED BY <2>1, <2>2, LastKept
<1>8. ASSUME NEW c \in call, SetCreate(c)
      PROVE  LastInv'
  <2>1. UNCHANGED <<rows, pass, mishaps>> /\ c.id \in Trigger /\ trig[c.id].state = "new"
    BY <1>8, SetCreateEffect DEF FireInv, CallOK
  <2>2. SameRecord
    BY <1>0, <2>1, StutterKeeps, RecordKept
  <2>3. trig' = trig \/ \E q \in TriggerRow : TrigSet(c.id, q) /\ q.last = 0
    BY <1>8, SetCreateEffect
  <2>4. \A u \in Trigger : trig'[u].state = "there" =>
            \/ trig[u].state = "there" /\ trig'[u].last = trig[u].last
            \/ trig[u].state = "new" /\ trig'[u].last = 0
    BY <2>1, <2>3 DEF TrigSet
  <2> QED BY <2>1, <2>2, <2>4, LastKept
<1>9. ASSUME NEW c \in call, SetUpdate(c)
      PROVE  LastInv'
  <2>1. UNCHANGED <<rows, pass, mishaps>> /\ c.id \in Trigger
    BY <1>9, SetUpdateEffect
  <2>2. SameRecord
    BY <1>0, <2>1, StutterKeeps, RecordKept
  <2>3. \/ trig' = trig
        \/ /\ trig[c.id].state = "there"
           /\ \E q \in TriggerRow : TrigSet(c.id, q) /\ q.last = trig[c.id].last
    BY <1>9, SetUpdateEffect
  <2>4. \A u \in Trigger : trig'[u].state = "there" =>
            trig[u].state = "there" /\ trig'[u].last = trig[u].last
    BY <2>1, <2>3 DEF TrigSet
  <2> QED BY <2>1, <2>2, <2>4, LastKept
<1>10. CASE Advance \/ UNCHANGED vars \/ \E i \in DOMAIN rows : StartRun(i) \/ EndRun(i)
  <2>1. RowsKept /\ UNCHANGED <<trig, pass, mishaps>>
    BY <1>10, QuietEffect DEF Quiet
  <2>2. SameRecord
    BY <2>1, RecordKept
  <2> QED BY <2>1, <2>2, LastKept
<1> QED BY <1>1, <1>2, <1>3, <1>4, <1>5, <1>6, <1>7, <1>8, <1>9, <1>10
        DEF Next, Tick, Call

-----------------------------------------------------------------------------
(* One run at a time.                                                      *)

\* A step that adds no run and checks no overlap opens none.
LEMMA OpenKept ==
    ASSUME TypeOK, OpenInv, RowsKept, pass' = pass \/ pass'.pc # "insert"
    PROVE  OpenInv'
<1> SUFFICES ASSUME NEW t \in Trigger PROVE OpenOK(t)'
  BY DEF OpenInv
<1>1. Plain(t)' => Plain(t)
  BY DEF Plain, RowsKept
<1> QED BY <1>1 DEF OpenInv, OpenOK, RowsKept

\* A trigger whose newest run is not open has no open run.
LEMMA TickOverlapOpens ==
    ASSUME TypeOK, OpenInv, TickOverlap
    PROVE  OpenInv'
<1> USE TickOverlapEffect
<1>1. PICK row \in pass.due : pass'.cur = {row} /\ pass'.overlapping = Overlapping(row.id)
  OBVIOUS
<1> SUFFICES ASSUME NEW t \in Trigger PROVE OpenOK(t)'
  BY DEF OpenInv
<1>2. Plain(t)' => Plain(t)
  BY DEF Plain
<1>3. ASSUME Plain(t), t = row.id, ~Overlapping(t), NEW i \in DOMAIN rows, rows[i].trigger = t
      PROVE  rows[i].status \notin Open
  BY <1>3 DEF OpenInv, OpenOK, Overlapping, Indices
<1> HIDE DEF Overlapping
<1> QED BY <1>1, <1>2, <1>3 DEF OpenInv, OpenOK

\* A run is enqueued only when the overlap check found none open.
LEMMA TickInsertOpens ==
    ASSUME TypeOK, OpenInv, TickInsert
    PROVE  OpenInv'
<1> USE TickInsertEffect
<1>1. PICK row \in pass.cur, r \in RunRow :
        /\ RowAdded(r) /\ r.trigger = row.id
        /\ r.status = IF pass.overlapping THEN "skipped" ELSE "queued"
  OBVIOUS
<1>2. PICK k \in Nat : /\ k = Len(rows) + 1 /\ rows'[k] = r
                       /\ DOMAIN rows' = DOMAIN rows \cup {k} /\ k \notin DOMAIN rows
                       /\ \A i \in DOMAIN rows : rows'[i] = rows[i] /\ i <= k
  BY <1>1, RowFields DEF RowAdded
<1> SUFFICES ASSUME NEW t \in Trigger PROVE OpenOK(t)'
  BY DEF OpenInv
<1>3. SUFFICES ASSUME Plain(t)',
                      NEW i \in DOMAIN rows', NEW j \in DOMAIN rows',
                      rows'[i].trigger = t, rows'[j].trigger = t, rows'[i].status \in Open
               PROVE  j <= i
  BY DEF OpenOK
<1>4. Plain(t)
  BY <1>2, <1>3 DEF Plain
<1>5. CASE i = k
  BY <1>2, <1>3, <1>5
<1>6. CASE i # k /\ j # k
  BY <1>2, <1>3, <1>4, <1>6 DEF OpenInv, OpenOK
<1>7. CASE i # k /\ j = k
  <2>1. t = row.id /\ ~pass.overlapping
    BY <1>1, <1>2, <1>3, <1>7 DEF Plain
  <2>2. \A x \in DOMAIN rows : rows[x].trigger = t => rows[x].status \notin Open
    BY <1>4, <2>1 DEF OpenInv, OpenOK
  <2> QED BY <1>2, <1>3, <1>7, <2>2
<1> QED BY <1>5, <1>6, <1>7

\* A trigger fired by hand is not Plain any more, and the others do not notice.
LEMMA FireOpens ==
    ASSUME TypeOK, OpenInv, NEW u \in Trigger, Fire(u)
    PROVE  OpenInv'
<1>1. PICK r \in RunRow : RowAdded(r) /\ r.trigger = u /\ r.manual = TRUE
  BY FireEffect
<1>2. pass' = pass
  BY FireEffect
<1>3. PICK k \in Nat : /\ rows'[k] = r
                       /\ DOMAIN rows' = DOMAIN rows \cup {k} /\ k \notin DOMAIN rows
                       /\ \A i \in DOMAIN rows : rows'[i] = rows[i]
  BY <1>1, RowFields DEF RowAdded
<1> SUFFICES ASSUME NEW t \in Trigger, Plain(t)' PROVE OpenOK(t)'
  BY DEF OpenInv, OpenOK
<1>4. t # u
  BY <1>1, <1>3 DEF Plain
<1>5. Plain(t)
  BY <1>3 DEF Plain
<1>6. \A i \in DOMAIN rows' : rows'[i].trigger = t => i \in DOMAIN rows /\ rows'[i] = rows[i]
  BY <1>1, <1>3, <1>4
<1> QED BY <1>2, <1>5, <1>6 DEF OpenInv, OpenOK

\* Every step keeps OpenInv.
LEMMA OpenStep == TypeOK /\ OpenInv /\ [Next]_vars => OpenInv'
<1> SUFFICES ASSUME TypeOK, OpenInv, [Next]_vars
             PROVE  OpenInv'
  OBVIOUS
<1>1. CASE TickOverlap
  BY <1>1, TickOverlapOpens
<1>2. CASE TickInsert
  BY <1>2, TickInsertOpens
<1>3. ASSUME NEW t \in Trigger, Fire(t)
      PROVE  OpenInv'
  BY <1>3, FireOpens
<1>4. CASE pass' = pass \/ pass'.pc # "insert"
  BY <1>2, <1>3, <1>4, OpenKept, RowsStep
<1>5. TickOverlap \/ pass' = pass \/ pass'.pc # "insert"
  <2>1. CASE TickStart \/ TickInsert \/ TickUpdate \/ TickEnd \/ TickFails \/ Restart
    BY <2>1, TickStartEffect, TickInsertEffect, TickUpdateEffect, IdleType
       DEF TickEnd, TickFails, Restart
  <2>2. ASSUME NEW t \in Trigger,
               Pause(t) \/ Resume(t) \/ Remove(t) \/ Fire(t) \/ \E p \in Period : SetRead(t, p)
        PROVE  pass' = pass
    BY <2>2 DEF Pause, Resume, Remove, Fire, SetRead
  <2>3. ASSUME NEW c \in call, SetCreate(c) \/ SetUpdate(c)
        PROVE  pass' = pass
    BY <2>3 DEF SetCreate, SetUpdate
  <2>4. CASE Advance \/ UNCHANGED vars \/ \E i \in DOMAIN rows : StartRun(i) \/ EndRun(i)
    BY <2>4 DEF Advance, vars, StartRun, EndRun
  <2> QED BY <2>1, <2>2, <2>3, <2>4 DEF Next, Tick, Call
<1> QED BY <1>1, <1>4, <1>5

-----------------------------------------------------------------------------
(* Theorems.                                                               *)

\* At the start there are no triggers, runs or calls.
LEMMA InvInit == Init => FireInv /\ LastInv /\ OpenInv /\ NoReplay
<1> SUFFICES ASSUME Init PROVE FireInv /\ LastInv /\ OpenInv /\ NoReplay
  OBVIOUS
<1>1. DOMAIN rows = {} /\ call = {} /\ pass.pc = "idle" /\ pass.cur = {} /\ pass.due = {}
  BY IdleType DEF Init
<1>2. \A t \in Trigger : trig[t].state = "new"
  BY DEF Init
<1>3. FireInv
  BY <1>1, <1>2 DEF FireInv, PassOK, CallOK, SnapOK, FireOK
<1>4. LastInv
  BY <1>1, <1>2 DEF LastInv, InsertOK, LastOK
<1>5. OpenInv
  BY <1>1 DEF OpenInv, OpenOK
<1>6. NoReplay
  BY <1>1 DEF NoReplay, Scheduled, Indices
<1> QED BY <1>3, <1>4, <1>5, <1>6

\* The three invariants and NoReplay hold together: a tick's types need the run it
\* inserted to be there when it records it.
THEOREM InvariantHolds ==
    Spec => [](TypeOK /\ FireInv /\ LastInv /\ OpenInv /\ NoReplay)
<1> DEFINE Inv == TypeOK /\ FireInv /\ LastInv /\ OpenInv /\ NoReplay
<1>1. Init => Inv
  BY TypeInit, InvInit
<1>2. Inv /\ [Next]_vars => Inv'
  <2> SUFFICES ASSUME Inv, [Next]_vars PROVE Inv'
    OBVIOUS
  <2>1. InsertOK
    BY DEF LastInv
  <2>2. TypeOK'
    BY <2>1, TypeStep
  <2>3. FireInv'
    BY <2>1, <2>2, FireStep
  <2> QED BY <2>2, <2>3, LastStep, OpenStep, ReplayStep
<1> QED BY <1>1, <1>2, PTL DEF Spec

\* Type correctness: next_unix stays within the horizon and last_run_id is a run.
THEOREM TypeCorrect == Spec => []TypeOK
BY InvariantHolds, PTL

\* triggers.rs tick_once: no trigger fires for an occurrence that an earlier tick
\* of the same undisturbed record already covered, however late the ticks come.
THEOREM NoReplays == Spec => []NoReplay
BY InvariantHolds, PTL

\* db.rs update_trigger_after_fire: last_run_id names a run the schedule enqueued,
\* and the newest one while no pass was cut short.
THEOREM LastRunsAreReal == Spec => []LastRunIsReal
<1>1. LastInv => LastRunIsReal
  BY DEF LastInv, LastOK, LastRunIsReal, There, Halfway
<1> QED BY <1>1, InvariantHolds, PTL

\* A set any two members of which are the same has one member at most.
LEMMA AtMostOne ==
    ASSUME NEW S, \A x, y \in S : x = y
    PROVE  Cardinality(S) <= 1
<1>1. CASE S = {}
  BY <1>1, FS_EmptySet
<1>2. ASSUME NEW x \in S PROVE Cardinality(S) <= 1
  <2>1. S = {x}
    OBVIOUS
  <2> QED BY <2>1, FS_Singleton
<1> QED BY <1>1, <1>2

\* triggers.rs tick_once: while a trigger never skipped and was never fired by hand,
\* at most one of its runs is open, through restarts and failed passes.
THEOREM RunsOneAtATime == Spec => []OneAtATime
<1>1. TypeOK /\ OpenInv => OneAtATime
  <2> SUFFICES ASSUME TypeOK, OpenInv, NEW t \in Trigger,
                      \A i \in Indices(t) : ~rows[i].manual /\ rows[i].status # "skipped"
               PROVE  Cardinality({i \in Indices(t) : rows[i].status \in Open}) <= 1
    BY DEF OneAtATime
  <2> DEFINE S == {i \in Indices(t) : rows[i].status \in Open}
  <2>1. Plain(t)
    BY DEF Plain, Indices
  <2>2. ASSUME NEW x \in S, NEW y \in S PROVE x = y
    <3>1. x <= y /\ y <= x
      BY <2>1, <2>2 DEF OpenInv, OpenOK, Indices
    <3>2. x \in Nat /\ y \in Nat
      BY <2>2, RowFields DEF Indices
    <3> QED BY <3>1, <3>2
  <2> HIDE DEF S
  <2>3. Cardinality(S) <= 1
    BY <2>2, AtMostOne
  <2> QED BY <2>3 DEF S
<1> QED BY <1>1, InvariantHolds, PTL
=============================================================================
