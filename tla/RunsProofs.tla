----------------------------- MODULE RunsProofs -----------------------------
(***************************************************************************)
(* Theorems about module Runs, for any number of runs, tenants, parts,     *)
(* restarts and faults. IndInv is the inductive invariant: it says for     *)
(* every row which tasks, leases, parts and records can go with its        *)
(* status. The safety properties, the refinement of RunLifecycle and the   *)
(* action properties follow from it; the concurrency caps need CapsOK on   *)
(* top, which remembers the checks the leasing loop has already made.      *)
(***************************************************************************)
EXTENDS Runs, FiniteSetTheorems, WellFoundedInduction, TLAPS

\* ORDER BY rowid LIMIT 1 of lease_next_queued_run returns one of the rows it ranges
\* over: a nonempty set of run ids has a least element. (The initial segments below
\* the members are ordered by inclusion, which is well founded on a finite set.)
LEMMA OldestInSet ==
    ASSUME NEW S, S \subseteq RunId, S # {}
    PROVE  Oldest(S) \in S
<1> DEFINE U == 0..MaxRuns
           Seg(x) == 0..x
           T == {Seg(x) : x \in S}
<1>1. S \subseteq Nat /\ \A x \in S : Seg(x) \subseteq U
  BY BoundsAssumption DEF RunId
<1>2. FiniteSubsetsOf(U) = SUBSET U
  <2>1. IsFiniteSet(U)
    BY BoundsAssumption, FS_Interval
  <2> HIDE DEF U
  <2> QED BY <2>1, FS_FiniteSubsetsOfFinite
<1>3. IsWellFoundedOn(StrictSubsetOrdering(U), SUBSET U)
  BY <1>2, FS_StrictSubsetOrderingWellFounded
<1>4. T \subseteq SUBSET U /\ T # {}
  BY <1>1
<1>5. \E s \in T : \A u \in T : ~(<<u, s>> \in StrictSubsetOrdering(U))
  <2> HIDE DEF T, U
  <2> QED BY <1>3, <1>4, WFMin
<1>6. PICK x \in S : \A y \in S : ~(<<Seg(y), Seg(x)>> \in StrictSubsetOrdering(U))
  BY <1>5
<1>7. ASSUME NEW y \in S, y < x
      PROVE  FALSE
  <2>1. Seg(y) \subseteq Seg(x) /\ Seg(y) # Seg(x)
    <3>1. x \in Seg(x) /\ x \notin Seg(y)
      BY <1>1, <1>7
    <3> QED BY <3>1, <1>1, <1>7
  <2>2. <<Seg(y), Seg(x)>> \in StrictSubsetOrdering(U)
    <3>1. Seg(y) \in SUBSET U /\ Seg(x) \in SUBSET U
      BY <1>1
    <3> HIDE DEF Seg, U
    <3> QED BY <2>1, <3>1 DEF StrictSubsetOrdering
  <2> QED BY <1>6, <2>2
<1>8. \A y \in S : x <= y
  BY <1>1, <1>7
<1> QED
  BY <1>8 DEF Oldest
-----------------------------------------------------------------------------
(* The inductive invariant.                                                *)

\* What the ledger row of a run says about its task and its history.
RowOK(r) ==
    /\ runs[r].status = "none" => runs[r] = NoRow /\ job[r].pc = "idle"
    /\ runs[r].status # "none" => runs[r].attempt \in 1..2
    /\ leases[r] <= runs[r].attempt
    /\ runs[r].status = "queued" => job[r].pc = "idle" /\ leases[r] < runs[r].attempt
    /\ runs[r].status = "done" => job[r].pc \in {"idle", "record"}
                                   /\ 1..runs[r].result \subseteq parts[r]

\* What the task of a run has stored and recorded when it reaches each step.
TaskOK(r) ==
    /\ job[r].pc = "build" => runs[r].tool = "export"
    /\ job[r].pc = "check" => job[r].k = 0 /\ job[r].n > 0
    /\ job[r].pc = "store" => job[r].k < job[r].n /\ 1..job[r].k \subseteq parts[r]
    /\ job[r].pc = "final" /\ job[r].out = "done" => 1..job[r].n \subseteq parts[r]
    /\ job[r].pc = "record" => runs[r].status \in Terminal \ {"cancelled"} /\ records[r] = 0
    /\ records[r] <= 1
    /\ records[r] = 1 => runs[r].status \in Terminal \ {"cancelled"} /\ job[r].pc = "idle"

\* A purge only ever deletes the parts of done rows that name no result any more.
PurgingOK ==
    \A p \in purging : runs[p[1]].status = "done" /\ runs[p[1]].result = 0

\* No task outlives its process, and start-up leaves no first attempt running.
HostOK ==
    /\ host \in {"down", "booting"} => \A r \in RunId : job[r].pc = "idle"
    /\ host = "booting" => \A r \in RunId : runs[r].status = "running" => runs[r].attempt = 2

\* The inductive invariant.
IndInv ==
    /\ TypeOK
    /\ \A r \in RunId : RowOK(r) /\ TaskOK(r)
    /\ PurgingOK
    /\ HostOK
    /\ RunningIsExecuted
    /\ OneExportBuild

\* The records the actions build have their types.
LEMMA Values ==
    /\ NoTask \in Task /\ NoRow \in Row
    /\ \A c \in {"idle", "exec", "build", "check", "store", "final", "record"},
          s \in {"done", "error", "timeout"}, n \in 0..MaxParts : TaskAt(c, s, n) \in Task
    /\ \A s \in Open, tool \in {"job", "export"} : NewRow(s, tool) \in Row
BY BoundsAssumption DEF Task, NoTask, TaskAt, Row, NoRow, NewRow, Status, Open

\* A step that moves one task forward, and neither rows, records nor leases, preserves
\* the invariant when what the new step claims is stored.
LEMMA TaskMoves ==
    ASSUME IndInv, NEW r \in RunId, NEW new \in Task,
           job[r].pc \notin {"idle", "record"}, Alive,
           job' = [job EXCEPT ![r] = new],
           UNCHANGED <<runs, parts, key, tick, purging, host, restarts, leases, records>>,
           faults' \in {faults, faults + 1},
           new.pc \in {"idle", "check", "store", "final"},
           new.pc = "idle" => faults' > 0,
           new.pc = "check" => new.k = 0 /\ new.n > 0,
           new.pc = "store" => new.k < new.n /\ 1..new.k \subseteq parts[r],
           new.pc = "final" => new.out # "done" \/ 1..new.n \subseteq parts[r]
    PROVE  IndInv'
<1>1. TypeOK'
  BY DEF IndInv, TypeOK
<1>2. ASSUME NEW q \in RunId PROVE RowOK(q)' /\ TaskOK(q)'
  <2>1. CASE q # r
    BY <2>1 DEF IndInv, TypeOK, RowOK, TaskOK
  <2>2. CASE q = r
    <3>1. job'[r] = new
      BY DEF IndInv, TypeOK
    <3> QED BY <2>2, <3>1 DEF IndInv, RowOK, TaskOK
  <2> QED BY <2>1, <2>2
<1>3. PurgingOK'
  BY DEF IndInv, PurgingOK
<1>4. HostOK'
  BY DEF IndInv, HostOK, Alive
<1>5. RunningIsExecuted'
  BY DEF IndInv, TypeOK, RunningIsExecuted
<1>6. OneExportBuild'
  BY DEF IndInv, TypeOK, OneExportBuild
<1> QED BY <1>1, <1>2, <1>3, <1>4, <1>5, <1>6 DEF IndInv

\* A step that ends a set of open rows, none of them as done, preserves the invariant.
LEMMA RowsEnd ==
    ASSUME IndInv, NEW S, S \subseteq RunId, \A r \in S : runs[r].status \in Open,
           NEW s \in {"error", "cancelled"}, EndRows(S, s),
           \/ host' = host
           \/ host = "booting" /\ host' = "up"
           \/ host = "draining" /\ host' = "exiting",
           UNCHANGED <<parts, job, tick, purging, restarts, faults, leases, records>>
    PROVE  IndInv'
<1>0. ASSUME NEW r \in RunId
      PROVE  /\ runs'[r] \in Row
             /\ r \notin S => runs'[r] = runs[r]
             /\ r \in S => /\ runs'[r].status = s /\ runs'[r].tool = runs[r].tool
                           /\ runs'[r].attempt = runs[r].attempt
                           /\ runs'[r].result = runs[r].result
  BY DEF IndInv, TypeOK, EndRows, Row, Status, Terminal
<1>1. TypeOK'
  <2>1. runs' \in [RunId -> Row]
    BY <1>0 DEF EndRows
  <2>2. key' \in [RunId -> {"none", "checked", "live", "revoked"}]
    BY DEF IndInv, TypeOK, EndRows, Revoked
  <2> QED BY <2>1, <2>2 DEF IndInv, TypeOK
<1>2. ASSUME NEW q \in RunId PROVE RowOK(q)' /\ TaskOK(q)'
  <2>1. CASE q \notin S
    BY <1>0, <2>1 DEF IndInv, RowOK, TaskOK
  <2>2. CASE q \in S
    BY <1>0, <2>2 DEF IndInv, RowOK, TaskOK, Open, Terminal
  <2> QED BY <2>1, <2>2
<1>3. PurgingOK'
  BY <1>0 DEF IndInv, TypeOK, PurgingOK, Open
<1>4. HostOK'
  BY <1>0 DEF IndInv, HostOK
<1>5. RunningIsExecuted'
  BY <1>0 DEF IndInv, HostOK, RunningIsExecuted
<1>6. OneExportBuild'
  BY <1>0 DEF IndInv, OneExportBuild
<1> QED BY <1>1, <1>2, <1>3, <1>4, <1>5, <1>6 DEF IndInv

\* A step that changes no row, task, part, purge, record, lease or host preserves it.
LEMMA LedgerStays ==
    ASSUME IndInv, TypeOK',
           host' = host \/ (host = "up" /\ host' = "draining"),
           faults' = 0 => faults = 0,
           UNCHANGED <<runs, parts, job, purging, leases, records>>
    PROVE  IndInv'
BY DEF IndInv, RowOK, TaskOK, PurgingOK, HostOK, RunningIsExecuted, OneExportBuild

\* insert_queued_run preserves the invariant: a fresh row has no task and no history.
LEMMA InsertQueuedRunStep ==
    ASSUME IndInv, NEW r \in RunId, InsertQueuedRun(r)
    PROVE  IndInv'
<1>1. TypeOK'
  BY Values DEF IndInv, TypeOK, Open, InsertQueuedRun
<1>2. ASSUME NEW q \in RunId PROVE RowOK(q)' /\ TaskOK(q)'
  <2>1. CASE q # r
    BY <2>1 DEF IndInv, TypeOK, RowOK, TaskOK, InsertQueuedRun
  <2>2. CASE q = r
    <3>1. /\ runs[r].status = "none" /\ runs[r].attempt = 0 /\ job[r].pc = "idle"
          /\ leases[r] = 0 /\ records[r] <= 1 /\ records[r] # 1
      BY DEF IndInv, TypeOK, RowOK, TaskOK, InsertQueuedRun, Fresh, NoRow, Terminal
    <3>2. runs'[r].status = "queued" /\ runs'[r].attempt = 1
      BY DEF IndInv, TypeOK, InsertQueuedRun, NewRow, TaskAt
    <3> QED BY <2>2, <3>1, <3>2 DEF RowOK, TaskOK, InsertQueuedRun
  <2> QED BY <2>1, <2>2
<1>3. PurgingOK'
  BY DEF IndInv, TypeOK, PurgingOK, RowOK, InsertQueuedRun, Fresh, Alive, NoRow, NewRow
<1>4. HostOK'
  BY DEF IndInv, TypeOK, HostOK, InsertQueuedRun, Fresh, Alive, NoRow, NewRow
<1>5. RunningIsExecuted'
  BY DEF IndInv, TypeOK, RunningIsExecuted, RowOK, InsertQueuedRun, Fresh, Alive, NoRow, NewRow
<1>6. OneExportBuild'
  BY DEF IndInv, TypeOK, OneExportBuild, TaskOK, InsertQueuedRun, Fresh, Alive, NoRow, NewRow
<1> QED BY <1>1, <1>2, <1>3, <1>4, <1>5, <1>6 DEF IndInv

\* start_export_run preserves the invariant; that no other export of the tenant is
\* running is what keeps the archive builds single.
LEMMA StartExportRunStep ==
    ASSUME IndInv, NEW r \in RunId, StartExportRun(r)
    PROVE  IndInv'
<1>1. TypeOK'
  BY Values, BoundsAssumption DEF IndInv, TypeOK, Open, StartExportRun
<1>2. ASSUME NEW q \in RunId PROVE RowOK(q)' /\ TaskOK(q)'
  <2>1. CASE q # r
    BY <2>1 DEF IndInv, TypeOK, RowOK, TaskOK, StartExportRun
  <2>2. CASE q = r
    <3>1. /\ runs[r].status = "none" /\ runs[r].attempt = 0 /\ job[r].pc = "idle"
          /\ leases[r] = 0 /\ records[r] <= 1 /\ records[r] # 1
      BY DEF IndInv, TypeOK, RowOK, TaskOK, StartExportRun, Fresh, NoRow, Terminal
    <3>2. /\ runs'[r].status = "running" /\ runs'[r].attempt = 1 /\ runs'[r].tool = "export"
          /\ job'[r].pc = "build"
      BY DEF IndInv, TypeOK, StartExportRun, NewRow, TaskAt
    <3> QED BY <2>2, <3>1, <3>2 DEF RowOK, TaskOK, StartExportRun
  <2> QED BY <2>1, <2>2
<1>3. PurgingOK'
  BY DEF IndInv, TypeOK, PurgingOK, RowOK, StartExportRun, Fresh, Serving, Running, Of, NoRow, NewRow, TaskAt
<1>4. HostOK'
  BY DEF IndInv, TypeOK, HostOK, StartExportRun, Fresh, Serving, Running, Of, NoRow, NewRow, TaskAt
<1>5. RunningIsExecuted'
  BY DEF IndInv, TypeOK, RunningIsExecuted, RowOK, StartExportRun, Fresh, Serving, Running, Of, NoRow, NewRow, TaskAt
<1>6. OneExportBuild'
  BY DEF IndInv, TypeOK, OneExportBuild, TaskOK, StartExportRun, Fresh, Serving, Running, Of, NoRow, NewRow, TaskAt
<1> QED BY <1>1, <1>2, <1>3, <1>4, <1>5, <1>6 DEF IndInv

\* parse_bind touches nothing the invariant speaks of but the key's type.
LEMMA ParseBindStep ==
    ASSUME IndInv, NEW r \in RunId, ParseBind(r)
    PROVE  IndInv'
<1>1. TypeOK'
  BY DEF IndInv, TypeOK, ParseBind
<1> QED BY <1>1, LedgerStays DEF ParseBind

\* insert_sub_key touches nothing the invariant speaks of but the key's type.
LEMMA InsertSubKeyStep ==
    ASSUME IndInv, NEW r \in RunId, InsertSubKey(r)
    PROVE  IndInv'
<1>1. TypeOK'
  BY DEF IndInv, TypeOK, InsertSubKey
<1> QED BY <1>1, LedgerStays DEF InsertSubKey

\* cancel_run ends one open row, so RowsEnd applies.
LEMMA CancelRunStep ==
    ASSUME IndInv, NEW r \in RunId, CancelRun(r)
    PROVE  IndInv'
BY RowsEnd DEF CancelRun

\* reap_expired_runs and interrupt_running_runs end running rows, so RowsEnd applies,
\* whatever becomes of the process.
LEMMA EndExpiredStep ==
    ASSUME IndInv, ReapExpiredRuns \/ StartServing \/ DrainInterrupt
    PROVE  IndInv'
<1>1. CASE ReapExpiredRuns \/ StartServing
  <2>1. PICK S \in SUBSET Running(RunId) : EndRows(S, "error")
    BY <1>1 DEF ReapExpiredRuns, StartServing, EndExpired
  <2> QED BY <1>1, <2>1, RowsEnd DEF ReapExpiredRuns, StartServing, Running, Open
<1>2. CASE DrainInterrupt
  BY <1>2, RowsEnd DEF DrainInterrupt, Running, Open
<1> QED BY <1>1, <1>2

\* execute_job returning moves the task alone: nothing is stored yet.
LEMMA JobReturnsStep ==
    ASSUME IndInv, NEW r \in RunId, JobReturns(r)
    PROVE  IndInv'
<1>1. PICK new \in {TaskAt("check", "done", n) : n \in Part}
                     \cup {TaskAt("final", s, 0) : s \in {"error", "timeout"}} :
        job' = [job EXCEPT ![r] = new]
  BY DEF JobReturns
<1>2. new \in Task
  BY <1>1, Values, BoundsAssumption DEF Part
<1>3. \/ new.pc = "check" /\ new.k = 0 /\ new.n > 0
      \/ new.pc = "final" /\ new.out # "done"
  BY <1>1, BoundsAssumption DEF TaskAt, Part
<1> QED BY <1>1, <1>2, <1>3, TaskMoves DEF JobReturns

\* build_archive returning moves the task alone: nothing is stored yet.
LEMMA ArchiveBuiltStep ==
    ASSUME IndInv, NEW r \in RunId, ArchiveBuilt(r)
    PROVE  IndInv'
<1>1. PICK new \in {TaskAt("check", "done", 1), TaskAt("final", "error", 0)} :
        job' = [job EXCEPT ![r] = new]
  BY DEF ArchiveBuilt
<1>2. new \in Task
  BY <1>1, Values, BoundsAssumption
<1>3. \/ new.pc = "check" /\ new.k = 0 /\ new.n > 0
      \/ new.pc = "final" /\ new.out # "done"
  BY <1>1 DEF TaskAt
<1> QED BY <1>1, <1>2, <1>3, TaskMoves DEF ArchiveBuilt

\* The quota check of store_result_parts moves the task alone.
LEMMA CheckStateQuotaStep ==
    ASSUME IndInv, NEW r \in RunId, CheckStateQuota(r)
    PROVE  IndInv'
<1>1. PICK new \in {TaskAt("store", "done", job[r].n), TaskAt("final", "error", 0)} :
        job' = [job EXCEPT ![r] = new]
  BY DEF CheckStateQuota
<1>2. job[r].n \in 1..MaxParts
  BY BoundsAssumption DEF IndInv, TypeOK, Task, TaskOK, CheckStateQuota
<1>3. new \in Task
  BY <1>1, <1>2, Values, BoundsAssumption
<1>4. \/ new.pc = "store" /\ new.k = 0 /\ new.n > 0
      \/ new.pc = "final" /\ new.out # "done"
  BY <1>1, <1>2, BoundsAssumption DEF TaskAt
<1>5. 1..0 \subseteq parts[r]
  OBVIOUS
<1> QED BY <1>1, <1>3, <1>4, <1>5, TaskMoves DEF CheckStateQuota

\* A failed state_kv_set ends store_result_parts with an error outcome, which claims
\* no part.
LEMMA StorePartFailsStep ==
    ASSUME IndInv, NEW r \in RunId, StorePartFails(r) \/ FinalizeRunFails(r)
    PROVE  IndInv'
<1>1. CASE StorePartFails(r)
  <2>1. /\ TaskAt("final", "error", 0) \in Task
        /\ TaskAt("final", "error", 0).pc = "final" /\ TaskAt("final", "error", 0).out = "error"
    BY Values, BoundsAssumption DEF TaskAt
  <2> QED BY <1>1, <2>1, TaskMoves DEF StorePartFails
<1>2. CASE FinalizeRunFails(r)
  <2>1. NoTask \in Task /\ NoTask.pc = "idle" /\ faults + 1 > 0
    BY Values DEF NoTask, TaskAt, IndInv, TypeOK
  <2> QED BY <1>2, <2>1, TaskMoves DEF FinalizeRunFails
<1> QED BY <1>1, <1>2

\* The store loop: after k rounds the first k parts exist, so when it ends every part
\* that result_ref will name does.
LEMMA StorePartStep ==
    ASSUME IndInv, NEW r \in RunId, StorePart(r)
    PROVE  IndInv'
<1> DEFINE new == Stored(r, job[r].n)
<1>a. job[r] \in Task /\ job[r].k < job[r].n /\ job[r].n \in 0..MaxParts /\ job[r].k \in 0..MaxParts
  BY DEF IndInv, TypeOK, TaskOK, Task, StorePart
<1>b. /\ new \in Task
      /\ new.k = job[r].k + 1 /\ new.n = job[r].n /\ new.out = "done"
      /\ new.pc = IF job[r].k + 1 = job[r].n THEN "final" ELSE "store"
  BY <1>a, BoundsAssumption DEF Task, Stored
<1>c. job' = [job EXCEPT ![r] = new] /\ new.k \in Part
  BY <1>a, <1>b, BoundsAssumption DEF StorePart, Part
<1> HIDE DEF new
<1>1. TypeOK'
  <2>1. parts' \in [RunId -> SUBSET Part]
    BY <1>b, <1>c DEF IndInv, TypeOK, StorePart
  <2> QED BY <1>b, <1>c, <2>1 DEF IndInv, TypeOK, StorePart
<1>2. ASSUME NEW q \in RunId PROVE RowOK(q)' /\ TaskOK(q)'
  <2>1. CASE q # r
    BY <1>c, <2>1 DEF IndInv, TypeOK, RowOK, TaskOK, StorePart
  <2>2. CASE q = r
    <3>1. job'[r] = new /\ parts'[r] = parts[r] \cup {new.k} /\ runs' = runs
      BY <1>b, <1>c DEF IndInv, TypeOK, StorePart
    <3>2. 1..new.k \subseteq parts'[r]
      BY <3>1, <1>a, <1>b, BoundsAssumption DEF IndInv, TaskOK, StorePart
    <3>3. runs[r].status \notin {"none", "queued", "done"}
      BY DEF IndInv, RowOK, StorePart
    <3>4. RowOK(r)'
      BY <3>1, <3>3 DEF IndInv, RowOK, StorePart
    <3>5. new.pc = "store" => new.k < new.n
      BY <1>a, <1>b, BoundsAssumption
    <3>6. records'[r] <= 1 /\ records'[r] # 1
      BY DEF IndInv, TypeOK, TaskOK, StorePart
    <3>7. TaskOK(r)'
      BY <1>b, <3>1, <3>2, <3>5, <3>6 DEF TaskOK
    <3> QED BY <2>2, <3>4, <3>7
  <2> QED BY <2>1, <2>2
<1>3. PurgingOK'
  BY DEF IndInv, TypeOK, PurgingOK, RowOK, StorePart, Alive
<1>4. HostOK'
  BY DEF IndInv, TypeOK, HostOK, StorePart, Alive
<1>5. RunningIsExecuted'
  BY <1>b, <1>c DEF IndInv, TypeOK, RunningIsExecuted, StorePart
<1>6. OneExportBuild'
  BY <1>b, <1>c DEF IndInv, TypeOK, OneExportBuild, StorePart
<1> QED BY <1>1, <1>2, <1>3, <1>4, <1>5, <1>6 DEF IndInv

\* finalize_run, won, lost or failed: a row that becomes done names only parts its own
\* task has stored, and only the winner goes on to the end-of-run records.
LEMMA FinalizeRunStep ==
    ASSUME IndInv, NEW r \in RunId, FinalizeRun(r)
    PROVE  IndInv'
<1>a. job[r] \in Task /\ runs[r] \in Row /\ NoTask \in Task /\ AfterFinal(r) \in Task
  BY Values, BoundsAssumption DEF IndInv, TypeOK, AfterFinal
<1>b. CASE runs[r].status \notin Open
  <2>0. job' = [job EXCEPT ![r] = NoTask] /\ runs' = runs /\ key' = key
    BY <1>b DEF FinalizeRun
  <2>1. TypeOK'
    BY <1>a, <2>0 DEF IndInv, TypeOK, FinalizeRun
  <2>2. ASSUME NEW q \in RunId PROVE RowOK(q)' /\ TaskOK(q)'
    BY <2>0 DEF IndInv, TypeOK, RowOK, TaskOK, FinalizeRun, NoTask, TaskAt
  <2>3. PurgingOK' /\ HostOK'
    BY <2>0 DEF IndInv, PurgingOK, HostOK, FinalizeRun, Alive
  <2>4. RunningIsExecuted' /\ OneExportBuild'
    BY <1>b, <2>0 DEF IndInv, TypeOK, RunningIsExecuted, OneExportBuild, FinalizeRun,
                      NoTask, TaskAt, Open
  <2> QED BY <2>1, <2>2, <2>3, <2>4 DEF IndInv
<1>c. CASE runs[r].status \in Open
  <2> DEFINE row == Finalized(r)
  <2>0. /\ job' = [job EXCEPT ![r] = AfterFinal(r)]
        /\ runs' = [runs EXCEPT ![r] = row]
        /\ key' = [key EXCEPT ![r] = Revoked(@)]
    BY <1>c DEF FinalizeRun
  <2>a. /\ row \in Row /\ row.status = job[r].out /\ row.attempt = runs[r].attempt
        /\ row.result = IF job[r].out = "done" THEN job[r].n ELSE 0
        /\ row.tool = runs[r].tool /\ row.status \in Terminal \ {"cancelled"}
    BY <1>a, BoundsAssumption DEF Finalized, Row, Task, Status, Terminal
  <2>b. AfterFinal(r).pc \in {"idle", "record"}
    BY DEF AfterFinal, NoTask, TaskAt
  <2> HIDE DEF row
  <2>1. TypeOK'
    BY <1>a, <2>0, <2>a DEF IndInv, TypeOK, FinalizeRun, Revoked
  <2>2. ASSUME NEW q \in RunId PROVE RowOK(q)' /\ TaskOK(q)'
    <3>1. CASE q # r
      BY <2>0, <3>1 DEF IndInv, TypeOK, RowOK, TaskOK, FinalizeRun
    <3>2. CASE q = r
      <4>1. job'[r] = AfterFinal(r) /\ runs'[r] = row /\ parts' = parts /\ leases' = leases
            /\ records' = records
        BY <2>0 DEF IndInv, TypeOK, FinalizeRun
      <4>2. records[r] = 0
        BY <1>c DEF IndInv, TypeOK, TaskOK, FinalizeRun
      <4>3. row.status \notin Open \cup {"none"}
        BY <2>a DEF Open, Terminal
      <4>4. row.status = "done" => 1..row.result \subseteq parts[r]
        BY <2>a DEF IndInv, TaskOK, FinalizeRun
      <4>5. runs[r].attempt \in 1..2 /\ leases[r] <= runs[r].attempt
        BY <1>c DEF IndInv, RowOK, Open
      <4>6. RowOK(r)'
        BY <2>a, <2>b, <4>1, <4>3, <4>4, <4>5 DEF RowOK, Open
      <4>7. TaskOK(r)'
        BY <2>a, <2>b, <4>1, <4>2 DEF TaskOK
      <4> QED BY <3>2, <4>6, <4>7
    <3> QED BY <3>1, <3>2
  <2>3. PurgingOK'
    BY <1>c, <2>0 DEF IndInv, TypeOK, PurgingOK, FinalizeRun, Open
  <2>4. HostOK'
    BY DEF IndInv, HostOK, FinalizeRun, Alive
  <2>5. RunningIsExecuted' /\ OneExportBuild'
    BY <2>0, <2>a, <2>b DEF IndInv, TypeOK, RunningIsExecuted, OneExportBuild, FinalizeRun, Terminal
  <2> QED BY <2>1, <2>2, <2>3, <2>4, <2>5 DEF IndInv
<1> QED BY <1>b, <1>c

\* The end-of-run records are written once: the task that writes them is over.
LEMMA RecordRunEndStep ==
    ASSUME IndInv, NEW r \in RunId, RecordRunEnd(r)
    PROVE  IndInv'
<1>1. TypeOK'
  BY Values DEF IndInv, TypeOK, RecordRunEnd
<1>2. ASSUME NEW q \in RunId PROVE RowOK(q)' /\ TaskOK(q)'
  BY <1>1 DEF IndInv, TypeOK, RowOK, TaskOK, RecordRunEnd, Alive, NoTask, TaskAt
<1>3. PurgingOK'
  BY DEF IndInv, TypeOK, PurgingOK, RowOK, RecordRunEnd, Alive, NoTask, TaskAt
<1>4. HostOK'
  BY DEF IndInv, TypeOK, HostOK, RecordRunEnd, Alive, NoTask, TaskAt
<1>5. RunningIsExecuted'
  <2>1. runs[r].status # "running"
    BY DEF IndInv, TaskOK, RecordRunEnd, Terminal
  <2> QED BY <2>1 DEF IndInv, TypeOK, RunningIsExecuted, RecordRunEnd
<1>6. OneExportBuild'
  BY DEF IndInv, TypeOK, OneExportBuild, TaskOK, RecordRunEnd, Alive, NoTask, TaskAt
<1> QED BY <1>1, <1>2, <1>3, <1>4, <1>5, <1>6 DEF IndInv

\* purge_runs clears result_ref in the commit that hands the parts to the purging call.
LEMMA PurgeRunsStep ==
    ASSUME IndInv, NEW t \in Tenant, PurgeRuns(t)
    PROVE  IndInv'
<1>1. PICK S \in SUBSET {r \in RunId : runs[r].status = "done"} :
        /\ runs' = [r \in RunId |-> IF r \in S THEN [runs[r] EXCEPT !.result = 0] ELSE runs[r]]
        /\ purging' = purging \cup {p \in S \X Part : p[2] <= runs[p[1]].result}
  BY DEF PurgeRuns, Of
<1>2. ASSUME NEW r \in RunId
      PROVE  /\ runs'[r] \in Row
             /\ r \notin S => runs'[r] = runs[r]
             /\ r \in S => /\ runs'[r].status = "done" /\ runs'[r].tool = runs[r].tool
                           /\ runs'[r].attempt = runs[r].attempt /\ runs'[r].result = 0
  <2>1. runs[r] \in Row /\ (r \in S => runs[r].status = "done")
    BY DEF IndInv, TypeOK
  <2>2. runs'[r] = IF r \in S THEN [runs[r] EXCEPT !.result = 0] ELSE runs[r]
    BY <1>1
  <2>3. CASE r \in S
    <3>1. runs'[r] = [runs[r] EXCEPT !.result = 0]
      BY <2>2, <2>3
    <3> QED BY <2>1, <2>3, <3>1, BoundsAssumption DEF Row
  <2>4. CASE r \notin S
    BY <2>1, <2>2, <2>4
  <2> QED BY <2>3, <2>4
<1>3. TypeOK'
  <2>1. runs' \in [RunId -> Row]
    BY <1>1, <1>2
  <2>2. purging' \subseteq RunId \X Part
    BY <1>1 DEF IndInv, TypeOK
  <2> QED BY <2>1, <2>2 DEF IndInv, TypeOK, PurgeRuns
<1>4. ASSUME NEW q \in RunId PROVE RowOK(q)' /\ TaskOK(q)'
  <2>1. CASE q \notin S
    BY <1>2, <2>1 DEF IndInv, RowOK, TaskOK, PurgeRuns
  <2>2. CASE q \in S
    <3>1. 1..0 \subseteq parts[q] /\ runs[q].status = "done"
      BY <2>2
    <3> QED BY <1>2, <2>2, <3>1 DEF IndInv, RowOK, TaskOK, PurgeRuns
  <2> QED BY <2>1, <2>2
<1>5. PurgingOK'
  <2>1. ASSUME NEW p \in purging' PROVE runs'[p[1]].status = "done" /\ runs'[p[1]].result = 0
    BY <1>1, <1>2 DEF IndInv, TypeOK, PurgingOK
  <2> QED BY <2>1 DEF PurgingOK
<1>6. HostOK' /\ RunningIsExecuted' /\ OneExportBuild'
  BY <1>2 DEF IndInv, HostOK, RunningIsExecuted, OneExportBuild, PurgeRuns
<1> QED BY <1>3, <1>4, <1>5, <1>6 DEF IndInv

\* The purging call deletes a part no row names any more.
LEMMA PurgePartStep ==
    ASSUME IndInv, NEW r \in RunId, NEW n \in Part, PurgePart(r, n)
    PROVE  IndInv'
<1>1. runs[r].status = "done" /\ runs[r].result = 0 /\ job[r].pc \in {"idle", "record"}
  BY DEF IndInv, PurgingOK, PurgePart, RowOK
<1>2. TypeOK'
  BY DEF IndInv, TypeOK, PurgePart
<1>3. ASSUME NEW q \in RunId PROVE RowOK(q)' /\ TaskOK(q)'
  BY <1>1 DEF IndInv, TypeOK, RowOK, TaskOK, PurgePart
<1>4. PurgingOK' /\ HostOK' /\ RunningIsExecuted' /\ OneExportBuild'
  BY DEF IndInv, PurgingOK, HostOK, RunningIsExecuted, OneExportBuild, PurgePart
<1> QED BY <1>2, <1>3, <1>4 DEF IndInv

\* The queries of runs::tick move the leasing loop alone.
LEMMA TickStep ==
    ASSUME IndInv, TickScan \/ TickHostCheck \/ TickEnd \/ TickTenantCheck
    PROVE  IndInv'
<1>1. Idle \in [pc : {"idle", "host", "count", "lease"}, todo : SUBSET Tenant, at : Tenant]
  BY OwnerAssumption DEF Idle, Nobody
<1>2. tick' \in [pc : {"idle", "host", "count", "lease"}, todo : SUBSET Tenant, at : Tenant]
  <2>1. CASE TickScan
    BY <2>1 DEF IndInv, TypeOK, TickScan
  <2>2. CASE TickHostCheck
    BY <1>1, <2>2 DEF IndInv, TypeOK, TickHostCheck
  <2>3. CASE TickEnd
    BY <1>1, <2>3 DEF TickEnd
  <2>4. CASE TickTenantCheck
    BY <2>4 DEF IndInv, TypeOK, TickTenantCheck
  <2> QED BY <2>1, <2>2, <2>3, <2>4
<1>3. UNCHANGED <<runs, parts, key, job, purging, host, restarts, faults, leases, records>>
  BY DEF TickScan, TickHostCheck, TickEnd, TickTenantCheck
<1>4. TypeOK'
  BY <1>2, <1>3 DEF IndInv, TypeOK
<1> QED BY <1>3, <1>4, LedgerStays

\* lease_next_queued_run and the spawn: a queued row has no task and was leased fewer
\* times than it has attempts.
LEMMA TickLeaseStep ==
    ASSUME IndInv, TickLease
    PROVE  IndInv'
<1>a. tick' \in [pc : {"idle", "host", "count", "lease"}, todo : SUBSET Tenant, at : Tenant]
  BY DEF IndInv, TypeOK, TickLease
<1>b. CASE Queued(Of(tick.at)) = {}
  <2>1. UNCHANGED <<runs, parts, key, job, purging, host, restarts, faults, leases, records>>
    BY <1>b DEF TickLease
  <2>2. TypeOK'
    BY <1>a, <2>1 DEF IndInv, TypeOK
  <2> QED BY <2>1, <2>2, LedgerStays
<1>c. CASE Queued(Of(tick.at)) # {}
  <2>0. Oldest(Queued(Of(tick.at))) \in Queued(Of(tick.at)) /\ Queued(Of(tick.at)) \subseteq RunId
    BY <1>c, OldestInSet DEF Queued, Of
  <2>1. PICK r \in RunId :
          /\ runs[r].status = "queued"
          /\ runs' = [runs EXCEPT ![r].status = "running"]
          /\ job' = [job EXCEPT ![r] = TaskAt("exec", "done", 0)]
          /\ leases' = [leases EXCEPT ![r] = @ + 1]
    BY <1>c, <2>0 DEF TickLease, Queued
  <2> DEFINE row == [runs[r] EXCEPT !.status = "running"]
             new == TaskAt("exec", "done", 0)
  <2>2. /\ row \in Row /\ row.status = "running" /\ row.attempt = runs[r].attempt
        /\ row.tool = runs[r].tool /\ row.result = runs[r].result
    BY <2>1 DEF IndInv, TypeOK, Row, Status, Open
  <2>3. new \in Task /\ new.pc = "exec"
    BY Values, BoundsAssumption DEF TaskAt
  <2>4. /\ runs' = [runs EXCEPT ![r] = row]
        /\ job' = [job EXCEPT ![r] = new]
        /\ leases' = [leases EXCEPT ![r] = leases[r] + 1]
        /\ UNCHANGED <<parts, key, purging, host, restarts, faults, records>>
        /\ Alive
    BY <1>c, <2>1 DEF TickLease, IndInv, TypeOK
  <2> HIDE DEF row, new
  <2>5. TypeOK'
    BY <1>a, <2>1, <2>2, <2>3, <2>4 DEF IndInv, TypeOK
  <2>6. ASSUME NEW q \in RunId PROVE RowOK(q)' /\ TaskOK(q)'
    <3>1. CASE q # r
      BY <2>4, <3>1 DEF IndInv, TypeOK, RowOK, TaskOK
    <3>2. CASE q = r
      <4>1. job'[r] = new /\ runs'[r] = row /\ leases'[r] = leases[r] + 1
        BY <2>1, <2>4 DEF IndInv, TypeOK
      <4>2. leases[r] < runs[r].attempt /\ runs[r].attempt \in 1..2 /\ leases[r] \in Nat
        BY <2>1 DEF IndInv, TypeOK, RowOK
      <4>3. records[r] <= 1 /\ records[r] # 1
        BY <2>1 DEF IndInv, TaskOK, Terminal
      <4>4. RowOK(r)'
        BY <2>2, <2>3, <4>1, <4>2 DEF RowOK
      <4>5. TaskOK(r)'
        BY <2>2, <2>3, <2>4, <4>1, <4>3 DEF TaskOK
      <4> QED BY <3>2, <4>4, <4>5
    <3> QED BY <3>1, <3>2
  <2>7. PurgingOK'
    BY <2>1, <2>4 DEF IndInv, TypeOK, PurgingOK
  <2>8. HostOK'
    BY <2>4 DEF IndInv, HostOK, Alive
  <2>9. RunningIsExecuted' /\ OneExportBuild'
    BY <2>1, <2>2, <2>3, <2>4 DEF IndInv, TypeOK, RunningIsExecuted, OneExportBuild
  <2> QED BY <2>5, <2>6, <2>7, <2>8, <2>9 DEF IndInv
<1> QED BY <1>b, <1>c

\* A process that dies takes every task with it and leaves the ledger as it is.
LEMMA StopStep ==
    ASSUME IndInv, Stop, restarts' \in Nat,
           UNCHANGED <<runs, parts, faults, leases, records>>
    PROVE  IndInv'
<1>1. TypeOK'
  <2>1. Idle \in [pc : {"idle", "host", "count", "lease"}, todo : SUBSET Tenant, at : Tenant]
    BY OwnerAssumption DEF Idle, Nobody
  <2> QED BY <2>1, Values DEF IndInv, TypeOK, Stop
<1>2. \A r \in RunId : job'[r].pc = "idle"
  BY DEF Stop, NoTask, TaskAt
<1>3. ASSUME NEW q \in RunId PROVE RowOK(q)' /\ TaskOK(q)'
  BY <1>2 DEF IndInv, RowOK, TaskOK
<1>4. PurgingOK' /\ HostOK' /\ RunningIsExecuted' /\ OneExportBuild'
  BY <1>2 DEF Stop, PurgingOK, HostOK, RunningIsExecuted, OneExportBuild
<1> QED BY <1>1, <1>3, <1>4 DEF IndInv

\* requeue_interrupted_runs_once gives a first attempt, and no other, a second one; no
\* task is alive while it runs.
LEMMA RequeueStep ==
    ASSUME IndInv, RequeueInterruptedRuns
    PROVE  IndInv'
<1> DEFINE S == {r \in RunId : runs[r].status = "running" /\ runs[r].attempt = 1}
<1>1. ASSUME NEW r \in RunId
      PROVE  /\ runs'[r] \in Row
             /\ r \notin S => runs'[r] = runs[r]
             /\ r \in S => runs'[r].status = "queued" /\ runs'[r].attempt = 2
  BY DEF IndInv, TypeOK, Row, Status, Open, Requeued, RequeueInterruptedRuns
<1>2. TypeOK'
  <2>1. runs' \in [RunId -> Row]
    BY <1>1 DEF RequeueInterruptedRuns
  <2> QED BY <2>1 DEF IndInv, TypeOK, RequeueInterruptedRuns
<1>3. ASSUME NEW q \in RunId PROVE RowOK(q)' /\ TaskOK(q)'
  <2>1. CASE q \notin S
    BY <1>1, <2>1 DEF IndInv, RowOK, TaskOK, RequeueInterruptedRuns
  <2>2. CASE q \in S
    <3>1. job[q].pc = "idle" /\ records[q] <= 1 /\ records[q] # 1
      BY <2>2 DEF IndInv, HostOK, TaskOK, Terminal, RequeueInterruptedRuns
    <3>2. leases[q] <= 1 /\ leases[q] \in Nat
      BY <2>2 DEF IndInv, TypeOK, RowOK
    <3> QED BY <1>1, <2>2, <3>1, <3>2 DEF RowOK, TaskOK, RequeueInterruptedRuns
  <2> QED BY <2>1, <2>2
<1>4. PurgingOK'
  BY <1>1 DEF IndInv, TypeOK, PurgingOK, RequeueInterruptedRuns
<1>5. ASSUME NEW q \in RunId, runs'[q].status = "running" PROVE runs'[q].attempt = 2
  BY <1>1, <1>5 DEF IndInv, RowOK
<1>6. HostOK' /\ RunningIsExecuted' /\ OneExportBuild'
  BY <1>5 DEF IndInv, HostOK, RunningIsExecuted, OneExportBuild, RequeueInterruptedRuns
<1> QED BY <1>2, <1>3, <1>4, <1>6 DEF IndInv
-----------------------------------------------------------------------------

\* An empty ledger satisfies the invariant.
LEMMA InitIndInv == Init => IndInv
<1> SUFFICES ASSUME Init PROVE IndInv
  OBVIOUS
<1>1. Idle \in [pc : {"idle", "host", "count", "lease"}, todo : SUBSET Tenant, at : Tenant]
  BY OwnerAssumption DEF Idle, Nobody
<1>2. TypeOK
  BY <1>1, Values DEF Init, TypeOK
<1>3. \A r \in RunId : RowOK(r) /\ TaskOK(r)
  BY DEF Init, RowOK, TaskOK, NoRow, NoTask, TaskAt
<1>4. PurgingOK /\ HostOK /\ RunningIsExecuted /\ OneExportBuild
  BY DEF Init, PurgingOK, HostOK, RunningIsExecuted, OneExportBuild, NoRow, NoTask, TaskAt
<1> QED BY <1>2, <1>3, <1>4 DEF IndInv

\* Every step preserves the invariant, one case per action.
LEMMA NextIndInv == IndInv /\ [Next]_vars => IndInv'
<1> SUFFICES ASSUME IndInv, [Next]_vars PROVE IndInv'
  OBVIOUS
<1>1. CASE Tick
  BY <1>1, TickStep, TickLeaseStep DEF Tick
<1>2. ASSUME NEW r \in RunId, TaskStep(r) PROVE IndInv'
  BY <1>2, JobReturnsStep, ArchiveBuiltStep, CheckStateQuotaStep, StorePartStep,
     StorePartFailsStep, FinalizeRunStep, RecordRunEndStep DEF TaskStep
<1>3. ASSUME NEW r \in RunId, Call(r) PROVE IndInv'
  BY <1>3, InsertQueuedRunStep, StartExportRunStep, ParseBindStep, InsertSubKeyStep,
     CancelRunStep, PurgePartStep DEF Call
<1>4. ASSUME NEW t \in Tenant, PurgeRuns(t) PROVE IndInv'
  BY <1>4, PurgeRunsStep
<1>5. CASE ReapExpiredRuns
  BY <1>5, EndExpiredStep
<1>6. CASE Lifecycle
  <2>1. CASE Crash \/ DrainExit
    <3>1. restarts' \in Nat
      BY <2>1 DEF Crash, DrainExit, IndInv, TypeOK
    <3> QED BY <2>1, <3>1, StopStep DEF Crash, DrainExit
  <2>2. CASE DrainBegin
    <3>1. TypeOK'
      BY <2>2 DEF DrainBegin, IndInv, TypeOK
    <3> QED BY <2>2, <3>1, LedgerStays DEF DrainBegin
  <2> QED BY <1>6, <2>1, <2>2, EndExpiredStep, RequeueStep DEF Lifecycle
<1>7. CASE UNCHANGED vars
  <2>1. TypeOK'
    BY <1>7 DEF IndInv, TypeOK, vars
  <2> QED BY <1>7, <2>1, LedgerStays DEF vars
<1>8. CASE TickFails
  <2>1. TypeOK' /\ faults' # 0
    BY <1>8 DEF TickFails, IndInv, TypeOK, Idle, Nobody
  <2> QED BY <1>8, <2>1, LedgerStays DEF TickFails
<1> QED BY <1>1, <1>2, <1>3, <1>4, <1>5, <1>6, <1>7, <1>8 DEF Next

\* Rows, tasks, stored parts and the life of the process fit together in every
\* reachable state, for any number of runs, tenants, restarts and faults.
THEOREM InvariantHolds == Spec => []IndInv
<1>1. Init => IndInv
  BY InitIndInv
<1>2. IndInv /\ [Next]_vars => IndInv'
  BY NextIndInv
<1> QED BY <1>1, <1>2, PTL DEF Spec

\* Every column of the runs table and every task keeps its type; in particular the
\* attempt that requeue_interrupted_runs_once counts never passes 2.
THEOREM TypeCorrect == Spec => []TypeOK
<1>1. IndInv => TypeOK
  BY DEF IndInv
<1> QED BY <1>1, InvariantHolds, PTL

\* store_result_parts before finalize_run, purge_runs before the deletes: a done run
\* with a result_ref always has every part it names.
THEOREM ResultsAreComplete == Spec => []DoneHasResult
<1>1. IndInv => DoneHasResult
  BY DEF IndInv, RowOK, DoneHasResult
<1> QED BY <1>1, InvariantHolds, PTL

\* requeue_interrupted_runs_once and lease_next_queued_run: however often the process
\* dies, no run is dispatched more than twice and none while it is queued.
THEOREM ExecutionsAreBounded == Spec => []AtMostTwoExecutions
<1>1. IndInv => AtMostTwoExecutions
  BY DEF IndInv, TypeOK, Row, RowOK, AtMostTwoExecutions
<1> QED BY <1>1, InvariantHolds, PTL

\* run_one_job: over both attempts a run gets at most one set of end-of-run records,
\* and only from the task that won finalize_run.
THEOREM RecordsAreUnique == Spec => []RecordedOnceEnded
<1>1. IndInv => RecordedOnceEnded
  BY DEF IndInv, TaskOK, RecordedOnceEnded
<1> QED BY <1>1, InvariantHolds, PTL

\* main.rs start-up and run_one_job: without a failed database call, a running row of
\* a live process without a task is a second attempt cut short.
THEOREM RunningRowsHaveTasks == Spec => []RunningIsExecuted
<1>1. IndInv => RunningIsExecuted
  BY DEF IndInv
<1> QED BY <1>1, InvariantHolds, PTL

\* start_export_run: no tenant ever has two archive builds for running rows.
THEOREM ExportsAreSingle == Spec => []OneExportBuild
<1>1. IndInv => OneExportBuild
  BY DEF IndInv
<1> QED BY <1>1, InvariantHolds, PTL

-----------------------------------------------------------------------------
(* The refinement of RunLifecycle.                                         *)

\* The refinement mapping of module Runs.
Ledger == [r \in RunId |-> [status |-> runs[r].status, attempt |-> runs[r].attempt]]

\* Replacing one row of the runs table replaces one entry of the ledger.
LEMMA LedgerOne ==
    ASSUME TypeOK, NEW r \in RunId, NEW row \in Row, runs' = [runs EXCEPT ![r] = row]
    PROVE  Ledger' = [Ledger EXCEPT ![r] = [status |-> row.status, attempt |-> row.attempt]]
BY DEF TypeOK, Ledger

\* Rows that keep status and attempt leave the ledger as it is.
LEMMA LedgerSame ==
    ASSUME TypeOK, \A r \in RunId : runs'[r].status = runs[r].status
                                    /\ runs'[r].attempt = runs[r].attempt
    PROVE  Ledger' = Ledger
BY DEF Ledger

\* Ending a set of running rows is one Interrupt of the ledger.
LEMMA LedgerEnds ==
    ASSUME TypeOK, NEW S \in SUBSET Running(RunId), EndRows(S, "error")
    PROVE  Abstract!Next
<1>1. \A r \in RunId : runs[r] \in Row
  BY DEF TypeOK
<1>2. Ledger' = [r \in RunId |-> IF r \in S THEN [Ledger[r] EXCEPT !.status = "error"]
                                           ELSE Ledger[r]]
  BY <1>1 DEF EndRows, Ledger, Row
<1>3. S \in SUBSET RunId /\ \A r \in S : Ledger[r].status = "running"
  BY DEF Running, Ledger
<1>4. Abstract!Interrupt(S)
  BY <1>2, <1>3 DEF Abstract!Interrupt, Ledger
<1> QED BY <1>3, <1>4 DEF Abstract!Next

\* Inserting an open row for a fresh run is one Submit of the ledger.
LEMMA LedgerSubmits ==
    ASSUME TypeOK, NEW r \in RunId, runs[r] = NoRow, NEW s \in Open, NEW tool \in {"job", "export"},
           runs' = [runs EXCEPT ![r] = NewRow(s, tool)]
    PROVE  Abstract!Next
<1>1. Ledger' = [Ledger EXCEPT ![r] = [status |-> s, attempt |-> 1]]
  BY Values, LedgerOne DEF NewRow
<1>2. Ledger[r].status = "none"
  BY DEF Ledger, NoRow
<1>3. Abstract!Submit(r)
  BY <1>1, <1>2 DEF Abstract!Submit, Abstract!Open, Open, Ledger
<1> QED BY <1>3 DEF Abstract!Next

\* Leasing a queued row is one Begin of the ledger.
LEMMA LedgerBegins ==
    ASSUME TypeOK, NEW r \in RunId, runs[r].status = "queued",
           runs' = [runs EXCEPT ![r].status = "running"]
    PROVE  Abstract!Next
<1>1. runs[r] \in Row
  BY DEF TypeOK
<1>2. Ledger' = [Ledger EXCEPT ![r].status = "running"]
  BY <1>1 DEF TypeOK, Row, Ledger
<1>3. Abstract!Begin(r)
  BY <1>2 DEF Abstract!Begin, Ledger
<1> QED BY <1>3 DEF Abstract!Next

\* Ending an open row is one Finish of the ledger.
LEMMA LedgerFinishes ==
    ASSUME TypeOK, NEW r \in RunId, runs[r].status \in Open, NEW row \in Row,
           row.status \in Terminal, row.attempt = runs[r].attempt,
           runs' = [runs EXCEPT ![r] = row]
    PROVE  Abstract!Next
<1>1. Ledger' = [Ledger EXCEPT ![r] = [status |-> row.status, attempt |-> runs[r].attempt]]
  BY LedgerOne
<1>2. Ledger' = [Ledger EXCEPT ![r].status = row.status]
  BY <1>1 DEF Ledger
<1>3. Abstract!Finish(r)
  BY <1>2 DEF Abstract!Finish, Abstract!Open, Abstract!Ended, Open, Terminal, Ledger
<1> QED BY <1>3 DEF Abstract!Next

\* Every step of the code is a step of RunLifecycle's ledger or leaves it alone.
LEMMA NextRefines ==
    ASSUME IndInv, [Next]_vars
    PROVE  [Abstract!Next]_Ledger
<1>0. TypeOK
  BY DEF IndInv
<1>1. CASE runs' = runs
  BY <1>1 DEF Ledger
<1>2. ASSUME NEW r \in RunId, InsertQueuedRun(r) \/ StartExportRun(r) PROVE Abstract!Next
  BY <1>0, <1>2, LedgerSubmits DEF InsertQueuedRun, StartExportRun, Fresh, Open
<1>3. ASSUME NEW r \in RunId, CancelRun(r) PROVE Abstract!Next
  <2> DEFINE row == [runs[r] EXCEPT !.status = "cancelled"]
  <2>1. row \in Row /\ row.status = "cancelled" /\ row.attempt = runs[r].attempt
    BY <1>0 DEF TypeOK, Row, Status, Terminal
  <2>2. runs' = [runs EXCEPT ![r] = row]
    BY <1>0, <1>3 DEF TypeOK, CancelRun, EndRows
  <2> QED BY <1>0, <1>3, <2>1, <2>2, LedgerFinishes DEF CancelRun, Terminal
<1>4. ASSUME NEW r \in RunId, FinalizeRun(r), runs' # runs PROVE Abstract!Next
  <2>1. runs[r].status \in Open /\ runs' = [runs EXCEPT ![r] = Finalized(r)]
    BY <1>4 DEF FinalizeRun
  <2>2. /\ Finalized(r) \in Row /\ Finalized(r).status \in Terminal
        /\ Finalized(r).attempt = runs[r].attempt
    BY <1>0, BoundsAssumption DEF TypeOK, Finalized, Row, Task, Status, Terminal
  <2> QED BY <1>0, <2>1, <2>2, LedgerFinishes
<1>5. ASSUME TickLease, runs' # runs PROVE Abstract!Next
  <2>0. Queued(Of(tick.at)) \subseteq RunId /\ Queued(Of(tick.at)) # {}
    BY <1>5 DEF TickLease, Queued, Of
  <2>1. Oldest(Queued(Of(tick.at))) \in Queued(Of(tick.at))
    BY <2>0, OldestInSet
  <2>2. PICK r \in RunId : runs[r].status = "queued"
                            /\ runs' = [runs EXCEPT ![r].status = "running"]
    BY <1>5, <2>0, <2>1 DEF TickLease, Queued
  <2> QED BY <1>0, <2>2, LedgerBegins
<1>6. ASSUME NEW t \in Tenant, PurgeRuns(t) PROVE Ledger' = Ledger
  <2>1. \A r \in RunId : runs'[r].status = runs[r].status /\ runs'[r].attempt = runs[r].attempt
    BY <1>0, <1>6 DEF TypeOK, Row, PurgeRuns
  <2> QED BY <1>0, <2>1, LedgerSame
<1>7. CASE ReapExpiredRuns \/ StartServing \/ DrainInterrupt
  <2>1. PICK S \in SUBSET Running(RunId) : EndRows(S, "error")
    BY <1>7 DEF ReapExpiredRuns, StartServing, EndExpired, DrainInterrupt
  <2> QED BY <1>0, <2>1, LedgerEnds
<1>8. CASE RequeueInterruptedRuns
  <2>1. Ledger' = [r \in RunId |->
                     IF Ledger[r].status = "running" /\ Ledger[r].attempt = 1
                     THEN [status |-> "queued", attempt |-> 2] ELSE Ledger[r]]
    BY <1>8 DEF RequeueInterruptedRuns, Requeued, Ledger
  <2> QED BY <2>1 DEF Abstract!Next, Abstract!Retry, Ledger
<1>9. ASSUME NEW r \in RunId, TaskStep(r) PROVE FinalizeRun(r) \/ runs' = runs
  BY <1>9 DEF TaskStep, JobReturns, ArchiveBuilt, CheckStateQuota, StorePart, StorePartFails,
              FinalizeRunFails, RecordRunEnd
<1>10. ASSUME NEW r \in RunId, Call(r)
       PROVE  InsertQueuedRun(r) \/ StartExportRun(r) \/ CancelRun(r) \/ runs' = runs
  BY <1>10 DEF Call, ParseBind, InsertSubKey, PurgePart
<1>11. CASE Tick
  BY <1>1, <1>5, <1>11 DEF Tick, TickScan, TickHostCheck, TickEnd, TickTenantCheck
<1>12. CASE Lifecycle
  BY <1>1, <1>7, <1>8, <1>12 DEF Lifecycle, Crash, DrainBegin, DrainExit
<1>13. CASE UNCHANGED vars
  BY <1>1, <1>13 DEF vars
<1> QED
  BY <1>1, <1>2, <1>3, <1>4, <1>6, <1>7, <1>9, <1>10, <1>11, <1>12, <1>13 DEF Next, TickFails

\* runs.rs and db.rs together implement RunLifecycle: callers see every run submitted
\* once, begun, retried at most once and ended at most once.
THEOREM LifecycleIsImplemented == Spec => ImplementsLifecycle
<1>1. Init => Abstract!Init
  BY DEF Init, Abstract!Init, Abstract!Absent, NoRow
<1>2. IndInv /\ [Next]_vars => [Abstract!Next]_Ledger
  BY NextRefines
<1>3. Spec => []IndInv
  BY InvariantHolds
<1> QED BY <1>1, <1>2, <1>3, PTL DEF Spec, ImplementsLifecycle, Abstract!Spec, Ledger

-----------------------------------------------------------------------------
(* What a single step may never do.                                        *)

\* No step of anybody changes an ended row, but for a purge clearing its result.
LEMMA EndedStaysStep ==
    ASSUME IndInv, [Next]_vars, NEW r \in RunId, runs[r].status \in Terminal
    PROVE  runs'[r].status = runs[r].status /\ runs'[r].result \in {runs[r].result, 0}
<1>0. TypeOK /\ runs[r].status \notin Open /\ runs[r] # NoRow
  BY DEF IndInv, Open, Terminal, NoRow
<1>1. CASE UNCHANGED runs
  BY <1>1
<1>2. ASSUME NEW q \in RunId, Call(q) PROVE runs'[r] = runs[r]
  BY <1>0, <1>2 DEF Call, InsertQueuedRun, StartExportRun, Fresh, CancelRun, EndRows, ParseBind,
                    InsertSubKey, PurgePart, TypeOK
<1>3. ASSUME NEW q \in RunId, TaskStep(q) PROVE runs'[r] = runs[r]
  BY <1>0, <1>3 DEF TaskStep, FinalizeRun, JobReturns, ArchiveBuilt, CheckStateQuota, StorePart,
                    StorePartFails, FinalizeRunFails, RecordRunEnd, TypeOK
<1>4. CASE Tick
  <2>1. CASE TickLease /\ Queued(Of(tick.at)) # {}
    <3>1. Queued(Of(tick.at)) \subseteq RunId
      BY DEF Queued, Of
    <3>2. Oldest(Queued(Of(tick.at))) \in Queued(Of(tick.at))
      BY <2>1, <3>1, OldestInSet
    <3> QED BY <1>0, <2>1, <3>2 DEF TickLease, Queued, TypeOK, Open
  <2> QED BY <1>1, <1>4, <2>1
          DEF Tick, TickScan, TickHostCheck, TickEnd, TickTenantCheck, TickLease
<1>5. ASSUME NEW t \in Tenant, PurgeRuns(t)
      PROVE  runs'[r].status = runs[r].status /\ runs'[r].result \in {runs[r].result, 0}
  BY <1>0, <1>5 DEF PurgeRuns, TypeOK, Row
<1>6. CASE ReapExpiredRuns \/ StartServing \/ DrainInterrupt
  BY <1>0, <1>6 DEF ReapExpiredRuns, StartServing, DrainInterrupt, EndExpired, EndRows, Running, Open
<1>7. CASE RequeueInterruptedRuns
  BY <1>0, <1>7 DEF RequeueInterruptedRuns, Open
<1>8. CASE Lifecycle
  BY <1>1, <1>6, <1>7, <1>8 DEF Lifecycle, Crash, DrainBegin, DrainExit
<1> QED BY <1>1, <1>2, <1>3, <1>4, <1>5, <1>6, <1>8 DEF Next, TickFails, vars

\* Each UPDATE of db.rs that ends or restarts a run is conditional on an open status:
\* an ended run keeps its status and its result, which only a purge clears.
THEOREM EndedRunsStay == Spec => EndedStays
<1>1. IndInv /\ [Next]_vars =>
        [\A r \in RunId : runs[r].status \in Terminal =>
            /\ runs'[r].status = runs[r].status
            /\ runs'[r].result \in {runs[r].result, 0}]_vars
  BY EndedStaysStep
<1> QED BY <1>1, InvariantHolds, PTL DEF Spec, EndedStays

\* A step that ends a run revokes its key, and no step makes a revoked key live.
LEMMA KeysEndStep ==
    ASSUME IndInv, [Next]_vars, NEW r \in RunId
    PROVE  /\ runs[r].status \in Open /\ runs'[r].status \in Terminal => key'[r] # "live"
           /\ key[r] = "revoked" => key'[r] = "revoked"
<1>0. TypeOK
  BY DEF IndInv
<1>1. CASE UNCHANGED <<runs, key>>
  BY <1>1 DEF Open, Terminal
<1>2. ASSUME NEW q \in RunId, Call(q)
      PROVE  /\ runs[r].status \in Open /\ runs'[r].status \in Terminal => key'[r] # "live"
             /\ key[r] = "revoked" => key'[r] = "revoked"
  <2>1. CASE InsertQueuedRun(q) \/ StartExportRun(q)
    BY <1>0, <2>1 DEF InsertQueuedRun, StartExportRun, TypeOK, NewRow, Open, Terminal
  <2>2. CASE ParseBind(q) \/ InsertSubKey(q)
    BY <1>0, <2>2 DEF ParseBind, InsertSubKey, TypeOK, Open, Terminal
  <2>3. CASE CancelRun(q)
    BY <1>0, <2>3 DEF CancelRun, EndRows, Revoked, TypeOK, Open, Terminal
  <2> QED BY <1>1, <1>2, <2>1, <2>2, <2>3 DEF Call, PurgePart
<1>3. ASSUME NEW q \in RunId, TaskStep(q)
      PROVE  /\ runs[r].status \in Open /\ runs'[r].status \in Terminal => key'[r] # "live"
             /\ key[r] = "revoked" => key'[r] = "revoked"
  <2>1. CASE FinalizeRun(q)
    BY <1>0, <2>1 DEF FinalizeRun, Revoked, TypeOK, Open, Terminal
  <2> QED BY <1>1, <1>3, <2>1 DEF TaskStep, JobReturns, ArchiveBuilt, CheckStateQuota, StorePart,
                    StorePartFails, FinalizeRunFails, RecordRunEnd
<1>4. CASE Tick
  <2>1. CASE TickLease /\ Queued(Of(tick.at)) # {}
    <3>1. PICK q : runs' = [runs EXCEPT ![q].status = "running"] /\ key' = key
      BY <2>1 DEF TickLease
    <3>2. runs'[r].status \in {runs[r].status, "running"}
      BY <1>0, <3>1 DEF TypeOK, Row
    <3> QED BY <3>1, <3>2 DEF Open, Terminal
  <2> QED BY <1>1, <1>4, <2>1
          DEF Tick, TickScan, TickHostCheck, TickEnd, TickTenantCheck, TickLease
<1>5. ASSUME NEW t \in Tenant, PurgeRuns(t)
      PROVE  /\ runs[r].status \in Open /\ runs'[r].status \in Terminal => key'[r] # "live"
             /\ key[r] = "revoked" => key'[r] = "revoked"
  BY <1>0, <1>5 DEF PurgeRuns, TypeOK, Row, Open, Terminal
<1>6. CASE ReapExpiredRuns \/ StartServing \/ DrainInterrupt
  <2>1. PICK S \in SUBSET Running(RunId) : EndRows(S, "error")
    BY <1>6 DEF ReapExpiredRuns, StartServing, EndExpired, DrainInterrupt
  <2> QED BY <1>0, <2>1 DEF EndRows, Running, Revoked, TypeOK, Open, Terminal
<1>7. CASE RequeueInterruptedRuns
  BY <1>0, <1>7 DEF RequeueInterruptedRuns, Requeued, Open, Terminal
<1>8. CASE Crash \/ DrainExit
  BY <1>0, <1>8 DEF Crash, DrainExit, Stop, TypeOK, Open, Terminal
<1>9. CASE Lifecycle
  BY <1>1, <1>6, <1>7, <1>8, <1>9 DEF Lifecycle, DrainBegin
<1> QED BY <1>1, <1>2, <1>3, <1>4, <1>5, <1>6, <1>9 DEF Next, TickFails, vars

\* revoke_bound_on runs in the commit that ends a run, whichever of finalize_run,
\* cancel_run, reap_expired_runs and interrupt_running_runs ends it.
THEOREM KeysAreRevoked == Spec => KeysEndWithRun
<1>1. IndInv /\ [Next]_vars =>
        [\A r \in RunId :
           /\ runs[r].status \in Open /\ runs'[r].status \in Terminal => key'[r] # "live"
           /\ key[r] = "revoked" => key'[r] = "revoked"]_vars
  BY KeysEndStep
<1> QED BY <1>1, InvariantHolds, PTL DEF Spec, KeysEndWithRun

-----------------------------------------------------------------------------
(* The two concurrency caps.                                               *)

\* The caps, and what the leasing loop knows about them at each of its steps.
CapsOK ==
    /\ WithinJobsConcurrent
    /\ WithinHostCeiling
    /\ tick.pc \in {"count", "lease"} => Cardinality(JobRows(Running(RunId))) < HostCeiling
    /\ tick.pc = "lease"
         => Cardinality(JobRows(Running(Of(tick.at)))) < JobsConcurrent[tick.at]

\* The runs of a ledger are finitely many, so they can be counted.
LEMMA Finite ==
    ASSUME NEW S, S \subseteq RunId
    PROVE  IsFiniteSet(S) /\ Cardinality(S) \in Nat
<1>1. IsFiniteSet(RunId)
  BY BoundsAssumption, FS_Interval DEF RunId
<1>2. IsFiniteSet(S)
  BY <1>1, FS_Subset
<1> QED BY <1>2, FS_CardinalityType

\* A subset of a set of runs is not larger than it.
LEMMA Smaller ==
    ASSUME NEW S, S \subseteq RunId, NEW T, T \subseteq S
    PROVE  Cardinality(T) <= Cardinality(S)
BY Finite, FS_Subset

\* Only lease_next_queued_run makes a job run: exports start running, but are no jobs.
LEMMA NoJobStarts ==
    ASSUME IndInv, [Next]_vars, ~TickLease, NEW r \in RunId,
           runs'[r].status = "running", runs'[r].tool = "job"
    PROVE  runs[r].status = "running" /\ runs[r].tool = "job"
<1>0. TypeOK
  BY DEF IndInv
<1>1. CASE UNCHANGED runs
  BY <1>1
<1>2. ASSUME NEW q \in RunId, Call(q)
      PROVE  runs[r].status = "running" /\ runs[r].tool = "job"
  <2>1. CASE InsertQueuedRun(q) \/ StartExportRun(q)
    BY <1>0, <2>1 DEF InsertQueuedRun, StartExportRun, TypeOK, NewRow
  <2>2. CASE CancelRun(q)
    BY <1>0, <2>2 DEF CancelRun, EndRows, TypeOK, Row
  <2> QED BY <1>1, <1>2, <2>1, <2>2 DEF Call, PurgePart, ParseBind, InsertSubKey
<1>3. ASSUME NEW q \in RunId, TaskStep(q)
      PROVE  runs[r].status = "running" /\ runs[r].tool = "job"
  <2>1. CASE FinalizeRun(q)
    <3>1. Finalized(q).status # "running"
      BY <1>0 DEF Finalized, TypeOK, Task
    <3> QED BY <1>0, <2>1, <3>1 DEF FinalizeRun, TypeOK
  <2> QED BY <1>1, <1>3, <2>1 DEF TaskStep, JobReturns, ArchiveBuilt, CheckStateQuota, StorePart,
                    StorePartFails, FinalizeRunFails, RecordRunEnd
<1>4. CASE Tick
  BY <1>1, <1>4 DEF Tick, TickScan, TickHostCheck, TickEnd, TickTenantCheck
<1>5. ASSUME NEW t \in Tenant, PurgeRuns(t)
      PROVE  runs[r].status = "running" /\ runs[r].tool = "job"
  BY <1>0, <1>5 DEF PurgeRuns, TypeOK, Row
<1>6. CASE ReapExpiredRuns \/ StartServing \/ DrainInterrupt
  <2>1. PICK S : EndRows(S, "error")
    BY <1>6 DEF ReapExpiredRuns, StartServing, EndExpired, DrainInterrupt
  <2> QED BY <1>0, <2>1 DEF EndRows, TypeOK, Row
<1>7. CASE RequeueInterruptedRuns
  BY <1>0, <1>7 DEF RequeueInterruptedRuns, Requeued
<1>8. CASE Lifecycle
  BY <1>1, <1>6, <1>7, <1>8 DEF Lifecycle, Crash, DrainBegin, DrainExit
<1> QED BY <1>1, <1>2, <1>3, <1>4, <1>5, <1>6, <1>8 DEF Next, TickFails, vars

\* Nobody but the executor moves the leasing loop, short of the process dying.
LEMMA TickMoves ==
    ASSUME [Next]_vars, ~Tick
    PROVE  tick' \in {tick, Idle}
BY DEF Next, TickFails, vars, TaskStep, JobReturns, ArchiveBuilt, CheckStateQuota, StorePart, StorePartFails,
       FinalizeRun, FinalizeRunFails, RecordRunEnd, Call, InsertQueuedRun, StartExportRun, ParseBind,
       InsertSubKey, CancelRun, PurgePart, PurgeRuns, ReapExpiredRuns, Lifecycle, Crash, Stop,
       DrainBegin, DrainInterrupt, DrainExit, RequeueInterruptedRuns, StartServing

\* How the leasing loop comes to its tenant count and to its lease: through the host
\* check and the tenant check, for the tenant it then leases from.
LEMMA LoopMoves ==
    ASSUME IndInv, [Next]_vars, ~TickLease
    PROVE  /\ tick'.pc \in {"count", "lease"} => TickHostCheck \/ tick.pc \in {"count", "lease"}
           /\ tick'.pc = "lease" => tick'.at = tick.at /\ (TickTenantCheck \/ tick.pc = "lease")
<1>0. TypeOK /\ Idle.pc = "idle"
  BY DEF IndInv, Idle
<1>1. CASE TickScan \/ TickTenantCheck
  BY <1>0, <1>1 DEF TickScan, TickTenantCheck, TypeOK
<1>2. CASE TickHostCheck
  BY <1>0, <1>2 DEF TickHostCheck
<1>3. CASE TickEnd
  BY <1>0, <1>3 DEF TickEnd
<1>4. CASE ~Tick
  BY <1>0, <1>4, TickMoves
<1> QED BY <1>1, <1>2, <1>3, <1>4 DEF Tick

\* A check of runs::tick that succeeded stays true until the lease: between the two,
\* jobs can only end.
LEMMA NextCaps == IndInv /\ CapsOK /\ [Next]_vars => CapsOK'
<1> SUFFICES ASSUME IndInv, CapsOK, [Next]_vars PROVE CapsOK'
  OBVIOUS
<1> DEFINE Jobs(W) == JobRows(Running(W))
<1>0. /\ TypeOK /\ tick.at \in Tenant
      /\ HostCeiling \in Nat /\ \A t \in Tenant : JobsConcurrent[t] \in Nat
  BY CapAssumption DEF IndInv, TypeOK
<1>1. \A W : W \subseteq RunId => Jobs(W) \subseteq Running(W) /\ Running(W) \subseteq RunId
  BY DEF JobRows, Running
<1>2. \A t \in Tenant : Of(t) \subseteq RunId
  BY DEF Of
<1>3. CASE ~TickLease
  <2>1. \A W : W \subseteq RunId => Jobs(W)' \subseteq Jobs(W)
    BY <1>3, NoJobStarts DEF JobRows, Running
  <2>2. \A W : W \subseteq RunId => /\ Cardinality(Jobs(W)') <= Cardinality(Jobs(W))
                                    /\ Cardinality(Jobs(W)) \in Nat
                                    /\ Cardinality(Jobs(W)') \in Nat
    <3> SUFFICES ASSUME NEW W, W \subseteq RunId
                 PROVE  /\ Cardinality(Jobs(W)') <= Cardinality(Jobs(W))
                        /\ Cardinality(Jobs(W)) \in Nat /\ Cardinality(Jobs(W)') \in Nat
      OBVIOUS
    <3>1. Jobs(W)' \subseteq Jobs(W) /\ Jobs(W) \subseteq RunId
      BY <1>1, <2>1
    <3> HIDE DEF Jobs
    <3> QED BY <3>1, Smaller, Finite
  <2>3. WithinJobsConcurrent' /\ WithinHostCeiling'
    <3>1. ASSUME NEW t \in Tenant PROVE Cardinality(Jobs(Of(t))') <= JobsConcurrent[t]
      <4>1. Cardinality(Jobs(Of(t))) <= JobsConcurrent[t]
        BY DEF CapsOK, WithinJobsConcurrent
      <4> HIDE DEF Jobs
      <4> QED BY <1>0, <1>2, <2>2, <4>1
    <3>2. Cardinality(Jobs(RunId)') <= HostCeiling
      <4>1. Cardinality(Jobs(RunId)) <= HostCeiling
        BY DEF CapsOK, WithinHostCeiling
      <4> HIDE DEF Jobs
      <4> QED BY <1>0, <2>2, <4>1
    <3> QED BY <3>1, <3>2 DEF WithinJobsConcurrent, WithinHostCeiling, Of
  <2>4. ASSUME tick'.pc \in {"count", "lease"} PROVE Cardinality(Jobs(RunId)') < HostCeiling
    <3>1. CASE Cardinality(Jobs(RunId)) < HostCeiling
      <4> HIDE DEF Jobs
      <4> QED BY <1>0, <2>2, <3>1
    <3>2. CASE TickHostCheck
      <4>1. Cardinality(Running(RunId)) < HostCeiling /\ runs' = runs
        BY <2>4, <3>2 DEF TickHostCheck, Idle
      <4>2. Cardinality(Jobs(RunId)) <= Cardinality(Running(RunId))
        BY <1>1, Smaller
      <4>3. Cardinality(Jobs(RunId)) \in Nat /\ Cardinality(Running(RunId)) \in Nat
        BY <1>1, Finite
      <4>4. Cardinality(Jobs(RunId)) < HostCeiling
        <5> HIDE DEF Jobs
        <5> QED BY <1>0, <4>1, <4>2, <4>3
      <4> QED BY <3>1, <4>4
    <3>3. CASE ~TickHostCheck
      <4>1. tick.pc \in {"count", "lease"}
        BY <1>3, <2>4, <3>3, LoopMoves
      <4>2. Cardinality(Jobs(RunId)) < HostCeiling
        BY <4>1 DEF CapsOK
      <4> QED BY <3>1, <4>2
    <3> QED BY <3>2, <3>3
  <2>5. ASSUME tick'.pc = "lease"
        PROVE  Cardinality(Jobs(Of(tick.at))') < JobsConcurrent[tick'.at]
    <3>0. PICK a \in Tenant : a = tick.at /\ a = tick'.at
      BY <1>0, <1>3, <2>5, LoopMoves
    <3>1. Of(a) \subseteq RunId /\ JobsConcurrent[a] \in Nat
      BY <1>0, <1>2
    <3>2. Cardinality(Jobs(Of(a))) < JobsConcurrent[a]
      <4>1. CASE TickTenantCheck
        <5>1. Cardinality(Jobs(Of(a))) \in Nat /\ Cardinality(Running(Of(a))) \in Nat
          BY <1>1, <3>1, Finite
        <5>2. Cardinality(Running(Of(a))) < JobsConcurrent[a]
          BY <1>0, <2>5, <3>0, <3>1, <4>1, <5>1 DEF TickTenantCheck, TypeOK
        <5>3. Cardinality(Jobs(Of(a))) <= Cardinality(Running(Of(a)))
          BY <1>1, <3>1, Smaller
        <5> HIDE DEF Jobs
        <5> QED BY <3>1, <5>1, <5>2, <5>3
      <4>2. CASE tick.pc = "lease"
        BY <3>0, <4>2 DEF CapsOK
      <4> QED BY <1>3, <2>5, <4>1, <4>2, LoopMoves
    <3>3. Cardinality(Jobs(Of(a))') < JobsConcurrent[a]
      <4> HIDE DEF Jobs
      <4> QED BY <2>2, <3>1, <3>2
    <3> QED BY <3>0, <3>3 DEF Of
  <2> QED BY <2>3, <2>4, <2>5 DEF CapsOK, Of
<1>4. CASE TickLease
  <2>1. tick'.pc = "host"
    BY <1>0, <1>4 DEF TickLease, TypeOK
  <2>2. CASE runs' = runs
    BY <2>1, <2>2 DEF CapsOK, WithinJobsConcurrent, WithinHostCeiling, JobRows, Running
  <2>3. CASE runs' # runs
    <3>0. Queued(Of(tick.at)) \subseteq Of(tick.at) /\ Queued(Of(tick.at)) # {}
      BY <1>4, <2>3 DEF TickLease, Queued
    <3>1. PICK r \in Of(tick.at) : runs' = [runs EXCEPT ![r].status = "running"]
      <4>1. Oldest(Queued(Of(tick.at))) \in Queued(Of(tick.at))
        BY <1>0, <1>2, <3>0, OldestInSet
      <4> QED BY <1>4, <2>3, <3>0, <4>1 DEF TickLease
    <3>2. \A W : W \subseteq RunId => /\ Jobs(W)' \subseteq Jobs(W) \cup {r}
                                      /\ r \notin W => Jobs(W)' \subseteq Jobs(W)
      BY <1>0, <1>2, <3>1 DEF JobRows, Running, TypeOK, Row
    <3>3. ASSUME NEW W, W \subseteq RunId
          PROVE  /\ Cardinality(Jobs(W)) \in Nat /\ Cardinality(Jobs(W)') \in Nat
                 /\ Cardinality(Jobs(W)') <= Cardinality(Jobs(W)) + 1
                 /\ r \notin W => Cardinality(Jobs(W)') <= Cardinality(Jobs(W))
      <4>1. /\ Jobs(W) \subseteq RunId /\ Jobs(W) \cup {r} \subseteq RunId
            /\ Jobs(W)' \subseteq RunId
        BY <1>0, <1>1, <1>2, <3>2, <3>3
      <4>2. Cardinality(Jobs(W) \cup {r}) <= Cardinality(Jobs(W)) + 1
        BY <4>1, Finite, FS_AddElement
      <4>3. Cardinality(Jobs(W)') <= Cardinality(Jobs(W) \cup {r})
        BY <3>2, <3>3, <4>1, Smaller
      <4>4. r \notin W => Cardinality(Jobs(W)') <= Cardinality(Jobs(W))
        BY <3>2, <3>3, <4>1, Smaller
      <4>5. /\ Cardinality(Jobs(W)) \in Nat /\ Cardinality(Jobs(W)') \in Nat
            /\ Cardinality(Jobs(W) \cup {r}) \in Nat
        BY <4>1, Finite
      <4> HIDE DEF Jobs
      <4> QED BY <4>2, <4>3, <4>4, <4>5
    <3>4. ASSUME NEW t \in Tenant PROVE Cardinality(Jobs(Of(t))') <= JobsConcurrent[t]
      <4>1. /\ Cardinality(Jobs(Of(t))) <= JobsConcurrent[t]
            /\ Cardinality(Jobs(Of(tick.at))) < JobsConcurrent[tick.at]
        BY <1>4 DEF CapsOK, WithinJobsConcurrent, TickLease
      <4>2. t # tick.at => r \notin Of(t)
        BY <3>1 DEF Of
      <4>3. Of(t) \subseteq RunId
        BY <1>2
      <4> HIDE DEF Jobs
      <4> QED BY <1>0, <3>3, <4>1, <4>2, <4>3
    <3>5. Cardinality(Jobs(RunId)') <= HostCeiling
      <4>1. Cardinality(Jobs(RunId)) < HostCeiling
        BY <1>4 DEF CapsOK, TickLease
      <4> HIDE DEF Jobs
      <4> QED BY <1>0, <3>3, <4>1
    <3> QED BY <2>1, <3>4, <3>5 DEF CapsOK, WithinJobsConcurrent, WithinHostCeiling, Of
  <2> QED BY <2>2, <2>3
<1> QED BY <1>3, <1>4

\* runs::tick: with its count, its check and its lease in separate database calls, and
\* exports, cancels and crashes in between, the running jobs of every tenant stay
\* within jobs_concurrent and those of the host within JOBS_HOST_CEILING.
THEOREM CapsHold == Spec => [](WithinJobsConcurrent /\ WithinHostCeiling)
<1>1. Init => CapsOK
  <2> SUFFICES ASSUME Init PROVE CapsOK
    OBVIOUS
  <2>1. \A W : W \subseteq RunId => JobRows(Running(W)) = {}
    BY DEF Init, NoRow, JobRows, Running
  <2>2. Cardinality({}) = 0
    BY FS_EmptySet
  <2>3. tick.pc = "idle"
    BY DEF Init, Idle
  <2>4. WithinJobsConcurrent
    <3>1. \A t \in Tenant : Of(t) \subseteq RunId
      BY DEF Of
    <3> QED BY <2>1, <2>2, <3>1, CapAssumption DEF WithinJobsConcurrent
  <2>5. WithinHostCeiling
    BY <2>1, <2>2, CapAssumption DEF WithinHostCeiling
  <2> QED BY <2>3, <2>4, <2>5 DEF CapsOK
<1>2. IndInv /\ CapsOK /\ [Next]_vars => CapsOK'
  BY NextCaps
<1>3. CapsOK => WithinJobsConcurrent /\ WithinHostCeiling
  BY DEF CapsOK
<1> QED BY <1>1, <1>2, <1>3, InvariantHolds, PTL DEF Spec

\* runs::tick against JOBS_HOST_CEILING alone: whatever the tenants' own caps add up to,
\* the host never has more running jobs than its ceiling.
THEOREM HostCeilingHolds == Spec => []WithinHostCeiling
BY CapsHold, PTL
=============================================================================
