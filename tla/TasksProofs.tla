---------------------------- MODULE TasksProofs -----------------------------
(***************************************************************************)
(* Theorems about module Tasks, for any number of posts, sessions, crashes *)
(* and failed calls. TaskInv is the inductive invariant: it says what the  *)
(* row and the thread of a task can be while a completion is between its   *)
(* UPDATE and its answer, when the revert may still take it back, and once *)
(* the session was told.                                                   *)
(***************************************************************************)
EXTENDS Tasks, TLAPS

\* A failed post took its row away.
Undone(t) == task[t].st = "none" /\ post[t] = "failed"

\* Before its row is inserted, nobody can know of a task.
UnknownOK(t) ==
    post[t] \in {"idle", "quota", "insert"} =>
        /\ task[t].st = "none" /\ thread[t] = {} /\ credit[t] = NoWorker
        /\ \A w \in Worker : call[w].pc # "idle" => call[w].task # t

\* What the closing messages and the answer of a completion say of the row.
ClosingOK(t) ==
    /\ credit[t] # NoWorker =>
         (task[t].st = "done" /\ task[t].result = credit[t]) \/ Undone(t)
    /\ "done" \in thread[t] => credit[t] # NoWorker
    /\ "dead" \in thread[t] => task[t].st = "dead" \/ Undone(t)
    /\ ~(Closed \subseteq thread[t])

\* A closed row somebody is left to tell of has its message, or its completion under way.
NoticeOK(t) ==
    task[t].st \in Closed /\ t \notin unseen =>
        \/ task[t].st \in thread[t]
        \/ task[t].st = "done" /\ \E w \in Worker : Completing(w) /\ call[w].task = t

\* A completion under way owns the row: it is done with this session's result and not
\* announced, or gone with its post, and no other session is completing the task.
CompletionOK(w) ==
    LET t == call[w].task IN
    Completing(w) =>
        /\ credit[t] = NoWorker /\ "dead" \notin thread[t]
        /\ (task[t].st = "done" /\ task[t].result = w) \/ Undone(t)
        /\ call[w].pc = "done_note" /\ ~call[w].linked => t \in unseen
        /\ \A v \in Worker : Completing(v) /\ call[v].task = t => v = w

\* The inductive invariant.
TaskInv ==
    /\ TypeOK
    /\ \A t \in Task : UnknownOK(t) /\ ClosingOK(t) /\ NoticeOK(t)
    /\ \A w \in Worker : CompletionOK(w)

-----------------------------------------------------------------------------
(* Types.                                                                  *)

\* The columns of a row: what its status says about the others.
LEMMA RowColumns ==
    ASSUME NEW r \in Row
    PROVE  /\ r \in [st : Open \cup Closed \cup {"none"}, linked : BOOLEAN,
                     result : Worker \cup {NoWorker}, left : 0..Deadline]
           /\ r.st = "none" => r = NoRow
           /\ r.st \in Open \cup {"dead"} => r.result = NoWorker
           /\ r.st = "done" => r.result \in Worker
<1> USE TaskAssumption DEF Open, Closed
<1>1. CASE r = NoRow
  BY <1>1 DEF NoRow
<1>2. CASE r \in [st : Open \cup {"dead"}, linked : BOOLEAN, result : {NoWorker}, left : 0..Deadline]
  BY <1>2
<1>3. CASE r \in [st : {"done"}, linked : BOOLEAN, result : Worker, left : 0..Deadline]
  BY <1>3
<1> QED BY <1>1, <1>2, <1>3 DEF Row

\* The changes the statements of tasks.rs make to a row keep it a row: a result goes
\* with status done, and a row that is not there has no other column.
LEMMA RowChanges ==
    ASSUME NEW r \in Row
    PROVE  /\ r.st = "posted" => [r EXCEPT !.st = "claimed"] \in Row
           /\ r.st \in Open => [r EXCEPT !.st = "dead"] \in Row
           /\ \A w \in Worker : r.st = "claimed" => [r EXCEPT !.st = "done", !.result = w] \in Row
           /\ r.st = "done" => [r EXCEPT !.st = "claimed", !.result = NoWorker] \in Row
           /\ r.st # "none" => [r EXCEPT !.linked = TRUE] \in Row
           /\ [r EXCEPT !.left = IF @ > 0 THEN @ - 1 ELSE 0] \in Row
<1> DEFINE Columns == [st : Open \cup Closed \cup {"none"}, linked : BOOLEAN,
                       result : Worker \cup {NoWorker}, left : 0..Deadline]
<1>1. /\ r \in Columns
      /\ r.st = "none" => r = NoRow
      /\ r.st \in Open \cup {"dead"} => r.result = NoWorker
      /\ r.st = "done" => r.result \in Worker
  BY RowColumns
<1>2. \A q \in Columns :
        \/ q.st \in Open \cup {"dead"} /\ q.result = NoWorker
        \/ q.st = "done" /\ q.result \in Worker
        => q \in Row
  BY DEF Row, Open, Closed
<1>3. r.st = "posted" => [r EXCEPT !.st = "claimed"] \in Row
  BY <1>1, <1>2 DEF Open, Closed
<1>4. r.st \in Open => [r EXCEPT !.st = "dead"] \in Row
  BY <1>1, <1>2 DEF Open, Closed
<1>5. \A w \in Worker : r.st = "claimed" => [r EXCEPT !.st = "done", !.result = w] \in Row
  BY <1>1, <1>2 DEF Open, Closed
<1>6. r.st = "done" => [r EXCEPT !.st = "claimed", !.result = NoWorker] \in Row
  BY <1>1, <1>2 DEF Open, Closed
<1>7. r.st # "none" => [r EXCEPT !.linked = TRUE] \in Row
  BY <1>1, <1>2 DEF Open, Closed
<1>8. [r EXCEPT !.left = IF @ > 0 THEN @ - 1 ELSE 0] \in Row
  <2>1. CASE r.st = "none"
    <3>1. r.left = 0
      BY <1>1, <2>1 DEF NoRow
    <3>2. [r EXCEPT !.left = IF @ > 0 THEN @ - 1 ELSE 0] = r
      BY <1>1, <3>1
    <3> QED BY <3>2
  <2>2. CASE r.st # "none"
    BY <1>1, <1>2, <2>2, TaskAssumption DEF Open, Closed
  <2> QED BY <2>1, <2>2
<1> QED BY <1>3, <1>4, <1>5, <1>6, <1>7, <1>8

\* A freshly inserted row and the idle state of a session have their types.
LEMMA Values ==
    /\ NoRow \in Row
    /\ [NoRow EXCEPT !.st = "posted", !.left = Deadline] \in Row
    /\ Idle \in CallState /\ Idle.pc = "idle"
<1>1. NoRow \in Row
  BY DEF Row
<1>2. [NoRow EXCEPT !.st = "posted", !.left = Deadline] \in Row
  <2>1. NoRow \in [st : {"none"}, linked : BOOLEAN, result : {NoWorker}, left : {0}]
    BY DEF NoRow
  <2>2. ASSUME NEW q \in [st : {"none"}, linked : BOOLEAN, result : {NoWorker}, left : {0}]
        PROVE  [q EXCEPT !.st = "posted", !.left = Deadline]
                 \in [st : Open \cup {"dead"}, linked : BOOLEAN, result : {NoWorker}, left : 0..Deadline]
    <3>1. Deadline \in 0..Deadline
      BY TaskAssumption
    <3>2. \A d \in 0..Deadline : [q EXCEPT !.st = "posted", !.left = d]
            \in [st : Open \cup {"dead"}, linked : BOOLEAN, result : {NoWorker}, left : 0..Deadline]
      BY DEF Open
    <3> QED BY <3>1, <3>2
  <2> QED BY <2>1, <2>2 DEF Row
<1>3. (CHOOSE t \in Task : TRUE) \in Task
  BY TaskAssumption
<1>4. Idle \in CallState /\ Idle.pc = "idle"
  BY <1>3 DEF Idle, CallState
<1> QED BY <1>1, <1>2, <1>4

\* No step of a post takes the state out of its types.
LEMMA PostTypes ==
    ASSUME TypeOK, NEW t \in Task,
           \/ PostDedupe(t) \/ PostQuota(t) \/ PostInsert(t) \/ PostSend(t) \/ PostLink(t)
           \/ PostLinkFails(t) \/ PostUndo(t) \/ PostUndoFails(t)
    PROVE  TypeOK'
<1> USE DEF TypeOK, PostGoes, Posting
<1>1. CASE PostDedupe(t) \/ PostQuota(t)
  BY <1>1 DEF PostDedupe, PostQuota
<1>2. CASE PostInsert(t) \/ PostUndo(t)
  BY <1>2, Values DEF PostInsert, PostUndo
<1>3. CASE PostSend(t)
  BY <1>3 DEF PostSend, Open
<1>4. CASE PostLink(t)
  <2>1. task[t] \in Row /\ (task[t].st # "none" => [task[t] EXCEPT !.linked = TRUE] \in Row)
    BY RowChanges
  <2>2. task' \in [Task -> Row]
    BY <1>4, <2>1 DEF PostLink
  <2> QED BY <1>4, <2>2 DEF PostLink
<1>5. CASE PostLinkFails(t) \/ PostUndoFails(t)
  BY <1>5, TaskAssumption DEF PostLinkFails, PostUndoFails
<1> QED BY <1>1, <1>2, <1>3, <1>4, <1>5

\* No step of a claim or a completion takes the state out of its types.
LEMMA CallTypes ==
    ASSUME TypeOK, NEW w \in Worker,
           \/ Read(w) \/ NoteClaim(w) \/ NoteDone(w) \/ Revert(w)
           \/ ReadFails(w) \/ NoteFails(w) \/ RevertFails(w)
           \/ \E t \in Task : Claim(w, t) \/ Complete(w, t)
    PROVE  TypeOK'
<1> USE DEF TypeOK, Returns, CallGoes, Begins
<1>0. call[w] \in CallState /\ call[w].task \in Task
  BY DEF CallState
<1>1. CASE Read(w)
  <2>1. task[call[w].task].linked \in BOOLEAN
    BY <1>0, RowColumns
  <2>2. call' \in [Worker -> CallState]
    BY <1>0, <1>1, <2>1, Values DEF Read, CallState
  <2> QED BY <1>0, <1>1, <2>2 DEF Read
<1>2. CASE NoteClaim(w) \/ NoteDone(w)
  BY <1>0, <1>2, Values DEF NoteClaim, NoteDone, Open, Closed
<1>3. CASE ReadFails(w) \/ NoteFails(w) \/ RevertFails(w)
  <2>1. call' \in [Worker -> CallState]
    BY <1>0, <1>3, Values DEF ReadFails, NoteFails, RevertFails, CallState
  <2>2. unseen' \subseteq Task
    BY <1>0, <1>3 DEF ReadFails, NoteFails, RevertFails
  <2> QED BY <1>3, <2>1, <2>2, TaskAssumption DEF ReadFails, NoteFails, RevertFails
<1>4. CASE Revert(w)
  <2>1. task' \in [Task -> Row]
    BY <1>0, <1>4, RowChanges DEF Revert
  <2> QED BY <1>4, <2>1, Values DEF Revert
<1>5. ASSUME NEW t \in Task, Claim(w, t) \/ Complete(w, t)
      PROVE  TypeOK'
  <2>1. task' \in [Task -> Row]
    <3>1. CASE Claim(w, t)
      BY <3>1, RowChanges DEF Claim
    <3>2. CASE Complete(w, t)
      BY <3>2, RowChanges DEF Complete
    <3> QED BY <1>5, <3>1, <3>2
  <2>2. call' \in [Worker -> CallState]
    <3>1. \A p \in {"claim_read", "done_read"} : [pc |-> p, task |-> t, linked |-> FALSE] \in CallState
      BY DEF CallState
    <3> QED BY <1>5, <3>1 DEF Claim, Complete
  <2> QED BY <1>5, <2>1, <2>2 DEF Claim, Complete
<1> QED BY <1>1, <1>2, <1>3, <1>4, <1>5

\* Neither the sweep, nor time, nor a crash takes the state out of its types.
LEMMA HostTypes ==
    ASSUME TypeOK, Sweep \/ Tick \/ Crash
    PROVE  TypeOK'
<1> USE DEF TypeOK
<1>1. CASE Sweep
  <2>1. task' \in [Task -> Row]
    BY <1>1, RowChanges DEF Sweep, Due
  <2>2. thread' \in [Task -> SUBSET (Open \cup Closed)]
    BY <1>1 DEF Sweep, Closed
  <2> QED BY <1>1, <2>1, <2>2 DEF Sweep, Due
<1>2. CASE Tick
  <2>1. task' \in [Task -> Row]
    BY <1>2, RowChanges DEF Tick
  <2> QED BY <1>2, <2>1 DEF Tick
<1>3. CASE Crash
  <2>1. unseen' \subseteq Task
    BY <1>3 DEF Crash, CallState
  <2> QED BY <1>3, <2>1, Values, TaskAssumption DEF Crash, Posting
<1> QED BY <1>1, <1>2, <1>3

\* No step takes the state out of its types.
LEMMA TypeStep == TypeOK /\ [Next]_vars => TypeOK'
<1> SUFFICES ASSUME TypeOK, [Next]_vars
             PROVE  TypeOK'
  OBVIOUS
<1>1. CASE UNCHANGED vars
  BY <1>1 DEF vars, TypeOK
<1>2. CASE Next
  BY <1>2, PostTypes, CallTypes, HostTypes DEF Next, PostStep, CallStep, Fault
<1> QED BY <1>1, <1>2

\* The initial state has its types.
LEMMA TypeInit == Init => TypeOK
BY Values, TaskAssumption DEF Init, TypeOK, Posting

\* Type correctness of the tasks table, the threads and the requests in progress.
THEOREM TypeCorrect == Spec => []TypeOK
BY TypeInit, TypeStep, PTL DEF Spec

-----------------------------------------------------------------------------
(* The invariant is inductive.                                             *)

\* A step of a post that leaves the rows and the threads alone.
LEMMA PostMovesOn ==
    ASSUME TaskInv, NEW t \in Task,
           \/ PostDedupe(t) \/ PostQuota(t) \/ PostLinkFails(t) \/ PostUndoFails(t)
    PROVE  TaskInv'
<1> USE DEF TaskInv, TypeOK, PostGoes, Posting
<1>0. /\ UNCHANGED <<task, thread, call, credit, unseen>> /\ faults' >= faults
      /\ \A u \in Task : u # t => post'[u] = post[u]
      /\ post'[t] \in {"idle", "quota", "insert"} => post[t] \in {"idle", "quota", "insert"}
      /\ post[t] # "failed"
  BY DEF PostDedupe, PostQuota, PostLinkFails, PostUndoFails
<1>1. TypeOK'
  BY PostTypes
<1>2. ASSUME NEW u \in Task PROVE UnknownOK(u)' /\ ClosingOK(u)' /\ NoticeOK(u)'
  <2>1. Undone(u) => Undone(u)'
    BY <1>0 DEF Undone
  <2>2. UnknownOK(u)'
    BY <1>0 DEF UnknownOK
  <2>3. ClosingOK(u)'
    BY <1>0, <2>1 DEF ClosingOK
  <2>4. NoticeOK(u)'
    BY <1>0, <1>1 DEF NoticeOK, Completing
  <2> QED BY <2>2, <2>3, <2>4
<1>3. ASSUME NEW w \in Worker PROVE CompletionOK(w)'
  BY <1>0 DEF CompletionOK, Completing, Undone, CallState
<1> QED BY <1>1, <1>2, <1>3

\* The insert of the row.
LEMMA InsertKeepsInv ==
    ASSUME TaskInv, NEW t \in Task, PostInsert(t)
    PROVE  TaskInv'
<1> USE DEF TaskInv, TypeOK, PostGoes, PostInsert
<1>0. task'[t].st = "posted"
  <2>1. [NoRow EXCEPT !.st = "posted", !.left = Deadline].st = "posted"
    BY DEF NoRow
  <2> QED BY <2>1
<1>1. TypeOK'
  BY PostTypes
<1>2. ASSUME NEW u \in Task PROVE UnknownOK(u)' /\ ClosingOK(u)' /\ NoticeOK(u)'
  <2>1. CASE u = t
    BY <1>0, <2>1 DEF UnknownOK, ClosingOK, NoticeOK, Undone, Closed
  <2>2. CASE u # t
    BY <2>2 DEF UnknownOK, ClosingOK, NoticeOK, Undone, Completing
  <2> QED BY <2>1, <2>2
<1>3. ASSUME NEW w \in Worker PROVE CompletionOK(w)'
  <2>1. Completing(w) => call[w].task # t
    BY DEF UnknownOK, Completing
  <2> QED BY <2>1 DEF CompletionOK, Completing, Undone, CallState
<1> QED BY <1>1, <1>2, <1>3

\* The send of the message, and the link of the thread.
LEMMA SendKeepsInv ==
    ASSUME TaskInv, NEW t \in Task, PostSend(t) \/ PostLink(t)
    PROVE  TaskInv'
<1> USE DEF TaskInv, TypeOK, PostGoes
<1>0. /\ UNCHANGED <<call, credit, unseen, faults>>
      /\ \A u \in Task : /\ thread[u] \subseteq thread'[u] /\ thread'[u] \subseteq thread[u] \cup {"posted"}
                         /\ task'[u].st = task[u].st /\ task'[u].result = task[u].result
                         /\ u # t => post'[u] = post[u] /\ thread'[u] = thread[u]
      /\ post[t] # "failed" /\ post'[t] \notin {"idle", "quota", "insert"}
  <2>1. CASE PostSend(t)
    BY <2>1 DEF PostSend
  <2>2. CASE PostLink(t)
    BY <2>2, RowColumns DEF PostLink
  <2> QED BY <2>1, <2>2
<1>1. TypeOK'
  BY PostTypes
<1>2. ASSUME NEW u \in Task PROVE UnknownOK(u)' /\ ClosingOK(u)' /\ NoticeOK(u)'
  <2>1. Undone(u) => Undone(u)'
    BY <1>0 DEF Undone
  <2>2. UnknownOK(u)'
    BY <1>0 DEF UnknownOK
  <2>3. ClosingOK(u)'
    BY <1>0, <2>1 DEF ClosingOK, Closed
  <2>4. NoticeOK(u)'
    BY <1>0 DEF NoticeOK, Completing
  <2> QED BY <2>2, <2>3, <2>4
<1>3. ASSUME NEW w \in Worker PROVE CompletionOK(w)'
  BY <1>0 DEF CompletionOK, Completing, Undone, CallState
<1> QED BY <1>1, <1>2, <1>3

\* delete_task of a failed post, also when the task was claimed or completed meanwhile.
LEMMA UndoKeepsInv ==
    ASSUME TaskInv, NEW t \in Task, PostUndo(t)
    PROVE  TaskInv'
<1> USE DEF TaskInv, TypeOK, PostGoes, PostUndo
<1>0. Undone(t)' /\ ~Undone(t)
  BY DEF Undone, NoRow
<1>1. TypeOK'
  BY PostTypes
<1>2. ASSUME NEW u \in Task PROVE UnknownOK(u)' /\ ClosingOK(u)' /\ NoticeOK(u)'
  <2>1. CASE u = t
    BY <1>0, <2>1 DEF UnknownOK, ClosingOK, NoticeOK, Undone, Closed
  <2>2. CASE u # t
    BY <2>2 DEF UnknownOK, ClosingOK, NoticeOK, Undone, Completing
  <2> QED BY <2>1, <2>2
<1>3. ASSUME NEW w \in Worker PROVE CompletionOK(w)'
  BY <1>0 DEF CompletionOK, Completing, Undone, CallState
<1> QED BY <1>1, <1>2, <1>3

\* The conditional UPDATEs of claim and complete: nobody is completing an open task.
LEMMA UpdateKeepsInv ==
    ASSUME TaskInv, NEW w \in Worker, NEW t \in Task, Claim(w, t) \/ Complete(w, t)
    PROVE  TaskInv'
<1> USE DEF TaskInv, TypeOK, Begins
<1>0. /\ UNCHANGED <<thread, post, credit, unseen, faults>>
      /\ call[w].pc = "idle" /\ "posted" \in thread[t] /\ task[t].st \in Open
      /\ \A v \in Worker : v # w => call'[v] = call[v]
      /\ \A u \in Task : u # t => task'[u] = task[u]
      /\ call'[w].task = t
  BY DEF Claim, Complete, Knows, Open
<1>1. TypeOK'
  BY CallTypes
<1>2. /\ post[t] \notin {"idle", "quota", "insert"} /\ ~Undone(t)
      /\ Closed \cap thread[t] = {} /\ credit[t] = NoWorker
      /\ \A v \in Worker : Completing(v) => call[v].task # t
  BY <1>0 DEF UnknownOK, ClosingOK, CompletionOK, Undone, Open, Closed
<1>3. \/ task'[t].st = "claimed" /\ ~Completing(w)'
      \/ task'[t].st = "done" /\ task'[t].result = w /\ call'[w].pc = "done_read"
  <2>1. CASE Claim(w, t)
    BY <2>1, RowColumns DEF Claim, Completing
  <2>2. CASE Complete(w, t)
    BY <2>2, RowColumns DEF Complete
  <2> QED BY <2>1, <2>2
<1>4. ASSUME NEW u \in Task PROVE UnknownOK(u)' /\ ClosingOK(u)' /\ NoticeOK(u)'
  <2>1. CASE u = t
    <3>1. UnknownOK(t)' /\ ClosingOK(t)'
      BY <1>0, <1>2 DEF UnknownOK, ClosingOK, Closed
    <3>2. NoticeOK(t)'
      BY <1>0, <1>3 DEF NoticeOK, Completing, Closed
    <3> QED BY <2>1, <3>1, <3>2
  <2>2. CASE u # t
    <3>1. UnknownOK(u)' /\ ClosingOK(u)'
      BY <1>0, <2>2 DEF UnknownOK, ClosingOK, Undone
    <3>2. NoticeOK(u)'
      BY <1>0, <2>2 DEF NoticeOK, Completing
    <3> QED BY <3>1, <3>2
  <2> QED BY <2>1, <2>2
<1>5. ASSUME NEW v \in Worker PROVE CompletionOK(v)'
  <2>1. CASE v = w
    BY <1>0, <1>2, <1>3, <2>1 DEF CompletionOK, Completing, Closed
  <2>2. CASE v # w /\ Completing(v)
    <3>1. call[v].task # t /\ call[v].task \in Task
      BY <1>2, <2>2 DEF CallState
    <3> QED BY <1>0, <2>2, <3>1 DEF CompletionOK, Completing, Undone
  <2>3. CASE v # w /\ ~Completing(v)
    BY <1>0, <2>3 DEF CompletionOK, Completing
  <2> QED BY <2>1, <2>2, <2>3
<1> QED BY <1>1, <1>4, <1>5

\* load_task: a completion that finds no thread_id is one the thread will not see.
LEMMA ReadKeepsInv ==
    ASSUME TaskInv, NEW w \in Worker, Read(w)
    PROVE  TaskInv'
<1> USE DEF TaskInv, TypeOK, Returns
<1> DEFINE t == call[w].task
<1>0. /\ UNCHANGED <<task, thread, post, credit, faults>> /\ unseen \subseteq unseen'
      /\ t \in Task /\ call[w].pc # "idle"
      /\ \A v \in Worker : v # w => call'[v] = call[v]
  BY DEF Read, CallState
<1>1. TypeOK'
  BY CallTypes
<1>2. \/ task[t].st = "none" /\ call'[w].pc = "idle"
      \/ /\ call'[w].task = t
         /\ Completing(w)' <=> Completing(w)
         /\ call'[w].pc = "done_note" /\ ~call'[w].linked => t \in unseen'
  BY <1>0, Values DEF Read, Completing, CallState
<1>3. ASSUME NEW u \in Task PROVE UnknownOK(u)' /\ ClosingOK(u)' /\ NoticeOK(u)'
  <2>1. UnknownOK(u)'
    BY <1>0, <1>2 DEF UnknownOK
  <2>2. ClosingOK(u)'
    BY <1>0 DEF ClosingOK, Undone
  <2>3. NoticeOK(u)'
    BY <1>0, <1>2 DEF NoticeOK, Completing, Closed
  <2> QED BY <2>1, <2>2, <2>3
<1>4. ASSUME NEW v \in Worker PROVE CompletionOK(v)'
  <2>1. CASE v = w
    BY <1>0, <1>2, <2>1 DEF CompletionOK, Completing, Undone
  <2>2. CASE v # w
    BY <1>0, <1>2, <2>2 DEF CompletionOK, Completing, Undone
  <2> QED BY <2>1, <2>2
<1> QED BY <1>1, <1>3, <1>4

\* The reply of a claim, sent or refused, a completion whose reply is refused, and the
\* calls that return with their row unread or their revert undone.
LEMMA NotesKeepInv ==
    ASSUME TaskInv, NEW w \in Worker, NoteClaim(w) \/ NoteFails(w) \/ ReadFails(w) \/ RevertFails(w)
    PROVE  TaskInv'
<1> USE DEF TaskInv, TypeOK, Returns, CallGoes
<1> DEFINE t == call[w].task
<1>0. /\ UNCHANGED <<task, post, credit>> /\ unseen \subseteq unseen'
      /\ t \in Task /\ call[w].pc # "idle"
      /\ \A v \in Worker : v # w => call'[v] = call[v]
      /\ \A u \in Task : thread[u] \subseteq thread'[u] /\ thread'[u] \subseteq thread[u] \cup {"claimed"}
      /\ \A u \in Task : u # t => thread'[u] = thread[u]
  BY DEF NoteClaim, NoteFails, ReadFails, RevertFails, CallState
<1>1. TypeOK'
  BY CallTypes
<1>2. \/ call'[w].pc = "idle" /\ ~Completing(w)
      \/ call'[w].pc = "idle" /\ Completing(w) /\ t \in unseen'
      \/ call'[w].pc = "revert" /\ call'[w].task = t /\ Completing(w)
  BY <1>0, Values DEF NoteClaim, NoteFails, ReadFails, RevertFails, Completing, CallState
<1>3. ASSUME NEW u \in Task PROVE UnknownOK(u)' /\ ClosingOK(u)' /\ NoticeOK(u)'
  <2>1. UnknownOK(u)'
    BY <1>0, <1>2 DEF UnknownOK
  <2>2. ClosingOK(u)'
    BY <1>0 DEF ClosingOK, Undone, Closed
  <2>3. NoticeOK(u)'
    BY <1>0, <1>1, <1>2 DEF NoticeOK, Completing, Closed
  <2> QED BY <2>1, <2>2, <2>3
<1>4. ASSUME NEW v \in Worker PROVE CompletionOK(v)'
  <2>0. call[v].task \in Task
    BY DEF CallState
  <2>1. CASE v = w
    BY <1>0, <1>2, <2>0, <2>1 DEF CompletionOK, Completing, Undone
  <2>2. CASE v # w
    BY <1>0, <1>2, <2>0, <2>2 DEF CompletionOK, Completing, Undone
  <2> QED BY <2>1, <2>2
<1> QED BY <1>1, <1>3, <1>4

\* The reply of a completion, and its answer.
LEMMA NoteDoneKeepsInv ==
    ASSUME TaskInv, NEW w \in Worker, NoteDone(w)
    PROVE  TaskInv'
<1> USE DEF TaskInv, TypeOK, Returns
<1> DEFINE t == call[w].task
<1>0. /\ UNCHANGED <<task, post, unseen, faults>> /\ t \in Task /\ Completing(w)
      /\ credit'[t] = w /\ \A u \in Task : u # t => credit'[u] = credit[u] /\ thread'[u] = thread[u]
      /\ call'[w].pc = "idle" /\ \A v \in Worker : v # w => call'[v] = call[v]
      /\ thread'[t] = IF call[w].linked THEN thread[t] \cup {"done"} ELSE thread[t]
  BY Values DEF NoteDone, CallState, Completing
<1>1. TypeOK'
  BY CallTypes
<1>2. /\ (task[t].st = "done" /\ task[t].result = w) \/ Undone(t)
      /\ "dead" \notin thread[t] /\ (call[w].linked \/ t \in unseen)
      /\ \A v \in Worker : Completing(v) /\ call[v].task = t => v = w
  BY <1>0 DEF CompletionOK, NoteDone
<1>3. ASSUME NEW u \in Task PROVE UnknownOK(u)' /\ ClosingOK(u)' /\ NoticeOK(u)'
  <2>1. UnknownOK(u)'
    BY <1>0 DEF UnknownOK, Completing
  <2>2. ClosingOK(u)'
    BY <1>0, <1>2, TaskAssumption DEF ClosingOK, Undone, Closed
  <2>3. NoticeOK(u)'
    <3>1. CASE u = t
      BY <1>0, <1>2, <3>1 DEF NoticeOK, Undone, Closed
    <3>2. CASE u # t
      BY <1>0, <3>2 DEF NoticeOK, Completing
    <3> QED BY <3>1, <3>2
  <2> QED BY <2>1, <2>2, <2>3
<1>4. ASSUME NEW v \in Worker PROVE CompletionOK(v)'
  <2>0. call[v].task \in Task
    BY DEF CallState
  <2>1. CASE v = w
    BY <1>0, <2>1 DEF CompletionOK, Completing
  <2>2. CASE v # w
    BY <1>0, <1>2, <2>0, <2>2 DEF CompletionOK, Completing, Undone
  <2> QED BY <2>1, <2>2
<1> QED BY <1>1, <1>3, <1>4

\* The revert of a completion that could not be announced.
LEMMA RevertKeepsInv ==
    ASSUME TaskInv, NEW w \in Worker, Revert(w)
    PROVE  TaskInv'
<1> USE DEF TaskInv, TypeOK, Returns
<1> DEFINE t == call[w].task
<1>0. /\ UNCHANGED <<thread, post, credit, unseen, faults>> /\ t \in Task /\ Completing(w)
      /\ \A u \in Task : u # t => task'[u] = task[u]
      /\ call'[w].pc = "idle" /\ \A v \in Worker : v # w => call'[v] = call[v]
      /\ task[t].st = "done" => task'[t].st = "claimed"
      /\ task[t].st # "done" => task'[t] = task[t]
  BY Values, RowColumns DEF Revert, CallState, Completing
<1>1. TypeOK'
  BY CallTypes
<1>2. /\ task[t].st = "done" \/ Undone(t)
      /\ "dead" \notin thread[t] /\ credit[t] = NoWorker
      /\ \A v \in Worker : Completing(v) /\ call[v].task = t => v = w
  BY <1>0 DEF CompletionOK
<1>3. ASSUME NEW u \in Task PROVE UnknownOK(u)' /\ ClosingOK(u)' /\ NoticeOK(u)'
  <2>1. CASE u = t
    BY <1>0, <1>2, <2>1 DEF UnknownOK, ClosingOK, NoticeOK, Completing, Undone, Closed
  <2>2. CASE u # t
    BY <1>0, <2>2 DEF UnknownOK, ClosingOK, NoticeOK, Completing, Undone
  <2> QED BY <2>1, <2>2
<1>4. ASSUME NEW v \in Worker PROVE CompletionOK(v)'
  <2>0. call[v].task \in Task
    BY DEF CallState
  <2>1. CASE v = w
    BY <1>0, <2>1 DEF CompletionOK, Completing
  <2>2. CASE v # w
    BY <1>0, <1>2, <2>0, <2>2 DEF CompletionOK, Completing, Undone
  <2> QED BY <2>1, <2>2
<1> QED BY <1>1, <1>3, <1>4

\* The sweep closes open tasks only: no completion owns them, and none was announced.
LEMMA SweepKeepsInv ==
    ASSUME TaskInv, Sweep
    PROVE  TaskInv'
<1> USE DEF TaskInv, TypeOK
<1>0. UNCHANGED <<post, call, credit, faults>>
  BY DEF Sweep
<1>1. TypeOK'
  BY HostTypes
<1>2. ASSUME NEW u \in Due
      PROVE  /\ u \in Task /\ task'[u].st = "dead" /\ task[u].st \in Open
             /\ u \notin unseen' => "dead" \in thread'[u]
             /\ thread'[u] \subseteq thread[u] \cup {"dead"}
             /\ credit[u] = NoWorker /\ Closed \cap thread[u] = {}
             /\ \A w \in Worker : Completing(w) => call[w].task # u
  <2>1. u \in Task /\ task[u].st \in Open
    BY DEF Due
  <2>2. /\ task'[u].st = "dead" /\ thread'[u] \subseteq thread[u] \cup {"dead"}
        /\ u \notin unseen' => "dead" \in thread'[u]
    BY <2>1, RowColumns DEF Sweep
  <2>3. credit[u] = NoWorker /\ Closed \cap thread[u] = {}
    BY <2>1 DEF ClosingOK, Undone, Open, Closed
  <2>4. \A w \in Worker : Completing(w) => call[w].task # u
    BY <2>1 DEF CompletionOK, Undone, Open
  <2> QED BY <2>1, <2>2, <2>3, <2>4
<1>3. ASSUME NEW u \in Task, u \notin Due
      PROVE  /\ task'[u] = task[u] /\ thread'[u] = thread[u]
             /\ u \in unseen' <=> u \in unseen
  BY <1>3 DEF Sweep
<1>4. ASSUME NEW u \in Task PROVE UnknownOK(u)' /\ ClosingOK(u)' /\ NoticeOK(u)'
  <2>1. CASE u \in Due
    BY <1>0, <1>2, <2>1 DEF UnknownOK, ClosingOK, NoticeOK, Open, Closed
  <2>2. CASE u \notin Due
    BY <1>0, <1>3, <2>2 DEF UnknownOK, ClosingOK, NoticeOK, Completing, Undone
  <2> QED BY <2>1, <2>2
<1>5. ASSUME NEW w \in Worker PROVE CompletionOK(w)'
  <2>1. call[w].task \in Task /\ (Completing(w) => call[w].task \notin Due)
    BY <1>2 DEF CallState
  <2> QED BY <1>0, <1>3, <2>1 DEF CompletionOK, Completing, Undone
<1> QED BY <1>1, <1>4, <1>5

\* Time passes, or the process dies with every request in it.
LEMMA TimeKeepsInv ==
    ASSUME TaskInv, Tick \/ Crash
    PROVE  TaskInv'
<1> USE DEF TaskInv, TypeOK
<1>1. TypeOK'
  BY HostTypes
<1>2. CASE Tick
  <2>1. /\ UNCHANGED <<thread, post, call, credit, unseen, faults>>
        /\ \A u \in Task : task'[u].st = task[u].st /\ task'[u].result = task[u].result
    BY <1>2, RowColumns DEF Tick
  <2>2. ASSUME NEW u \in Task PROVE UnknownOK(u)' /\ ClosingOK(u)' /\ NoticeOK(u)'
    BY <2>1 DEF UnknownOK, ClosingOK, NoticeOK, Completing, Undone
  <2>3. ASSUME NEW w \in Worker PROVE CompletionOK(w)'
    BY <2>1 DEF CompletionOK, Completing, Undone, CallState
  <2> QED BY <1>1, <2>2, <2>3
<1>3. CASE Crash
  <2>1. /\ UNCHANGED <<task, thread, credit>> /\ unseen \subseteq unseen'
        /\ \A w \in Worker : call'[w].pc = "idle" /\ (Completing(w) => call[w].task \in unseen')
        /\ \A u \in Task : /\ post'[u] \in {"idle", "quota", "insert"} => post[u] = post'[u]
                           /\ post[u] = "failed" => post'[u] = "failed"
    BY <1>3, Values DEF Crash, Posting
  <2>2. ASSUME NEW u \in Task PROVE UnknownOK(u)' /\ ClosingOK(u)' /\ NoticeOK(u)'
    BY <2>1 DEF UnknownOK, ClosingOK, NoticeOK, Undone, Closed
  <2>3. ASSUME NEW w \in Worker PROVE CompletionOK(w)'
    BY <2>1 DEF CompletionOK, Completing
  <2> QED BY <1>1, <2>2, <2>3
<1> QED BY <1>2, <1>3

\* Every step preserves the invariant.
LEMMA InvStep == TaskInv /\ [Next]_vars => TaskInv'
<1> SUFFICES ASSUME TaskInv, [Next]_vars
             PROVE  TaskInv'
  OBVIOUS
<1>1. CASE UNCHANGED vars
  BY <1>1 DEF vars, TaskInv, TypeOK, UnknownOK, ClosingOK, NoticeOK, CompletionOK, Completing, Undone
<1>2. CASE Next
  BY <1>2, PostMovesOn, InsertKeepsInv, SendKeepsInv, UndoKeepsInv, UpdateKeepsInv, ReadKeepsInv,
     NotesKeepInv, NoteDoneKeepsInv, RevertKeepsInv, SweepKeepsInv, TimeKeepsInv
     DEF Next, PostStep, CallStep, Fault
<1> QED BY <1>1, <1>2

\* tasks.rs post, claim, complete, the revert and sweep_at, interleaved at their database
\* calls with any faults: the invariant holds in every state.
THEOREM InvariantHolds == Spec => []TaskInv
<1>1. Init => TaskInv
  BY Values, TypeInit DEF Init, TaskInv, UnknownOK, ClosingOK, NoticeOK, CompletionOK, Completing,
     NoRow, Closed
<1> QED BY <1>1, InvStep, PTL DEF Spec

-----------------------------------------------------------------------------
(* What a task promises.                                                   *)

\* complete with its revert against sweep_at: no thread is told both that its task was
\* done and that it died, for any number of sessions and faults.
THEOREM ClosingsExclude == Spec => []NotBothClosings
<1>1. TaskInv => NotBothClosings
  BY DEF TaskInv, ClosingOK, NotBothClosings
<1> QED BY <1>1, InvariantHolds, PTL

\* complete: a session that was told its result completed the task stays right.
THEOREM CompletionsStick == Spec => []CompletionSticks
<1>1. TaskInv => CompletionSticks
  BY DEF TaskInv, ClosingOK, Undone, CompletionSticks
<1> QED BY <1>1, InvariantHolds, PTL

\* "No completion without its message", and no closing message the row contradicts: a reply
\* that is refused or fails takes the completion back.
THEOREM ClosingsAreTold == Spec => []ClosedWithNotice
<1>1. ASSUME TaskInv, NEW t \in Task, task[t].st \in Closed, t \notin unseen
      PROVE  \/ task[t].st \in thread[t]
             \/ task[t].st = "done" /\ \E w \in Worker : Completing(w) /\ call[w].task = t
  BY <1>1 DEF TaskInv, NoticeOK
<1>2. ASSUME TaskInv, NEW t \in Task, task[t].st # "none", NEW s \in Closed \cap thread[t]
      PROVE  task[t].st = s
  BY <1>2 DEF TaskInv, ClosingOK, Undone, Closed
<1>3. TaskInv => ClosedWithNotice
  BY <1>1, <1>2 DEF ClosedWithNotice
<1> QED BY <1>3, InvariantHolds, PTL
=============================================================================
