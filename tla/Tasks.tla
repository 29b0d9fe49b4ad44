------------------------------- MODULE Tasks --------------------------------
(***************************************************************************)
(* host.task.* of src/tasks.rs: a poster hands a task to a recipient over  *)
(* a message thread. Posting is five database calls with no transaction    *)
(* around them (dedupe, quota, insert, send, link), claiming and           *)
(* completing are a conditional UPDATE, a read of the row and a reply into *)
(* the thread, and the deadline sweep runs beside them. Each action is one *)
(* of those calls.                                                         *)
(*                                                                         *)
(* One poster and one recipient, whose address resolves, with several      *)
(* sessions; tasks of other tenants never meet. The 24 h dedupe            *)
(* window does not end in a behaviour.                                     *)
(***************************************************************************)
EXTENDS Integers, FiniteSets

CONSTANTS
    Task,        \* one host.task.post call each
    Worker,      \* sessions of the recipient
    NoWorker,    \* no session
    Key,         \* the assignments of dedupe keys to posts that are tried
    NoKey,       \* a post without dedupe_key
    OpenMax,     \* the plan's tasks_open_max
    Deadline,    \* deadline_s
    MaxFaults    \* bound: crashes and failed database calls or replies

ASSUME TaskAssumption ==
    /\ Task # {}
    /\ OpenMax \in Nat \ {0}
    /\ Deadline \in Nat \ {0}
    /\ MaxFaults \in Nat
    /\ NoWorker \notin Worker
    /\ \A key \in Key : DOMAIN key = Task

VARIABLES
    key,      \* the dedupe_key of each post
    task,     \* the tasks rows
    thread,   \* the data.task statuses of the messages in each task's thread
    post,     \* the progress of each post
    call,     \* the progress of each session's claim or complete
    credit,   \* history: the session told that its result completed the task
    unseen,   \* history: tasks closed with nobody left to tell the thread: thread_id was
              \* NULL, or the completing call died, lost its read or its revert
    faults    \* history: how many faults happened

vars == <<key, task, thread, post, call, credit, unseen, faults>>

Open == {"posted", "claimed"}
Closed == {"done", "dead"}

NoRow == [st |-> "none", linked |-> FALSE, result |-> NoWorker, left |-> 0]

\* linked: thread_id is set; result: whose result_json it is; left: to the deadline.
Row ==
    {NoRow}
    \cup [st : Open \cup {"dead"}, linked : BOOLEAN, result : {NoWorker}, left : 0..Deadline]
    \cup [st : {"done"}, linked : BOOLEAN, result : Worker, left : 0..Deadline]

Posting == {"quota", "insert", "send", "link", "link_refused", "undo"}

CallState ==
    [pc : {"idle", "claim_read", "claim_note", "done_read", "done_note", "revert"},
     task : Task, linked : BOOLEAN]      \* linked: thread_id of the row it read

TypeOK ==
    /\ key \in Key
    /\ task \in [Task -> Row]
    /\ thread \in [Task -> SUBSET (Open \cup Closed)]
    /\ post \in [Task -> {"idle", "answered", "failed", "gone"} \cup Posting]
    /\ call \in [Worker -> CallState]
    /\ credit \in [Task -> Worker \cup {NoWorker}]
    /\ unseen \subseteq Task
    /\ faults \in 0..MaxFaults

Idle == [pc |-> "idle", task |-> CHOOSE t \in Task : TRUE, linked |-> FALSE]

Init ==
    /\ key \in Key
    /\ task = [t \in Task |-> NoRow]
    /\ thread = [t \in Task |-> {}]
    /\ post = [t \in Task |-> "idle"]
    /\ call = [w \in Worker |-> Idle]
    /\ credit = [t \in Task |-> NoWorker]
    /\ unseen = {}
    /\ faults = 0

-----------------------------------------------------------------------------
(* host.task.post *)

PostGoes(t, p) == post' = [post EXCEPT ![t] = p]

\* The lookup of a live row with the post's dedupe_key: a hit is the answer.
PostDedupe(t) ==
    /\ post[t] = "idle"
    /\ \/ /\ key[t] # NoKey
          /\ \E u \in Task : key[u] = key[t] /\ task[u].st # "none"
          /\ PostGoes(t, "answered")
       \/ /\ key[t] = NoKey \/ \A u \in Task : key[u] = key[t] => task[u].st = "none"
          /\ PostGoes(t, "quota")
    /\ UNCHANGED <<key, task, thread, call, credit, unseen, faults>>

\* count_open against tasks_open_max.
PostQuota(t) ==
    /\ post[t] = "quota"
    /\ LET open == {u \in Task : task[u].st \in Open} IN
         PostGoes(t, IF Cardinality(open) >= OpenMax THEN "failed" ELSE "insert")
    /\ UNCHANGED <<key, task, thread, call, credit, unseen, faults>>

PostInsert(t) ==
    /\ post[t] = "insert"
    /\ task' = [task EXCEPT ![t] = [NoRow EXCEPT !.st = "posted", !.left = Deadline]]
    /\ PostGoes(t, "send")
    /\ UNCHANGED <<key, thread, call, credit, unseen, faults>>

\* messaging::send_outcome up to its commit: the recipient has the message, or
\* refuses it (and a message without recipients is stored), or nothing is stored.
PostSend(t) ==
    /\ post[t] = "send"
    /\ \/ /\ thread' = [thread EXCEPT ![t] = @ \cup {"posted"}]
          /\ PostGoes(t, "link")
       \/ /\ \E p \in {"link_refused", "undo"} : PostGoes(t, p)
          /\ UNCHANGED thread
    /\ UNCHANGED <<key, task, call, credit, unseen, faults>>

\* link_thread, after the message committed; a refused send is linked as well.
PostLink(t) ==
    /\ post[t] \in {"link", "link_refused"}
    /\ task' = IF task[t].st = "none" THEN task ELSE [task EXCEPT ![t].linked = TRUE]
    /\ PostGoes(t, IF post[t] = "link" THEN "answered" ELSE "undo")
    /\ UNCHANGED <<key, thread, call, credit, unseen, faults>>

\* link_thread fails: send_outcome reports an error although the message is out.
PostLinkFails(t) ==
    /\ faults < MaxFaults
    /\ post[t] \in {"link", "link_refused"}
    /\ PostGoes(t, "undo")
    /\ faults' = faults + 1
    /\ UNCHANGED <<key, task, thread, call, credit, unseen>>

\* delete_task, then the error.
PostUndo(t) ==
    /\ post[t] = "undo"
    /\ task' = [task EXCEPT ![t] = NoRow]
    /\ PostGoes(t, "failed")
    /\ UNCHANGED <<key, thread, call, credit, unseen, faults>>

\* delete_task ignores its own failure.
PostUndoFails(t) ==
    /\ faults < MaxFaults
    /\ post[t] = "undo"
    /\ PostGoes(t, "failed")
    /\ faults' = faults + 1
    /\ UNCHANGED <<key, task, thread, call, credit, unseen>>

-----------------------------------------------------------------------------
(* host.task.claim and host.task.complete *)

CallGoes(w, p) == call' = [call EXCEPT ![w].pc = p]

Begins(w, t, p) ==
    call' = [call EXCEPT ![w] = [pc |-> p, task |-> t, linked |-> FALSE]]

\* The call has completed its task and not answered yet.
Completing(w) == call[w].pc \in {"done_read", "done_note", "revert"}

Returns(w) == call' = [call EXCEPT ![w] = Idle]

\* A session knows a task from the message that carries it.
Knows(w, t) == call[w].pc = "idle" /\ "posted" \in thread[t]

\* The conditional UPDATE of claim changes one row; any other claim is an error.
Claim(w, t) ==
    /\ Knows(w, t)
    /\ task[t].st = "posted"
    /\ task' = [task EXCEPT ![t].st = "claimed"]
    /\ Begins(w, t, "claim_read")
    /\ UNCHANGED <<key, thread, post, credit, unseen, faults>>

\* Variant of Complete that also takes a task nobody finished in time.
CompleteDead(w, t) ==
    /\ Knows(w, t)
    /\ task[t].st \in {"claimed", "dead"}
    /\ task' = [task EXCEPT ![t].st = "done", ![t].result = w]
    /\ Begins(w, t, "done_read")
    /\ UNCHANGED <<key, thread, post, credit, unseen, faults>>

\* Variant of Complete that overwrites a completion.
CompleteAgain(w, t) ==
    /\ Knows(w, t)
    /\ task[t].st \in {"claimed", "done"}
    /\ task' = [task EXCEPT ![t].st = "done", ![t].result = w]
    /\ Begins(w, t, "done_read")
    /\ UNCHANGED <<key, thread, post, credit, unseen, faults>>

\* The conditional UPDATE of complete. A call that changes no row answers with
\* the stored result or an error, and changes nothing.
Complete(w, t) ==
    /\ Knows(w, t)
    /\ task[t].st = "claimed"
    /\ task' = [task EXCEPT ![t].st = "done", ![t].result = w]
    /\ Begins(w, t, "done_read")
    /\ UNCHANGED <<key, thread, post, credit, unseen, faults>>

\* load_task: the row, with its thread_id, as it is now; task_not_found if gone.
Read(w) ==
    LET t == call[w].task IN
    /\ call[w].pc \in {"claim_read", "done_read"}
    /\ \/ task[t].st = "none" /\ Returns(w) /\ UNCHANGED unseen
       \/ /\ task[t].st # "none"
          /\ call' = [call EXCEPT
                        ![w].pc = IF @ = "claim_read" THEN "claim_note" ELSE "done_note",
                        ![w].linked = task[t].linked]
          /\ unseen' = IF call[w].pc = "done_read" /\ ~task[t].linked
                       THEN unseen \cup {t} ELSE unseen
    /\ UNCHANGED <<key, task, thread, post, credit, faults>>

\* load_task fails: `?` returns after the UPDATE, with neither notice nor revert.
ReadFails(w) ==
    /\ faults < MaxFaults
    /\ call[w].pc \in {"claim_read", "done_read"}
    /\ Returns(w)
    /\ unseen' = IF Completing(w) THEN unseen \cup {call[w].task} ELSE unseen
    /\ faults' = faults + 1
    /\ UNCHANGED <<key, task, thread, post, credit>>

\* reply_state of a claim: best effort, and nothing at all without a thread.
NoteClaim(w) ==
    LET t == call[w].task IN
    /\ call[w].pc = "claim_note"
    /\ thread' = IF call[w].linked THEN [thread EXCEPT ![t] = @ \cup {"claimed"}] ELSE thread
    /\ Returns(w)
    /\ UNCHANGED <<key, task, post, credit, unseen, faults>>

\* reply_state of a completion, then the answer.
NoteDone(w) ==
    LET t == call[w].task IN
    /\ call[w].pc = "done_note"
    /\ thread' = IF call[w].linked THEN [thread EXCEPT ![t] = @ \cup {"done"}] ELSE thread
    /\ credit' = [credit EXCEPT ![t] = w]
    /\ Returns(w)
    /\ UNCHANGED <<key, task, post, unseen, faults>>

\* Variant of NoteFails that answers although the completion was not announced.
NoteFailsQuietly(w) ==
    /\ faults < MaxFaults
    /\ call[w].pc \in {"claim_note", "done_note"}
    /\ call[w].linked
    /\ Returns(w)
    /\ faults' = faults + 1
    /\ UNCHANGED <<key, task, thread, post, credit, unseen>>

\* reply_outcome refuses (a frozen tenant, msgs_per_hour) or fails: a claim stands
\* without its notice, a completion goes on to put the claim back.
NoteFails(w) ==
    /\ faults < MaxFaults
    /\ call[w].pc \in {"claim_note", "done_note"}
    /\ call[w].linked
    /\ IF call[w].pc = "claim_note" THEN Returns(w) ELSE CallGoes(w, "revert")
    /\ faults' = faults + 1
    /\ UNCHANGED <<key, task, thread, post, credit, unseen>>

\* Variant of Revert that leaves the result of the completion it takes back.
RevertKeepsResult(w) ==
    LET t == call[w].task IN
    /\ call[w].pc = "revert"
    /\ task' = IF task[t].st = "done" THEN [task EXCEPT ![t].st = "claimed"] ELSE task
    /\ Returns(w)
    /\ UNCHANGED <<key, thread, post, credit, unseen, faults>>

\* "put the claim back": from done to claimed, without the result.
Revert(w) ==
    LET t == call[w].task IN
    /\ call[w].pc = "revert"
    /\ task' = IF task[t].st = "done"
               THEN [task EXCEPT ![t].st = "claimed", ![t].result = NoWorker] ELSE task
    /\ Returns(w)
    /\ UNCHANGED <<key, thread, post, credit, unseen, faults>>

\* The revert ignores its own failure.
RevertFails(w) ==
    /\ faults < MaxFaults
    /\ call[w].pc = "revert"
    /\ Returns(w)
    /\ unseen' = unseen \cup {call[w].task}
    /\ faults' = faults + 1
    /\ UNCHANGED <<key, task, thread, post, credit>>

-----------------------------------------------------------------------------
(* The deadline sweep, time and failures *)

Due == {t \in Task : task[t].st \in Open /\ task[t].left = 0}

\* Variant of Sweep that leaves claimed tasks to their claimer.
SweepPosted ==
    LET due == {t \in Due : task[t].st = "posted"} IN
    /\ due # {}
    /\ task' = [t \in Task |-> IF t \in due THEN [task[t] EXCEPT !.st = "dead"] ELSE task[t]]
    /\ thread' = [t \in Task |-> IF t \in due /\ task[t].linked
                                 THEN thread[t] \cup {"dead"} ELSE thread[t]]
    /\ unseen' = unseen \cup {t \in due : ~task[t].linked}
    /\ UNCHANGED <<key, post, call, credit, faults>>

\* sweep_at: one transaction kills every due task and tells its thread.
Sweep ==
    /\ Due # {}
    /\ task' = [t \in Task |-> IF t \in Due THEN [task[t] EXCEPT !.st = "dead"] ELSE task[t]]
    /\ thread' = [t \in Task |-> IF t \in Due /\ task[t].linked
                                 THEN thread[t] \cup {"dead"} ELSE thread[t]]
    /\ unseen' = unseen \cup {t \in Due : ~task[t].linked}
    /\ UNCHANGED <<key, post, call, credit, faults>>

Tick ==
    /\ \E t \in Task : task[t].left > 0
    /\ task' = [t \in Task |-> [task[t] EXCEPT !.left = IF @ > 0 THEN @ - 1 ELSE 0]]
    /\ UNCHANGED <<key, thread, post, call, credit, unseen, faults>>

\* The process dies with every request in it; committed rows stay.
Crash ==
    /\ faults < MaxFaults
    /\ \/ \E t \in Task : post[t] \in Posting
       \/ \E w \in Worker : call[w].pc # "idle"
    /\ post' = [t \in Task |-> IF post[t] \in Posting THEN "gone" ELSE post[t]]
    /\ call' = [w \in Worker |-> Idle]
    /\ unseen' = unseen \cup {call[w].task : w \in {v \in Worker : Completing(v)}}
    /\ faults' = faults + 1
    /\ UNCHANGED <<key, task, thread, credit>>

-----------------------------------------------------------------------------
PostStep(t) ==
    \/ PostQuota(t)
    \/ PostInsert(t)
    \/ PostSend(t)
    \/ PostLink(t)
    \/ PostUndo(t)

CallStep(w) ==
    \/ Read(w)
    \/ NoteClaim(w)
    \/ NoteDone(w)
    \/ Revert(w)

Fault ==
    \/ \E t \in Task : PostLinkFails(t) \/ PostUndoFails(t)
    \/ \E w \in Worker : ReadFails(w) \/ NoteFails(w) \/ RevertFails(w)
    \/ Crash

Next ==
    \/ \E t \in Task : PostDedupe(t) \/ PostStep(t)
    \/ \E w \in Worker : CallStep(w)
    \/ \E w \in Worker, t \in Task : Claim(w, t) \/ Complete(w, t)
    \/ Sweep
    \/ Tick
    \/ Fault

\* Requests under way go on, spawn_sweep loops for ever and time passes. Nothing
\* obliges anybody to post, claim or complete.
Fairness ==
    /\ \A t \in Task : WF_vars(PostStep(t))
    /\ \A w \in Worker : WF_vars(CallStep(w))
    /\ WF_vars(Sweep)
    /\ WF_vars(Tick)

Spec == Init /\ [][Next]_vars /\ Fairness

-----------------------------------------------------------------------------
(* What a task promises. *)

\* A thread never tells its parties both that the task was done and that it died,
\* although the sweep, the completion and its revert are separate transactions.
NotBothClosings == \A t \in Task : ~(Closed \subseteq thread[t])

\* The session that was told its result completed the task is right for ever: no
\* sweep, revert or other completion changes the row. Only a post whose own
\* caller was told that it failed takes the row away.
CompletionSticks ==
    \A t \in Task :
        credit[t] # NoWorker =>
            \/ task[t].st = "done" /\ task[t].result = credit[t]
            \/ task[t].st = "none" /\ post[t] = "failed"

\* "No completion without its message" (tasks.rs complete): a task that closed has the
\* closing message in its thread, unless the call that completed it is still at work,
\* so a reply that is refused or fails takes the completion back; and a closing message
\* is true of the row. Exempt are the tasks of `unseen`: nothing tells a thread the row
\* was not linked to, and no code resumes a completion cut short by the death of the
\* process, by a failed load_task or by a failed revert.
ClosedWithNotice ==
    \A t \in Task :
        /\ task[t].st \in Closed /\ t \notin unseen =>
             \/ task[t].st \in thread[t]
             \/ task[t].st = "done" /\ \E w \in Worker : Completing(w) /\ call[w].task = t
        /\ task[t].st # "none" => \A s \in Closed \cap thread[t] : task[t].st = s

\* A task that is posted does not stay open: it is completed, its deadline kills
\* it, or its post is undone, whatever is claimed, reverted or crashes meanwhile.
EveryTaskCloses == <>[](\A t \in Task : task[t].st \notin Open)
=============================================================================
