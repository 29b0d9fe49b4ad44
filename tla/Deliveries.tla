----------------------------- MODULE Deliveries -----------------------------
(***************************************************************************)
(* Deliveries from outside: POST /hooks/... (src/hooks.rs) and POST        *)
(* /hook/{id} (src/webhooks.rs) dedupe a delivery, enqueue a run and       *)
(* answer; what is refused or fails becomes a dead letter that can be      *)
(* replayed (src/deadletters.rs), and the runs' ends leave receipts from   *)
(* which failure streaks are read (src/receipts.rs). Each action is one    *)
(* database call, so a crash, a retry of the sender or the executor can    *)
(* come between any two.                                                   *)
(*                                                                         *)
(* One tenant with one event trigger and one webhook trigger. An attempt   *)
(* is one request and the run id it would use. The executor is reduced to  *)
(* lease, finish and what follows the finish: module Runs has the rest.    *)
(***************************************************************************)
EXTENDS Integers, Sequences, FiniteSets

CONSTANTS
    Attempt,         \* requests: deliveries, retries and replays
    NoAttempt,       \* no request
    Key,             \* dedupe keys and delivery ids
    Traffic,         \* the assignments of route and key to attempts that are tried
    JobsConcurrent,  \* the plan's jobs_concurrent
    LettersMax,      \* the plan's dead_letters_max
    AlertStreak,     \* ALERT_STREAK
    MaxLapses,       \* bound: ends of a dedupe window
    MaxResumes,      \* bound: host.trigger.resume calls
    MaxFaults,       \* bound: crashes, failed database calls and reaped runs
    MaxUpsets        \* bound: faults and ends of one key's window, together

\* A delivery of either kind, or a replay of a letter, a run or an inbox row.
Route == {"event", "webhook", "replay", "replay_run", "replay_row"}
Delivery == {"event", "webhook"}

ASSUME DeliveryAssumption ==
    /\ {JobsConcurrent, AlertStreak, LettersMax} \subseteq Nat \ {0}
    /\ {MaxLapses, MaxResumes, MaxFaults, MaxUpsets} \subseteq Nat
    /\ NoAttempt \notin Attempt /\ IsFiniteSet(Attempt)
    /\ Traffic \subseteq [Attempt -> [route : Route, key : Key]]
    /\ \A tr \in Traffic, a, b \in Attempt :
         /\ {tr[a].route, tr[b].route} \subseteq Delivery
         /\ tr[a].key = tr[b].key
         => tr[a].route = tr[b].route

VARIABLES
    traffic,  \* what each attempt is
    claim,    \* event_dedupe and webhook_dedupe: who claimed each key
    req,      \* each request's progress and answer
    run,      \* the runs rows and the executor's task of each
    inbox,    \* attempts whose row is in the webhook's inbox table
    box,      \* dead_letters, dead_letter_drops, and history of all letters
    streak,   \* trigger_receipts, trigger_streak_floor and the alerts sent
    lapses,   \* history: dedupe windows that ended, by key
    mislaid,  \* history: attempts whose dead letter a fault took
    faults    \* history: how many faults happened

vars == <<traffic, claim, req, run, inbox, box, streak, lapses, mislaid, faults>>

Enqueuing == {"store", "count", "queue", "reject", "reject_letter", "refuse_letter", "mark"}
Answers == {"accepted", "duplicate", "refused", "error", "lost"}

OwingLetter == {"reject_letter", "refuse_letter"}

Ended == {"done", "error", "timeout", "rejected"}

TypeOK ==
    /\ traffic \in Traffic
    /\ claim \in [Key -> Attempt \cup {NoAttempt}]
    /\ req \in [Attempt -> [pc : {"idle"} \cup Enqueuing \cup Answers,
                            named : Attempt \cup {NoAttempt}]]
    /\ run \in [Attempt -> [st : {"none", "queued", "running"} \cup Ended,
                            job : {"none", "work", "failed", "receipt", "check", "letter"},
                            retried : BOOLEAN]]
    /\ inbox \subseteq Attempt
    /\ box \in [ring : Seq(Attempt), dropped : Nat, written : Seq(Attempt)]
    /\ Len(box.ring) <= LettersMax
    /\ streak \in [receipts : Seq(BOOLEAN), floors : SUBSET Nat, alerts : Nat,
                   resumes : 0..MaxResumes, blurred : BOOLEAN]
    /\ streak.floors \subseteq 0..Len(streak.receipts)
    /\ lapses \in [Key -> 0..MaxLapses]
    /\ mislaid \subseteq Attempt
    /\ faults \in 0..MaxFaults

Init ==
    /\ traffic \in Traffic
    /\ claim = [k \in Key |-> NoAttempt]
    /\ req = [a \in Attempt |-> [pc |-> "idle", named |-> NoAttempt]]
    /\ run = [a \in Attempt |-> [st |-> "none", job |-> "none", retried |-> FALSE]]
    /\ inbox = {}
    /\ box = [ring |-> <<>>, dropped |-> 0, written |-> <<>>]
    /\ streak = [receipts |-> <<>>, floors |-> {0}, alerts |-> 0, resumes |-> 0, blurred |-> FALSE]
    /\ lapses = [k \in Key |-> 0]
    /\ mislaid = {}
    /\ faults = 0

\* The bounds leave room for one more fault, or for one more end of a window.
WithinUpsets == \A k \in Key : faults + lapses[k] < MaxUpsets
MayFail == faults < MaxFaults /\ WithinUpsets
MayLapse == (\A k \in Key : lapses[k] < MaxLapses) /\ WithinUpsets

Running == {a \in Attempt : run[a].st = "running"}

IsWebhook(a) == traffic[a].route = "webhook"

\* The run's trigger_ref names the event trigger: only such a run has a receipt
\* and a letter. That of a replayed run names the original run.
OfEvent(a) == traffic[a].route \in {"event", "replay"}

Goto(a, p) == req' = [req EXCEPT ![a].pc = p]

\* A 2xx answer; n is the attempt whose run or row stands for this delivery.
Answer(a, how, n) == req' = [req EXCEPT ![a] = [pc |-> how, named |-> n]]

-----------------------------------------------------------------------------
(* Dead letters *)

\* Variant of InsertDeadLetter that does not trim the ring.
InsertUntrimmed(a) ==
    box' = [ring |-> Append(box.ring, a), dropped |-> box.dropped,
            written |-> Append(box.written, a)]

\* insert_dead_letter: the letter, the eviction of the oldest past the plan's
\* ring and the count of the evicted are one transaction.
InsertDeadLetter(a) ==
    LET all == Append(box.ring, a)
        over == IF Len(all) > LettersMax THEN Len(all) - LettersMax ELSE 0
    IN box' = [ring |-> SubSeq(all, over + 1, Len(all)), dropped |-> box.dropped + over,
               written |-> Append(box.written, a)]

-----------------------------------------------------------------------------
(* The request *)

\* A refusal before anything is claimed: the event route writes a letter first.
Refuse(a) ==
    /\ req[a].pc = "idle"
    /\ traffic[a].route \in Delivery
    /\ Goto(a, IF IsWebhook(a) THEN "refused" ELSE "refuse_letter")
    /\ UNCHANGED <<traffic, claim, run, inbox, box, streak, lapses, mislaid, faults>>

\* Variant of Deliver that reads the dedupe row and leaves the claim for later.
DeliverUnclaimed(a) ==
    LET k == traffic[a].key IN
    /\ req[a].pc = "idle"
    /\ traffic[a].route \in Delivery
    /\ IF claim[k] # NoAttempt /\ (run[claim[k]].st # "none" \/ claim[k] \in inbox)
       THEN Answer(a, "duplicate", claim[k]) /\ UNCHANGED claim
       ELSE /\ claim' = [claim EXCEPT ![k] = a]
            /\ Goto(a, IF IsWebhook(a) THEN "store" ELSE "count")
    /\ UNCHANGED <<traffic, run, inbox, box, streak, lapses, mislaid, faults>>

\* claim_event_dedupe or claim_webhook_dedupe commits the claim before anything
\* is stored under it. A duplicate event is told the claimant's run id, a
\* duplicate webhook only that it is known.
Deliver(a) ==
    LET k == traffic[a].key IN
    /\ req[a].pc = "idle"
    /\ traffic[a].route \in Delivery
    /\ \/ /\ claim[k] # NoAttempt
          /\ Answer(a, "duplicate", claim[k])
          /\ UNCHANGED claim
       \/ /\ claim[k] = NoAttempt
          /\ claim' = [claim EXCEPT ![k] = a]
          /\ Goto(a, IF IsWebhook(a) THEN "store" ELSE "count")
    /\ UNCHANGED <<traffic, run, inbox, box, streak, lapses, mislaid, faults>>

\* replay_dead_letter: a stored letter is enqueued again, with no dedupe.
Replay(a) ==
    /\ req[a].pc = "idle"
    /\ traffic[a].route = "replay"
    /\ box.ring # <<>>
    /\ Goto(a, "count")
    /\ UNCHANGED <<traffic, claim, run, inbox, box, streak, lapses, mislaid, faults>>

\* host.trigger.replay(run_id) of any event run: queued without the ceiling check.
ReplayRun(a) ==
    /\ req[a].pc = "idle"
    /\ traffic[a].route = "replay_run"
    /\ \E b \in Attempt : run[b].st # "none" /\ traffic[b].route \in {"event", "replay", "replay_run"}
    /\ Goto(a, "queue")
    /\ UNCHANGED <<traffic, claim, run, inbox, box, streak, lapses, mislaid, faults>>

\* replay_webhook_row of a stored inbox row, likewise.
ReplayWebhookRow(a) ==
    /\ req[a].pc = "idle"
    /\ traffic[a].route = "replay_row"
    /\ inbox # {}
    /\ Goto(a, "queue")
    /\ UNCHANGED <<traffic, claim, run, inbox, box, streak, lapses, mislaid, faults>>

\* state_insert into the inbox table; a quota or schema refusal is a 400. A
\* paused webhook stores the row and enqueues nothing.
Store(a) ==
    /\ req[a].pc = "store"
    /\ \/ /\ inbox' = inbox \cup {a}
          /\ Goto(a, "count") \/ Answer(a, "accepted", a)
       \/ Goto(a, "error") /\ UNCHANGED inbox
    /\ UNCHANGED <<traffic, claim, run, box, streak, lapses, mislaid, faults>>

\* enqueue_inner: count_running_runs_for_tenant against jobs_concurrent.
Count(a) ==
    /\ req[a].pc = "count"
    /\ Goto(a, IF Cardinality(Running) >= JobsConcurrent THEN "reject" ELSE "queue")
    /\ UNCHANGED <<traffic, claim, run, inbox, box, streak, lapses, mislaid, faults>>

\* The run is in the ledger; replay_dead_letter has yet to mark its letter.
Enqueued(a) == IF traffic[a].route = "replay" THEN Goto(a, "mark") ELSE Answer(a, "accepted", a)

InsertQueuedRun(a) ==
    /\ req[a].pc = "queue"
    /\ run' = [run EXCEPT ![a].st = "queued"]
    /\ Enqueued(a)
    /\ UNCHANGED <<traffic, claim, inbox, box, streak, lapses, mislaid, faults>>

\* Variant of InsertRejectedRun whose caller forgets the letter.
InsertRejectedOnly(a) ==
    /\ req[a].pc = "reject"
    /\ run' = [run EXCEPT ![a].st = "rejected"]
    /\ Answer(a, "accepted", a)
    /\ UNCHANGED <<traffic, claim, inbox, box, streak, lapses, mislaid, faults>>

\* Variant of InsertRejectedRun that answers at the ceiling without a row.
InsertNoRejectedRun(a) ==
    /\ req[a].pc = "reject"
    /\ IF traffic[a].route = "event" THEN Goto(a, "reject_letter") ELSE Enqueued(a)
    /\ UNCHANGED <<traffic, claim, run, inbox, box, streak, lapses, mislaid, faults>>

\* insert_rejected_run; only handle_hook writes a letter for it.
InsertRejectedRun(a) ==
    /\ req[a].pc = "reject"
    /\ run' = [run EXCEPT ![a].st = "rejected"]
    /\ IF traffic[a].route = "event" THEN Goto(a, "reject_letter") ELSE Enqueued(a)
    /\ UNCHANGED <<traffic, claim, inbox, box, streak, lapses, mislaid, faults>>

\* set_dead_letter_replayed: the letter names the new run, for the reader only.
SetDeadLetterReplayed(a) ==
    /\ req[a].pc = "mark"
    /\ Answer(a, "accepted", a)
    /\ UNCHANGED <<traffic, claim, run, inbox, box, streak, lapses, mislaid, faults>>

\* The letter of a rejected run or of a refusal, then the answer.
RequestLetter(a) ==
    /\ req[a].pc \in OwingLetter
    /\ InsertDeadLetter(a)
    /\ IF req[a].pc = "reject_letter" THEN Answer(a, "accepted", a) ELSE Goto(a, "refused")
    /\ UNCHANGED <<traffic, claim, run, inbox, streak, lapses, mislaid, faults>>

\* A database call of the request fails. A letter is best effort; anything else
\* answers an error, and the claim of the key stays, as does a replay's new run.
RequestFails(a) ==
    /\ MayFail
    /\ req[a].pc \in Enqueuing
    /\ CASE req[a].pc = "reject_letter" -> Answer(a, "accepted", a)
         [] req[a].pc = "refuse_letter" -> Goto(a, "refused")
         [] OTHER                       -> Goto(a, "error")
    /\ mislaid' = IF req[a].pc \in OwingLetter THEN mislaid \cup {a} ELSE mislaid
    /\ faults' = faults + 1
    /\ UNCHANGED <<traffic, claim, run, inbox, box, streak, lapses>>

\* EVENT_DEDUPE_WINDOW_S has passed since the claim.
Lapse(k) ==
    /\ claim[k] # NoAttempt
    /\ MayLapse
    /\ claim' = [claim EXCEPT ![k] = NoAttempt]
    /\ lapses' = [lapses EXCEPT ![k] = @ + 1]
    /\ UNCHANGED <<traffic, req, run, inbox, box, streak, mislaid, faults>>

-----------------------------------------------------------------------------
(* The executor, as far as deliveries see it *)

JobGoes(a, j) == run' = [run EXCEPT ![a].job = j]

\* Variant of Lease that counts the waiting runs against the ceiling as well.
LeaseCountsQueued(a) ==
    /\ run[a].st = "queued"
    /\ Cardinality({b \in Attempt : run[b].st \in {"queued", "running"}}) < JobsConcurrent
    /\ run' = [run EXCEPT ![a].st = "running", ![a].job = "work"]
    /\ UNCHANGED <<traffic, claim, req, inbox, box, streak, lapses, mislaid, faults>>

\* The executor's tick leases a queued run below the tenant's ceiling.
Lease(a) ==
    /\ run[a].st = "queued"
    /\ Cardinality(Running) < JobsConcurrent
    /\ run' = [run EXCEPT ![a].st = "running", ![a].job = "work"]
    /\ UNCHANGED <<traffic, claim, req, inbox, box, streak, lapses, mislaid, faults>>

\* finalize_run: a row that ended meanwhile is left alone and nothing follows. Only
\* a run of the event trigger has a receipt and a letter.
FinalizeRun(a) ==
    /\ run[a].job = "work"
    /\ \/ run[a].st # "running" /\ JobGoes(a, "none")
       \/ /\ run[a].st = "running"
          /\ \E s \in {"done", "error", "timeout"} :
               run' = [run EXCEPT ![a].st = s,
                                  ![a].job = IF OfEvent(a) THEN "receipt" ELSE "none"]
    /\ UNCHANGED <<traffic, claim, req, inbox, box, streak, lapses, mislaid, faults>>

\* finalize_run(...).unwrap_or(false): the task is over, and its row stays running. The
\* value "failed" remembers why there is no task.
FinalizeRunFails(a) ==
    /\ MayFail
    /\ run[a].job = "work"
    /\ JobGoes(a, "failed")
    /\ faults' = faults + 1
    /\ UNCHANGED <<traffic, claim, req, inbox, box, streak, lapses, mislaid>>

\* What record_run_end leaves to do: record_run_error for an error only.
AfterReceipt(a) == IF run[a].st = "error" THEN "letter" ELSE "none"

\* insert_trigger_receipt. A check that has not yet read the receipts will see
\* this one too.
RecordRunEnd(a) ==
    /\ run[a].job = "receipt"
    /\ streak' = [streak EXCEPT
                    !.receipts = Append(@, run[a].st = "done"),
                    !.blurred = @ \/ \E b \in Attempt : run[b].job = "check"]
    /\ JobGoes(a, IF run[a].st = "done" THEN "none" ELSE "check")
    /\ UNCHANGED <<traffic, claim, req, inbox, box, lapses, mislaid, faults>>

Floor == CHOOSE f \in streak.floors : \A g \in streak.floors : g <= f

\* streak_of: the failures at the head of the receipts after the resume floor.
StreakOf ==
    LET n == Len(streak.receipts) IN
    Cardinality({i \in (Floor + 1)..n : \A j \in i..n : ~streak.receipts[j]})

\* Variant of AlertOnStreak that does not read the resume floors.
AlertUnforgiving(a) ==
    LET n == Len(streak.receipts)
        failures == {i \in 1..n : \A j \in i..n : ~streak.receipts[j]}
    IN
    /\ run[a].job = "check"
    /\ streak' = [streak EXCEPT !.alerts = IF Cardinality(failures) = AlertStreak THEN @ + 1 ELSE @]
    /\ JobGoes(a, AfterReceipt(a))
    /\ UNCHANGED <<traffic, claim, req, inbox, box, lapses, mislaid, faults>>

\* alert_on_streak: the streak is read from the receipts, and an alert is sent
\* when it is exactly ALERT_STREAK. Receipts and floors are two reads: a resume
\* between them forgives what was read, as if the check came after it.
AlertOnStreak(a) ==
    /\ run[a].job = "check"
    /\ streak' = [streak EXCEPT !.alerts = IF StreakOf = AlertStreak THEN @ + 1 ELSE @]
    /\ JobGoes(a, AfterReceipt(a))
    /\ UNCHANGED <<traffic, claim, req, inbox, box, lapses, mislaid, faults>>

\* record_run_error
RecordRunError(a) ==
    /\ run[a].job = "letter"
    /\ InsertDeadLetter(a)
    /\ JobGoes(a, "none")
    /\ UNCHANGED <<traffic, claim, req, inbox, streak, lapses, mislaid, faults>>

\* Receipts, alerts and letters are best effort.
RecordFails(a) ==
    /\ MayFail
    /\ run[a].job \in {"receipt", "check", "letter"}
    /\ JobGoes(a, IF run[a].job = "letter" THEN "none" ELSE AfterReceipt(a))
    /\ streak' = [streak EXCEPT !.blurred = @ \/ run[a].job = "check"]
    /\ mislaid' = IF run[a].job = "letter" THEN mislaid \cup {a} ELSE mislaid
    /\ faults' = faults + 1
    /\ UNCHANGED <<traffic, claim, req, inbox, box, lapses>>

\* reset_trigger_streak of host.trigger.resume
Resume ==
    /\ streak.resumes < MaxResumes
    /\ streak' = [streak EXCEPT
                    !.floors = @ \cup {Len(streak.receipts)},
                    !.resumes = @ + 1,
                    !.blurred = @ \/ \E b \in Attempt : run[b].job = "check"]
    /\ UNCHANGED <<traffic, claim, req, run, inbox, box, lapses, mislaid, faults>>

\* A drain or a reaper ends the row, without a letter; its task, if it has one, goes on.
Reap(a) ==
    /\ MayFail
    /\ run[a].st = "running"
    /\ run' = [run EXCEPT ![a].st = "error"]
    /\ mislaid' = mislaid \cup {a}
    /\ faults' = faults + 1
    /\ UNCHANGED <<traffic, claim, req, inbox, box, streak, lapses>>

\* The process dies and starts again: requests and tasks are gone, and a run that
\* was under way is queued once more, once.
Crash ==
    /\ MayFail
    /\ req' = [a \in Attempt |-> IF req[a].pc \in Enqueuing
                                 THEN [req[a] EXCEPT !.pc = "lost"] ELSE req[a]]
    /\ run' = [a \in Attempt |->
                 [run[a] EXCEPT
                    !.job = "none",
                    !.st = IF @ = "running" /\ ~run[a].retried THEN "queued" ELSE @,
                    !.retried = @ \/ run[a].st = "running"]]
    /\ <<req', run'>> # <<req, run>>
    /\ mislaid' = mislaid \cup {a \in Attempt : \/ req[a].pc \in OwingLetter
                                                \/ run[a].job \in {"receipt", "check", "letter"}}
    /\ streak' = [streak EXCEPT !.blurred = @ \/ \E b \in Attempt : run[b].job = "check"]
    /\ faults' = faults + 1
    /\ UNCHANGED <<traffic, claim, inbox, box, lapses>>

-----------------------------------------------------------------------------
RequestStep(a) ==
    \/ Store(a)
    \/ Count(a)
    \/ InsertQueuedRun(a)
    \/ InsertRejectedRun(a)
    \/ SetDeadLetterReplayed(a)
    \/ RequestLetter(a)

JobStep(a) ==
    \/ FinalizeRun(a)
    \/ RecordRunEnd(a)
    \/ AlertOnStreak(a)
    \/ RecordRunError(a)

Next ==
    \/ \E a \in Attempt : Refuse(a) \/ Deliver(a) \/ RequestStep(a)
    \/ \E a \in Attempt : Replay(a) \/ ReplayRun(a) \/ ReplayWebhookRow(a)
    \/ \E a \in Attempt : Lease(a) \/ JobStep(a)
    \/ \E a \in Attempt : RequestFails(a) \/ FinalizeRunFails(a) \/ RecordFails(a) \/ Reap(a)
    \/ \E k \in Key : Lapse(k)
    \/ Resume
    \/ Crash

\* Requests and tasks under way go on, a job returns or meets its deadline, and
\* the executor's loop leases again and again.
Fairness ==
    /\ \A a \in Attempt : WF_vars(RequestStep(a)) /\ WF_vars(JobStep(a))
    /\ WF_vars(\E a \in Attempt : Lease(a))

Spec == Init /\ [][Next]_vars /\ Fairness

-----------------------------------------------------------------------------
(* What a sender and a tenant may rely on. *)

\* However often a sender repeats a delivery, and wherever the host crashes, a key
\* fires at most one run and stores at most one row per dedupe window. Replays
\* have no key of their own: they are the tenant's wish.
OneRunPerKey ==
    \A k \in Key :
        LET of == {a \in Attempt : traffic[a].key = k /\ traffic[a].route \in Delivery} IN
        /\ Cardinality({a \in of : run[a].st # "none"}) <= 1 + lapses[k]
        /\ Cardinality(of \cap inbox) <= 1 + lapses[k]

\* A sender that was told its delivery is taken is told so for a delivery that
\* has its run (or its inbox row), or is getting it, unless the request that
\* claimed the key failed or died before it stored anything.
AckedIsAccounted ==
    \A a \in Attempt :
        req[a].pc \in {"accepted", "duplicate"} =>
            LET n == req[a].named IN
            \/ run[n].st # "none" \/ n \in inbox
            \/ req[a].pc = "duplicate" /\ req[n].pc \in Enqueuing \cup {"error", "lost"}

Letters == {box.written[i] : i \in 1..Len(box.written)}

\* The run ended in a way the event trigger has a letter for.
OwesLetter(a) ==
    \/ run[a].st = "rejected" /\ traffic[a].route = "event"
    \/ run[a].st = "error" /\ OfEvent(a)

\* Every refused event and every event run that was rejected or ended in error has a
\* letter once its request or task is over, whatever fails elsewhere; only the letter
\* that a fault itself took (a failed insert, a crash before it, a reap) is missing.
\* And the ring always holds the newest letters, the others counted as dropped.
LettersAccounted ==
    /\ box.ring = SubSeq(box.written, box.dropped + 1, Len(box.written))
    /\ \A a \in Attempt :
         /\ \/ req[a].pc = "refused" /\ traffic[a].route = "event"
            \/ OwesLetter(a) /\ req[a].pc \notin OwingLetter /\ run[a].job = "none"
         /\ a \notin mislaid
         => a \in Letters

\* The i-th receipt begins a streak of failures that reaches ALERT_STREAK: the one
\* before it is a success or was forgiven by a resume.
BeginsLongStreak(i) ==
    LET last == i + AlertStreak - 1 IN
    /\ last <= Len(streak.receipts)
    /\ \A j \in i..last : ~streak.receipts[j]
    /\ i - 1 \in streak.floors \/ streak.receipts[i - 1]
    /\ \A f \in streak.floors : f < i \/ f >= last

\* "Exactly when the trigger's failure streak reaches ALERT_STREAK, one message":
\* as long as no receipt, resume or crash came between a receipt and its own
\* check, the alerts are as many as the streaks that became long enough.
OneAlertPerStreak ==
    ~streak.blurred /\ (\A a \in Attempt : run[a].job # "check") =>
        streak.alerts = Cardinality({i \in 1..Len(streak.receipts) : BeginsLongStreak(i)})

\* No task works on the running row: its finalize_run failed, or its process died a
\* second time. Nothing but a reap ends it, or a restart if it was not restarted yet,
\* and it counts against jobs_concurrent.
Abandoned ==
    {a \in Attempt : /\ run[a].st = "running"
                     /\ run[a].job = "failed" \/ (run[a].job = "none" /\ run[a].retried)}

\* The run ended, with its letter if it owes one that no fault took; a paused webhook
\* only has its row. Or it was abandoned, or waits behind runs that were.
Settled(a) ==
    \/ run[a].st \in Ended /\ (OwesLetter(a) => a \in Letters \cup mislaid)
    \/ run[a].st = "none" /\ a \in inbox
    \/ a \in Abandoned
    \/ run[a].st = "queued" /\ Cardinality(Abandoned) >= JobsConcurrent

\* runs.rs spawn_executor, deadletters.rs: every delivery and replay that was accepted
\* comes to an end, through a restart, at a ceiling it shares with the others. Left
\* open are the runs that the host abandons and those that wait behind as many
\* abandoned runs as the ceiling allows: no code of the executor ends either.
AckedEventEnds ==
    <>[](\A a \in Attempt : req[a].pc = "accepted" => Settled(a))
=============================================================================
