---------------------------- MODULE RunLifecycle ----------------------------
(***************************************************************************)
(* What the runs ledger promises the callers of host.runs.get, .wait and   *)
(* .list about the status of every run, whatever executor, cancel, reaper, *)
(* drain and restart do: a run is submitted once, is executed under at     *)
(* most two attempts, ends at most once, and once ended never changes.     *)
(* Module Runs, the model of the code, is shown to implement this module.  *)
(***************************************************************************)
EXTENDS Integers

CONSTANT RunId          \* every run the ledger will ever hold

VARIABLE ledger         \* [RunId -> [status, attempt]]

Open == {"queued", "running"}

Ended == {"done", "error", "timeout", "cancelled"}

Entry == [status : {"none"} \cup Open \cup Ended, attempt : 0..2]

Absent == [status |-> "none", attempt |-> 0]

Init == ledger = [r \in RunId |-> Absent]

\* A new row, queued for the executor or (an export) running at once.
Submit(r) ==
    /\ ledger[r].status = "none"
    /\ \E s \in Open : ledger' = [ledger EXCEPT ![r] = [status |-> s, attempt |-> 1]]

Begin(r) ==
    /\ ledger[r].status = "queued"
    /\ ledger' = [ledger EXCEPT ![r].status = "running"]

Finish(r) ==
    /\ ledger[r].status \in Open
    /\ \E s \in Ended : ledger' = [ledger EXCEPT ![r].status = s]

\* A reap or a drain ends a set of running rows in one commit.
Interrupt(S) ==
    /\ \A r \in S : ledger[r].status = "running"
    /\ ledger' = [r \in RunId |->
                    IF r \in S THEN [ledger[r] EXCEPT !.status = "error"] ELSE ledger[r]]

\* A restart queues again, once, every row a dead process left running.
Retry ==
    ledger' = [r \in RunId |->
                 IF ledger[r].status = "running" /\ ledger[r].attempt = 1
                 THEN [status |-> "queued", attempt |-> 2]
                 ELSE ledger[r]]

Next ==
    \/ \E r \in RunId : Submit(r) \/ Begin(r) \/ Finish(r)
    \/ \E S \in SUBSET RunId : Interrupt(S)
    \/ Retry

Spec == Init /\ [][Next]_ledger
=============================================================================
