----------------------------- MODULE ToolCalls ------------------------------
(***************************************************************************)
(* One destructive verb called several times under one idempotency key:    *)
(* the claim, wait and finish of src/idempotency.rs around the dispatch of *)
(* src/handler.rs, whose confirmation gate (src/confirm.rs) measures the   *)
(* blast radius, consumes a one-use token and only then writes. Every      *)
(* action is what happens between two database calls of one request.       *)
(*                                                                         *)
(* Rows of other keys, tools and tenants never meet (they are part of the  *)
(* primary key), so call_results is one row. Clocks are ages: an age stops *)
(* growing where the code no longer tells values apart. An error of the    *)
(* verb means its transaction rolled back.                                 *)
(***************************************************************************)
EXTENDS Integers, FiniteSets

CONSTANTS
    Call,       \* tools/call requests; a retry is another request
    Args,       \* what a request asks to delete
    Token,      \* confirm tokens a dry run may mint
    NoToken,    \* the request carries no confirm token
    NoCall,     \* no request's outcome
    Requests,   \* the assignments of args, token and key to requests that are tried
    WaitMax,    \* WAIT_MAX_SECS
    CallMax,    \* longest time from a claim to the commit of its finish or release
    Ttl,        \* TTL_SECS of a stored outcome
    TokenTtl,   \* TOKEN_TTL_S
    RowsMin,    \* the plan's confirm_rows_min
    MaxInserts, \* bound: rows other calls of the tenant add
    MaxFaults   \* bound: crashes, dropped requests and failed best-effort writes

ASSUME ClockAssumption ==
    /\ {WaitMax, CallMax, Ttl, TokenTtl, RowsMin} \subseteq Nat \ {0}
    /\ {MaxFaults, MaxInserts} \subseteq Nat
    /\ WaitMax < Ttl

ASSUME RequestAssumption ==
    /\ Args # {}
    /\ NoToken \notin Token
    /\ NoCall \notin Call
    /\ IsFiniteSet(Call)
    /\ Requests \subseteq [Call -> [args : Args, token : Token \cup {NoToken}, keyed : BOOLEAN]]

VARIABLES
    req,      \* what each request carries
    slot,     \* the call_results row of the key
    call,     \* each request's progress through call_tool
    token,    \* the confirm_tokens rows
    rows,     \* how many rows each deletion matches right now
    wrote,    \* history: requests whose deletion committed
    lapsed,   \* history: a stored outcome has outlived its Ttl
    inserts,  \* history: how many rows were added
    faults    \* history: how many faults happened

vars == <<req, slot, call, token, rows, wrote, lapsed, inserts, faults>>

\* The gate and the dispatch of dispatch_tenant_tool_dry_run, step by step.
Dispatch == {"measure", "check", "consume", "write", "give_back"}

\* From the claim to the finish the request is in flight; release is the task a
\* dropped ClaimGuard spawned.
InFlight == Dispatch \cup {"finish", "release"}

Outcome == {"none", "ok", "refused", "transient"}

CallState ==
    [pc     : {"idle", "claim", "answered", "gone"} \cup InFlight,
     guard  : BOOLEAN,              \* this request inserted the claim (Claim::Run)
     clock  : Nat,                  \* wait_started.elapsed(), then time in dispatch
     diff   : 0..MaxInserts,           \* rows the dry run measured
     spent  : BOOLEAN,              \* it consumed its token
     out    : Outcome,
     answer : {"none", "fresh", "replay", "conflict"},
     from   : Call \cup {NoCall}]   \* whose outcome was answered

\* The two parts of a request that args_sha256 hashes.
Sha(c) == <<req[c].args, req[c].token>>

NoRow == [st |-> "absent", sha |-> <<>>, by |-> NoCall, age |-> 0]

Slot == {NoRow} \cup
        [st : {"pending", "stored"},
         sha : Args \X (Token \cup {NoToken}),
         by : Call \cup {NoCall},
         age : 0..Ttl]

TokenRow == [st : {"none", "minted"},
             args : Args, diff : 0..MaxInserts, life : 0..TokenTtl, used : BOOLEAN]

TypeOK ==
    /\ req \in Requests
    /\ slot \in Slot
    /\ call \in [Call -> CallState]
    /\ \A c \in Call : call[c].clock <= IF call[c].pc = "claim" THEN WaitMax + 1 ELSE CallMax
    /\ token \in [Token -> TokenRow]
    /\ rows \in [Args -> 0..MaxInserts]
    /\ wrote \subseteq Call
    /\ lapsed \in BOOLEAN
    /\ inserts \in 0..MaxInserts
    /\ faults \in 0..MaxFaults

Fresh == [pc |-> "idle", guard |-> FALSE, clock |-> 0, diff |-> 0,
          spent |-> FALSE, out |-> "none", answer |-> "none", from |-> NoCall]

Init ==
    /\ req \in Requests
    /\ slot = NoRow
    /\ call = [c \in Call |-> Fresh]
    /\ token = [t \in Token |-> [st |-> "none", args |-> CHOOSE a \in Args : TRUE,
                                 diff |-> 0, life |-> 0, used |-> FALSE]]
    /\ rows = [a \in Args |-> 0]
    /\ wrote = {}
    /\ lapsed = FALSE
    /\ inserts = 0
    /\ faults = 0

Goto(c, p) == call' = [call EXCEPT ![c].pc = p]

\* The request is over; its locals go with it.
Leave(c, p) == [Fresh EXCEPT !.pc = p, !.guard = call[c].guard, !.spent = call[c].spent]

Answer(c, a, from) ==
    call' = [call EXCEPT ![c] = [Leave(c, "answered") EXCEPT !.answer = a, !.from = from]]

\* Dispatch begins.
Enter(c, guarded) ==
    call' = [call EXCEPT ![c].pc = "measure", ![c].guard = guarded, ![c].clock = 0]

\* The dispatch came to an end; the handler goes on to the guard's finish.
EndsWith(c, o) == call' = [call EXCEPT ![c].pc = "finish", ![c].out = o]

-----------------------------------------------------------------------------
(* The idempotency key: Db::idem_claim, the wait of call_tool, idem_finish.*)

\* extract_key: a request with a key claims it, one without goes to dispatch.
Submit(c) ==
    /\ call[c].pc = "idle"
    /\ IF req[c].keyed THEN Goto(c, "claim") ELSE Enter(c, FALSE)
    /\ UNCHANGED <<req, slot, token, rows, wrote, lapsed, inserts, faults>>

\* idem_claim first deletes an expired row and a pending one nobody finished.
Claimable ==
    \/ slot.st = "absent"
    \/ slot.age = Ttl
    \/ slot.st = "pending" /\ slot.age >= WaitMax

\* Claim::Run: the pending row is inserted and a ClaimGuard made.
ClaimRun(c) ==
    /\ call[c].pc = "claim"
    /\ Claimable
    /\ slot' = [st |-> "pending", sha |-> Sha(c), by |-> NoCall, age |-> 0]
    /\ Enter(c, TRUE)
    /\ lapsed' = (lapsed \/ (slot.st = "stored"))
    /\ UNCHANGED <<req, token, rows, wrote, inserts, faults>>

\* Variant of ClaimReplay that replays without comparing the args hash.
ClaimReplayAny(c) ==
    /\ call[c].pc = "claim"
    /\ ~Claimable
    /\ slot.st = "stored"
    /\ Answer(c, "replay", slot.by)
    /\ UNCHANGED <<req, slot, token, rows, wrote, lapsed, inserts, faults>>

\* Claim::Replay, or Claim::Conflict when the stored hash is another.
ClaimReplay(c) ==
    /\ call[c].pc = "claim"
    /\ ~Claimable
    /\ \/ slot.sha # Sha(c) /\ Answer(c, "conflict", NoCall)
       \/ slot.sha = Sha(c) /\ slot.st = "stored" /\ Answer(c, "replay", slot.by)
    /\ UNCHANGED <<req, slot, token, rows, wrote, lapsed, inserts, faults>>

\* Variant of WaitOver without the wait: Claim::Pending dispatches at once.
WaitOverAtOnce(c) ==
    /\ call[c].pc = "claim"
    /\ ~Claimable
    /\ slot.sha = Sha(c)
    /\ slot.st = "pending"
    /\ Enter(c, FALSE)
    /\ UNCHANGED <<req, slot, token, rows, wrote, lapsed, inserts, faults>>

\* Claim::Pending after WAIT_MAX_SECS + 1: the loop breaks and the catch-all arm
\* dispatches the call with no claim and no guard.
WaitOver(c) ==
    /\ call[c].pc = "claim"
    /\ call[c].clock = WaitMax + 1
    /\ ~Claimable
    /\ slot.sha = Sha(c)
    /\ slot.st = "pending"
    /\ Enter(c, FALSE)
    /\ UNCHANGED <<req, slot, token, rows, wrote, lapsed, inserts, faults>>

\* Variant of IdemFinish that treats every outcome as transient.
IdemFinishNever(c, o) == slot' = NoRow

\* Variant of IdemFinish that releases a claim by blanking its row.
IdemFinishBlanks(c, o) ==
    slot' = CASE o = "transient"    -> [slot EXCEPT !.st = "absent"]
              [] slot.st = "absent" -> slot
              [] OTHER              -> [slot EXCEPT !.st = "stored", !.by = c]

\* idem_finish: stores an ok or deterministic outcome into whatever row the key
\* has now, and deletes whatever row it has for a transient one.
IdemFinish(c, o) ==
    slot' = CASE o = "transient"    -> NoRow
              [] slot.st = "absent" -> slot
              [] OTHER              -> [slot EXCEPT !.st = "stored", !.by = c]

\* ClaimGuard::finish, then the response.
Finish(c) ==
    /\ call[c].pc = "finish"
    /\ IF call[c].guard THEN IdemFinish(c, call[c].out) ELSE UNCHANGED slot
    /\ Answer(c, "fresh", c)
    /\ UNCHANGED <<req, token, rows, wrote, lapsed, inserts, faults>>

\* ClaimGuard::finish failed: logged, the row stays pending, the caller is answered.
FinishFails(c) ==
    /\ faults < MaxFaults
    /\ call[c].pc = "finish"
    /\ call[c].guard
    /\ Answer(c, "fresh", c)
    /\ faults' = faults + 1
    /\ UNCHANGED <<req, slot, token, rows, wrote, lapsed, inserts>>

\* The task ClaimGuard::drop spawned: idem_finish with a transient error.
Release(c) ==
    /\ call[c].pc = "release"
    /\ IdemFinish(c, "transient")
    /\ call' = [call EXCEPT ![c] = Leave(c, "gone")]
    /\ UNCHANGED <<req, token, rows, wrote, lapsed, inserts, faults>>

\* Db::idem_purge_expired on the nightly tick.
PurgeExpired ==
    /\ slot.st # "absent"
    /\ slot.age = Ttl
    /\ slot' = NoRow
    /\ lapsed' = (lapsed \/ (slot.st = "stored"))
    /\ UNCHANGED <<req, call, token, rows, wrote, inserts, faults>>

-----------------------------------------------------------------------------
(* The confirmation gate of a destructive verb and the verb itself.        *)

\* A `dry_run: true` call: dry_run_notes measures the diff and
\* confirm_decorate_dry_run mints a token for it. What happens in between is not
\* seen by any other request.
DryRun(t, a) ==
    /\ token[t].st = "none"
    /\ rows[a] >= RowsMin
    /\ token' = [token EXCEPT ![t] = [@ EXCEPT !.st = "minted", !.args = a,
                                               !.diff = rows[a], !.life = TokenTtl]]
    /\ UNCHANGED <<req, slot, call, rows, wrote, lapsed, inserts, faults>>

\* dry_run_notes of the real call: the gate applies when the diff needs a token.
Measure(c) ==
    /\ call[c].pc = "measure"
    /\ call' = [call EXCEPT ![c].pc = IF rows[req[c].args] >= RowsMin THEN "check" ELSE "write",
                            ![c].diff = rows[req[c].args]]
    /\ UNCHANGED <<req, slot, token, rows, wrote, lapsed, inserts, faults>>

\* A dry run that errors measures nothing, and the real call goes ahead.
MeasureFails(c) ==
    /\ faults < MaxFaults
    /\ call[c].pc = "measure"
    /\ Goto(c, "write")
    /\ faults' = faults + 1
    /\ UNCHANGED <<req, slot, token, rows, wrote, lapsed, inserts>>

\* confirm_check's reading: the token exists, is unused, alive, and for this diff.
Accepted(c) ==
    /\ req[c].token # NoToken
    /\ LET row == token[req[c].token] IN
         /\ row.st = "minted"
         /\ ~row.used
         /\ row.life > 0
         /\ row.args = req[c].args
         /\ row.diff = call[c].diff

Check(c) ==
    /\ call[c].pc = "check"
    /\ IF Accepted(c) THEN Goto(c, "consume") ELSE EndsWith(c, "refused")
    /\ UNCHANGED <<req, slot, token, rows, wrote, lapsed, inserts, faults>>

\* Variant of Consume that does not ask for used_unix IS NULL.
ConsumeAgain(c) ==
    /\ call[c].pc = "consume"
    /\ token' = [token EXCEPT ![req[c].token].used = TRUE]
    /\ call' = [call EXCEPT ![c].pc = "write", ![c].spent = TRUE]
    /\ UNCHANGED <<req, slot, rows, wrote, lapsed, inserts, faults>>

\* confirm_token_consume: the conditional UPDATE decides between two requests
\* that both passed the check.
Consume(c) ==
    /\ call[c].pc = "consume"
    /\ \/ /\ ~token[req[c].token].used
          /\ token' = [token EXCEPT ![req[c].token].used = TRUE]
          /\ call' = [call EXCEPT ![c].pc = "write", ![c].spent = TRUE]
       \/ /\ token[req[c].token].used
          /\ EndsWith(c, "refused")
          /\ UNCHANGED token
    /\ UNCHANGED <<req, slot, rows, wrote, lapsed, inserts, faults>>

\* The verb commits.
Write(c) ==
    /\ call[c].pc = "write"
    /\ rows' = [rows EXCEPT ![req[c].args] = 0]
    /\ wrote' = wrote \cup {c}
    /\ EndsWith(c, "ok")
    /\ UNCHANGED <<req, slot, token, lapsed, inserts, faults>>

\* The verb fails, for good or for now, and wrote nothing: one that errs after a commit
\* of its own is not modelled.
WriteFails(c) ==
    /\ call[c].pc = "write"
    /\ \E o \in {"refused", "transient"} :
         call' = [call EXCEPT ![c].pc = IF call[c].spent THEN "give_back" ELSE "finish",
                              ![c].out = o]
    /\ UNCHANGED <<req, slot, token, rows, wrote, lapsed, inserts, faults>>

\* Variant of GiveBack that tries the write again, for as long as it fails.
GiveBackRetries(c) ==
    /\ call[c].pc = "give_back"
    /\ Goto(c, "write")
    /\ UNCHANGED <<req, slot, token, rows, wrote, lapsed, inserts, faults>>

\* confirm_token_release: the write the token authorised did not happen.
GiveBack(c) ==
    /\ call[c].pc = "give_back"
    /\ token' = [token EXCEPT ![req[c].token].used = FALSE]
    /\ Goto(c, "finish")
    /\ UNCHANGED <<req, slot, rows, wrote, lapsed, inserts, faults>>

\* Its error is ignored.
GiveBackFails(c) ==
    /\ faults < MaxFaults
    /\ call[c].pc = "give_back"
    /\ Goto(c, "finish")
    /\ faults' = faults + 1
    /\ UNCHANGED <<req, slot, token, rows, wrote, lapsed, inserts>>

-----------------------------------------------------------------------------
(* The environment.                                                        *)

\* Another call of the tenant adds a row the deletion matches.
Insert(a) ==
    /\ inserts < MaxInserts
    /\ rows' = [rows EXCEPT ![a] = @ + 1]
    /\ inserts' = inserts + 1
    /\ UNCHANGED <<req, slot, call, token, wrote, lapsed, faults>>

\* The request's future is dropped: a guard spawns its release, nothing gives a
\* consumed token back.
Drop(c) ==
    /\ faults < MaxFaults
    /\ call[c].pc \in Dispatch \cup {"finish"}
    /\ IF call[c].guard THEN Goto(c, "release") ELSE call' = [call EXCEPT ![c] = Leave(c, "gone")]
    /\ faults' = faults + 1
    /\ UNCHANGED <<req, slot, token, rows, wrote, lapsed, inserts>>

\* The process dies: no guard runs, the database keeps what was committed.
Crash ==
    /\ faults < MaxFaults
    /\ call' = [c \in Call |->
                  IF call[c].pc \in InFlight \cup {"claim"}
                  THEN Leave(c, "gone") ELSE call[c]]
    /\ call' # call
    /\ faults' = faults + 1
    /\ UNCHANGED <<req, slot, token, rows, wrote, lapsed, inserts>>

Older(n, cap) == IF n < cap THEN n + 1 ELSE n

\* A second passes: the host's own deadlines end a dispatch within CallMax, and a
\* waiter, which reads the row every 25 ms, has found it pending.
Tick ==
    /\ \A c \in Call : call[c].pc \in InFlight => call[c].clock < CallMax
    /\ \A c \in Call : call[c].pc = "claim" =>
         /\ slot.st = "pending" /\ slot.sha = Sha(c) /\ ~Claimable
         /\ call[c].clock < WaitMax + 1
    /\ slot' = IF slot = NoRow THEN slot ELSE [slot EXCEPT !.age = Older(@, Ttl)]
    /\ call' = [c \in Call |->
                  IF call[c].pc \in InFlight \cup {"claim"}
                  THEN [call[c] EXCEPT !.clock = @ + 1] ELSE call[c]]
    /\ token' = [t \in Token |-> [token[t] EXCEPT !.life = IF @ > 0 THEN @ - 1 ELSE 0]]
    /\ UNCHANGED <<req, rows, wrote, lapsed, inserts, faults>>

-----------------------------------------------------------------------------
Step(c) ==
    \/ Submit(c)
    \/ ClaimRun(c)
    \/ ClaimReplay(c)
    \/ WaitOver(c)
    \/ Measure(c)
    \/ Check(c)
    \/ Consume(c)
    \/ Write(c)
    \/ WriteFails(c)
    \/ GiveBack(c)
    \/ Finish(c)
    \/ Release(c)

Fault(c) ==
    \/ FinishFails(c)
    \/ MeasureFails(c)
    \/ GiveBackFails(c)
    \/ Drop(c)

Next ==
    \/ \E c \in Call : Step(c) \/ Fault(c)
    \/ \E t \in Token, a \in Args : DryRun(t, a)
    \/ \E a \in Args : Insert(a)
    \/ PurgeExpired
    \/ Crash
    \/ Tick

\* The runtime polls every request that can go on, a waiter re-reads the row
\* every 25 ms, and time passes.
Fairness ==
    /\ \A c \in Call : WF_vars(Step(c) /\ call[c].pc # "idle")
    /\ WF_vars(Tick)

Spec == Init /\ [][Next]_vars /\ Fairness

-----------------------------------------------------------------------------
(* What idempotency keys and confirm tokens promise.                       *)

\* A request answered from the store gets the outcome of a request with the same
\* arguments: idem_finish writes into the row of the key, whoever claimed it.
ReplayMatchesArgs ==
    \A c \in Call : call[c].answer = "replay" => Sha(call[c].from) = Sha(c)

\* Unless a request was dropped, the process died, a best-effort write failed or
\* the stored outcome lapsed, of all requests that claimed the key at most one
\* commits its deletion.
RanOnce ==
    faults = 0 /\ ~lapsed =>
        Cardinality({c \in wrote : call[c].guard}) <= 1

\* A request with a key is dispatched without a claim only when two others had
\* claimed the key before: one claim never outlasts the wait of another request.
UnclaimedNeedsTwo ==
    \A c \in Call :
        req[c].keyed /\ ~call[c].guard /\ call[c].pc \in InFlight =>
            Cardinality({d \in Call \ {c} : call[d].guard}) >= 2

\* A token authorises at most one deletion, whatever retries, takeovers and
\* restarts do; and without a fault a token is used up only by a deletion.
TokenSpentOnce ==
    \A t \in Token :
        LET holders == {c \in Call : req[c].token = t /\ call[c].spent} IN
        /\ Cardinality(holders \cap wrote) <= 1
        /\ token[t].used /\ faults = 0 =>
             \E c \in holders : c \in wrote \/ call[c].pc \in InFlight

\* Every request ends: it is answered, was dropped or died with the process. A
\* request never starts again, so from some time on none is under way: nobody
\* waits for ever on a claim whose holder is gone.
EveryCallAnswers ==
    <>[](\A c \in Call : call[c].pc \in {"idle", "answered", "gone"})
=============================================================================
