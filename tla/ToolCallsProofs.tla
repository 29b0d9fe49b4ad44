-------------------------- MODULE ToolCallsProofs ---------------------------
(***************************************************************************)
(* Theorems about module ToolCalls, for any number of requests, tokens,    *)
(* arguments, rows and faults, and any values of the clocks. CallInv says  *)
(* where a request can be with its guard and its token, and who holds a    *)
(* used token; WaitInv counts the claims a waiter has seen go by; ClaimInv *)
(* ties the row of the key to the request that claimed it, and holds when  *)
(* a dispatch ends before WAIT_MAX_SECS (the run MCToolCallsSlow shows     *)
(* what happens when it does not).                                         *)
(***************************************************************************)
EXTENDS ToolCalls, FiniteSetTheorems, TLAPS

\* What a request can hold at each step of call_tool.
StateOK(c) ==
    /\ call[c].pc \in {"idle", "claim"} => ~call[c].guard
    /\ call[c].pc \in {"idle", "claim", "measure", "check", "consume"} => ~call[c].spent
    /\ call[c].pc = "idle" => call[c].clock = 0
    /\ call[c].pc = "consume" \/ call[c].spent => req[c].token # NoToken
    /\ call[c].pc = "give_back" => call[c].spent
    /\ call[c].pc = "release" => call[c].guard
    /\ c \in wrote => call[c].pc \in {"finish", "release", "answered", "gone"}
    /\ c \in wrote /\ call[c].pc = "finish" => call[c].out = "ok"

\* The request consumed its token and has not given it back.
Holds(c, t) ==
    /\ call[c].spent /\ req[c].token = t
    /\ c \in wrote \/ call[c].pc \in {"write", "give_back"}

\* A used token has one holder at most, and without a fault it has one.
TokenOK(t) ==
    /\ \A c \in Call : Holds(c, t) => token[t].used
    /\ \A c, d \in Call : Holds(c, t) /\ Holds(d, t) => c = d
    /\ token[t].used /\ faults = 0 => \E c \in Call : Holds(c, t)

\* The inductive invariant of the requests and the tokens.
CallInv ==
    /\ TypeOK
    /\ \A c \in Call : StateOK(c)
    /\ \A a \in Args : rows[a] <= inserts
    /\ \A t \in Token : TokenOK(t)

\* Two requests have claimed the key.
TwoClaims == \E d, e \in Call : d # e /\ call[d].guard /\ call[e].guard

\* Whoever waits has seen a claim, and two of them once it waits longer than the claim
\* it finds; whoever was dispatched without a claim has seen two.
WaitOK(c) ==
    /\ call[c].pc = "claim" /\ call[c].clock > 0 => \E d \in Call : call[d].guard
    /\ call[c].pc = "claim" /\ slot.st = "pending" /\ call[c].clock > slot.age => TwoClaims
    /\ req[c].keyed /\ ~call[c].guard /\ call[c].pc \in InFlight => TwoClaims

\* The inductive invariant of the wait.
WaitInv ==
    /\ slot.st # "absent" => \E d \in Call : call[d].guard
    /\ \A c \in Call : WaitOK(c)

\* The request has claimed the key and not let go of it.
Claims(c) == call[c].guard /\ call[c].pc \in InFlight

\* The row of the key is the claim of the request that claims it, as old as its dispatch.
HolderOK(c) ==
    Claims(c) =>
        /\ slot.st = "pending" /\ slot.sha = Sha(c) /\ slot.age = call[c].clock
        /\ \A d \in Call : Claims(d) => d = c

\* A stored outcome is of a request with the row's arguments, and so is a replayed one;
\* without faults and lapses, a claimed deletion that committed is the stored outcome
\* or about to be stored.
OutcomeOK(c) ==
    /\ call[c].answer = "replay" => Sha(call[c].from) = Sha(c)
    /\ faults = 0 /\ ~lapsed /\ c \in wrote /\ call[c].guard =>
         call[c].pc = "finish" \/ (slot.st = "stored" /\ slot.by = c)

\* The inductive invariant of the claim.
ClaimInv ==
    /\ slot.st = "stored" => slot.by \in Call /\ Sha(slot.by) = slot.sha
    /\ \A c \in Call : HolderOK(c) /\ OutcomeOK(c)

-----------------------------------------------------------------------------
(* Requests and tokens.                                                    *)

\* The locals of a request that is over.
LEMMA Left ==
    ASSUME TypeOK, NEW c \in Call, NEW p \in {"answered", "gone"}
    PROVE  /\ Leave(c, p) \in CallState
           /\ Leave(c, p).pc = p /\ Leave(c, p).clock = 0 /\ Leave(c, p).answer = "none"
           /\ Leave(c, p).guard = call[c].guard /\ Leave(c, p).spent = call[c].spent
<1>1. Fresh \in CallState /\ Fresh.clock = 0 /\ Fresh.answer = "none"
  BY ClockAssumption DEF Fresh, CallState, Outcome
<1>2. PICK q \in CallState : q = Fresh
  BY <1>1
<1>3. Leave(c, p) = [q EXCEPT !.pc = p, !.guard = call[c].guard, !.spent = call[c].spent]
  BY <1>2 DEF Leave
<1>4. q.clock = 0 /\ q.answer = "none"
  BY <1>1, <1>2
<1> QED BY <1>3, <1>4 DEF TypeOK, CallState

\* A request that is answered.
LEMMA Answered ==
    ASSUME TypeOK, NEW c \in Call, NEW a \in {"fresh", "replay", "conflict"},
           NEW f \in Call \cup {NoCall}, Answer(c, a, f)
    PROVE  /\ call' \in [Call -> CallState]
           /\ call'[c].pc = "answered" /\ call'[c].clock = 0
           /\ call'[c].answer = a /\ call'[c].from = f
           /\ call'[c].guard = call[c].guard /\ call'[c].spent = call[c].spent
           /\ \A d \in Call : d # c => call'[d] = call[d]
<1> DEFINE l == Leave(c, "answered")
<1>1. /\ l \in CallState /\ l.pc = "answered" /\ l.clock = 0
      /\ l.guard = call[c].guard /\ l.spent = call[c].spent
  BY Left
<1> HIDE DEF l
<1>2. LET m == [l EXCEPT !.answer = a, !.from = f] IN
      /\ m \in CallState /\ m.pc = l.pc /\ m.clock = l.clock /\ m.answer = a /\ m.from = f
      /\ m.guard = l.guard /\ m.spent = l.spent
  BY <1>1 DEF CallState
<1>3. call' = [call EXCEPT ![c] = [l EXCEPT !.answer = a, !.from = f]]
  BY DEF Answer, l
<1> QED BY <1>1, <1>2, <1>3 DEF TypeOK

\* What does not touch a token, nor gains or without a fault loses a holder, keeps TokenOK.
LEMMA TokenFrame ==
    ASSUME NEW t \in Token, TokenOK(t), token'[t].used = token[t].used,
           \A c \in Call : Holds(c, t)' => Holds(c, t),
           faults' = 0 => faults = 0 /\ \A c \in Call : Holds(c, t) => Holds(c, t)'
    PROVE  TokenOK(t)'
BY DEF TokenOK

\* Submit, the claim and the end of the wait: the request enters the dispatch, or waits.
LEMMA EnterFrame ==
    ASSUME TypeOK, NEW c \in Call, Submit(c) \/ ClaimRun(c) \/ WaitOver(c)
    PROVE  /\ UNCHANGED <<req, token, rows, wrote, inserts, faults>>
           /\ call[c].pc \in {"idle", "claim"}
           /\ call' \in [Call -> CallState]
           /\ \A d \in Call : d # c => call'[d] = call[d]
           /\ call'[c].spent = call[c].spent
           /\ call'[c].answer = call[c].answer /\ call'[c].from = call[c].from
           /\ \/ /\ call'[c].pc = "measure" /\ call'[c].clock = 0
                 /\ IF call'[c].guard THEN ClaimRun(c) ELSE ~req[c].keyed \/ WaitOver(c)
              \/ /\ call[c].pc = "idle" /\ call'[c].pc = "claim"
                 /\ call'[c].guard = call[c].guard /\ call'[c].clock = call[c].clock
           /\ ClaimRun(c) \/ UNCHANGED <<slot, lapsed>>
           /\ ClaimRun(c) => call'[c].guard /\ call'[c].pc = "measure"
<1>1. ASSUME NEW g \in BOOLEAN, Enter(c, g)
      PROVE  /\ call' \in [Call -> CallState]
             /\ \A d \in Call : d # c => call'[d] = call[d]
             /\ call'[c].spent = call[c].spent /\ call'[c].pc = "measure" /\ call'[c].clock = 0
             /\ call'[c].answer = call[c].answer /\ call'[c].from = call[c].from
             /\ call'[c].guard = g
  <2> DEFINE q == [call[c] EXCEPT !.pc = "measure", !.guard = g, !.clock = 0]
  <2>1. /\ q \in CallState /\ q.spent = call[c].spent /\ q.pc = "measure" /\ q.clock = 0
        /\ q.answer = call[c].answer /\ q.from = call[c].from /\ q.guard = g
    BY DEF TypeOK, CallState, InFlight, Dispatch
  <2>2. call' = [call EXCEPT ![c] = q]
    BY <1>1 DEF TypeOK, Enter
  <2> HIDE DEF q
  <2> QED BY <2>1, <2>2 DEF TypeOK
<1>2. ASSUME Goto(c, "claim")
      PROVE  /\ call' \in [Call -> CallState]
             /\ \A d \in Call : d # c => call'[d] = call[d]
             /\ call'[c].spent = call[c].spent /\ call'[c].pc = "claim"
             /\ call'[c].answer = call[c].answer /\ call'[c].from = call[c].from
             /\ call'[c].guard = call[c].guard /\ call'[c].clock = call[c].clock
  BY <1>2 DEF TypeOK, Goto, CallState
<1>3. CASE Submit(c) /\ req[c].keyed
  BY <1>2, <1>3 DEF Submit, ClaimRun
<1>4. CASE Submit(c) /\ ~req[c].keyed
  BY <1>1, <1>4 DEF Submit, ClaimRun
<1>5. CASE ClaimRun(c)
  BY <1>1, <1>5 DEF ClaimRun
<1>6. CASE WaitOver(c)
  BY <1>1, <1>6 DEF WaitOver, ClaimRun
<1> QED BY <1>3, <1>4, <1>5, <1>6

\* Entering keeps the invariant: the request has spent and written nothing.
LEMMA EnterKeepsCalls ==
    ASSUME CallInv, NEW c \in Call, Submit(c) \/ ClaimRun(c) \/ WaitOver(c)
    PROVE  CallInv'
<1> USE DEF CallInv
<1>0. /\ UNCHANGED <<req, token, rows, wrote, inserts, faults>>
      /\ call[c].pc \in {"idle", "claim"}
      /\ call' \in [Call -> CallState]
      /\ \A d \in Call : d # c => call'[d] = call[d]
      /\ call'[c].spent = call[c].spent
      /\ \/ call'[c].pc = "measure" /\ call'[c].clock = 0
         \/ call[c].pc = "idle" /\ call'[c].pc = "claim" /\ call'[c].guard = call[c].guard
            /\ call'[c].clock = call[c].clock
  BY EnterFrame
<1>1. slot' \in Slot
  <2>1. Sha(c) \in Args \X (Token \cup {NoToken})
    BY RequestAssumption DEF TypeOK, Sha
  <2>2. [st |-> "pending", sha |-> Sha(c), by |-> NoCall, age |-> 0] \in Slot
    BY <2>1, ClockAssumption DEF Slot
  <2> QED BY <2>2 DEF TypeOK, Submit, ClaimRun, WaitOver
<1>2. lapsed' \in BOOLEAN
  BY DEF TypeOK, Submit, ClaimRun, WaitOver
<1>3. ASSUME NEW d \in Call
      PROVE  call'[d].clock <= IF call'[d].pc = "claim" THEN WaitMax + 1 ELSE CallMax
  BY <1>0, ClockAssumption DEF TypeOK, StateOK
<1>4. TypeOK'
  BY <1>0, <1>1, <1>2, <1>3 DEF TypeOK
<1>5. ASSUME NEW d \in Call PROVE StateOK(d)'
  BY <1>0 DEF StateOK
<1>6. ASSUME NEW t \in Token PROVE TokenOK(t)'
  <2>1. \A d \in Call : Holds(d, t)' <=> Holds(d, t)
    BY <1>0 DEF Holds, StateOK
  <2> QED BY <1>0, <2>1, TokenFrame
<1> QED BY <1>0, <1>4, <1>5, <1>6

\* The steps between the claim and the finish of a request.
DispatchStep(c) ==
    \/ Measure(c) \/ MeasureFails(c) \/ Check(c) \/ Consume(c)
    \/ Write(c) \/ WriteFails(c) \/ GiveBack(c) \/ GiveBackFails(c)

\* They leave the row of the key, the guard and the clock alone, and so every other request.
LEMMA DispatchFrame ==
    ASSUME TypeOK, NEW c \in Call, DispatchStep(c)
    PROVE  /\ UNCHANGED <<req, slot, lapsed, inserts>>
           /\ call' \in [Call -> CallState]
           /\ \A d \in Call : d # c => call'[d] = call[d]
           /\ call[c].pc \in Dispatch /\ call'[c].pc \in Dispatch \cup {"finish"}
           /\ call'[c].guard = call[c].guard /\ call'[c].clock = call[c].clock
           /\ call'[c].answer = call[c].answer /\ call'[c].from = call[c].from
<1> DEFINE Frame ==
             /\ call' \in [Call -> CallState]
             /\ \A d \in Call : d # c => call'[d] = call[d]
             /\ call'[c].pc \in Dispatch \cup {"finish"}
             /\ call'[c].guard = call[c].guard /\ call'[c].clock = call[c].clock
             /\ call'[c].answer = call[c].answer /\ call'[c].from = call[c].from
<1> USE DEF TypeOK, CallState, InFlight, Dispatch
<1>0. ASSUME NEW q \in CallState, call' = [call EXCEPT ![c] = q], q.pc \in Dispatch \cup {"finish"},
             q.guard = call[c].guard, q.clock = call[c].clock, q.answer = call[c].answer, q.from = call[c].from
      PROVE  Frame
  BY <1>0
<1> HIDE DEF Frame
<1>1. ASSUME NEW p \in Dispatch \cup {"finish"}, Goto(c, p) PROVE Frame
  <2> DEFINE q == [call[c] EXCEPT !.pc = p]
  <2>1. q \in CallState /\ q.pc = p /\ q.guard = call[c].guard /\ q.clock = call[c].clock
        /\ q.answer = call[c].answer /\ q.from = call[c].from
    OBVIOUS
  <2>2. call' = [call EXCEPT ![c] = q]
    BY <1>1 DEF Goto
  <2> HIDE DEF q
  <2> QED BY <1>0, <2>1, <2>2
<1>2. ASSUME NEW p \in Dispatch \cup {"finish"}, NEW o \in Outcome,
             call' = [call EXCEPT ![c].pc = p, ![c].out = o]
      PROVE Frame
  <2> DEFINE q == [call[c] EXCEPT !.pc = p, !.out = o]
  <2>1. q \in CallState /\ q.pc = p /\ q.guard = call[c].guard /\ q.clock = call[c].clock
        /\ q.answer = call[c].answer /\ q.from = call[c].from
    OBVIOUS
  <2>2. call' = [call EXCEPT ![c] = q]
    BY <1>2
  <2> HIDE DEF q
  <2> QED BY <1>0, <2>1, <2>2
<1>3. CASE Measure(c)
  <2>1. rows[req[c].args] \in 0..MaxInserts
    BY RequestAssumption
  <2> DEFINE p == IF rows[req[c].args] >= RowsMin THEN "check" ELSE "write"
             q == [call[c] EXCEPT !.pc = p, !.diff = rows[req[c].args]]
  <2>2. p \in Dispatch
    OBVIOUS
  <2> HIDE DEF p
  <2>3. q \in CallState /\ q.pc = p /\ q.guard = call[c].guard /\ q.clock = call[c].clock
        /\ q.answer = call[c].answer /\ q.from = call[c].from
    BY <2>1, <2>2
  <2>4. call' = [call EXCEPT ![c] = q]
    BY <1>3 DEF Measure, p
  <2> HIDE DEF q
  <2>5. Frame
    BY <1>0, <2>2, <2>3, <2>4
  <2> QED BY <1>3, <2>5 DEF Measure, Frame
<1>4. CASE MeasureFails(c) \/ GiveBack(c) \/ GiveBackFails(c)
  BY <1>1, <1>4 DEF MeasureFails, GiveBack, GiveBackFails, Frame
<1>5. CASE Check(c)
  <2>1. CASE Goto(c, "consume")
    BY <1>1, <1>5, <2>1 DEF Check, Frame
  <2>2. CASE EndsWith(c, "refused")
    BY <1>2, <1>5, <2>2 DEF Check, EndsWith, Outcome, Frame
  <2> QED BY <1>5, <2>1, <2>2 DEF Check
<1>6. CASE Consume(c)
  <2>1. CASE call' = [call EXCEPT ![c].pc = "write", ![c].spent = TRUE]
    <3> DEFINE q == [call[c] EXCEPT !.pc = "write", !.spent = TRUE]
    <3>1. q \in CallState /\ q.pc = "write" /\ q.guard = call[c].guard /\ q.clock = call[c].clock
          /\ q.answer = call[c].answer /\ q.from = call[c].from
      OBVIOUS
    <3>2. call' = [call EXCEPT ![c] = q]
      BY <2>1
    <3> HIDE DEF q
    <3>3. Frame
      BY <1>0, <3>1, <3>2
    <3> QED BY <1>6, <3>3 DEF Consume, Frame
  <2>2. CASE EndsWith(c, "refused")
    BY <1>2, <1>6, <2>2 DEF Consume, EndsWith, Outcome, Frame
  <2> QED BY <1>6, <2>1, <2>2 DEF Consume
<1>7. CASE Write(c)
  BY <1>2, <1>7 DEF Write, EndsWith, Outcome, Frame
<1>8. CASE WriteFails(c)
  BY <1>2, <1>8 DEF WriteFails, Outcome, Frame
<1> QED BY <1>3, <1>4, <1>5, <1>6, <1>7, <1>8 DEF DispatchStep

\* The type of the token rows survives the consuming and the giving back.
LEMMA UsedChanges ==
    ASSUME TypeOK, NEW c \in Call, NEW b \in BOOLEAN, req[c].token # NoToken,
           token' = [token EXCEPT ![req[c].token].used = b]
    PROVE  /\ req[c].token \in Token /\ token' \in [Token -> TokenRow]
           /\ token'[req[c].token].used = b
           /\ \A t \in Token : t # req[c].token => token'[t] = token[t]
<1>1. req[c].token \in Token
  BY RequestAssumption DEF TypeOK
<1> QED BY <1>1 DEF TypeOK, TokenRow

\* Types and clocks of a dispatch step.
LEMMA DispatchTypes ==
    ASSUME CallInv, NEW c \in Call, DispatchStep(c)
    PROVE  TypeOK'
<1> USE DEF CallInv
<1>1. /\ UNCHANGED <<req, slot, lapsed, inserts>> /\ call' \in [Call -> CallState]
      /\ \A d \in Call : call'[d].clock <= IF call'[d].pc = "claim" THEN WaitMax + 1 ELSE CallMax
  <2>1. call'[c].pc # "claim" /\ call[c].pc # "claim"
    BY DispatchFrame DEF Dispatch
  <2> QED BY <2>1, DispatchFrame DEF TypeOK
<1>2. token' \in [Token -> TokenRow]
  <2>1. CASE token' = token
    BY <2>1 DEF TypeOK
  <2>2. CASE Consume(c) \/ GiveBack(c)
    <3>1. req[c].token # NoToken
      BY <2>2 DEF Consume, GiveBack, StateOK
    <3> QED BY <2>1, <2>2, <3>1, UsedChanges DEF Consume, GiveBack
  <2> QED BY <2>1, <2>2 DEF DispatchStep, Measure, MeasureFails, Check, Write, WriteFails, GiveBackFails
<1>3. rows' \in [Args -> 0..MaxInserts] /\ wrote' \subseteq Call
  BY ClockAssumption DEF TypeOK, DispatchStep, Measure, MeasureFails, Check, Consume, Write,
     WriteFails, GiveBack, GiveBackFails
<1>4. faults' \in 0..MaxFaults
  BY ClockAssumption DEF TypeOK, DispatchStep, Measure, MeasureFails, Check, Consume, Write,
     WriteFails, GiveBack, GiveBackFails
<1> QED BY <1>1, <1>2, <1>3, <1>4 DEF TypeOK

\* The gate: measuring, and checking the token.
LEMMA GateKeepsCalls ==
    ASSUME CallInv, NEW c \in Call, Measure(c) \/ MeasureFails(c) \/ Check(c)
    PROVE  CallInv'
<1> USE DEF CallInv
<1>0. /\ UNCHANGED <<req, token, rows, wrote, inserts>> /\ faults' \in {faults, faults + 1}
      /\ call[c].pc \in {"measure", "check"} /\ call'[c].spent = call[c].spent
      /\ call'[c].pc \in {"check", "consume", "write", "finish"}
      /\ call'[c].pc = "consume" => req[c].token # NoToken
      /\ \A d \in Call : d # c => call'[d] = call[d]
  <2>1. CASE Measure(c)
    BY <2>1 DEF Measure, TypeOK, CallState
  <2>2. CASE MeasureFails(c)
    BY <2>2 DEF MeasureFails, Goto, TypeOK, CallState
  <2>3. CASE Check(c)
    <3>1. CASE Accepted(c)
      BY <2>3, <3>1 DEF Check, Accepted, Goto, TypeOK, CallState
    <3>2. CASE ~Accepted(c)
      BY <2>3, <3>2 DEF Check, EndsWith, TypeOK, CallState
    <3> QED BY <3>1, <3>2
  <2> QED BY <2>1, <2>2, <2>3
<1>1. TypeOK'
  BY DispatchTypes DEF DispatchStep
<1>2. ASSUME NEW d \in Call PROVE StateOK(d)'
  BY <1>0 DEF StateOK
<1>3. ASSUME NEW t \in Token PROVE TokenOK(t)'
  <2>1. \A d \in Call : Holds(d, t)' <=> Holds(d, t)
    BY <1>0 DEF Holds, StateOK
  <2>2. faults' = 0 => faults = 0
    BY <1>0, ClockAssumption DEF TypeOK
  <2> QED BY <1>0, <2>1, <2>2, TokenFrame
<1> QED BY <1>0, <1>1, <1>2, <1>3

\* The conditional UPDATE of confirm_token_consume makes this request the one holder.
LEMMA ConsumeKeepsCalls ==
    ASSUME CallInv, NEW c \in Call, Consume(c)
    PROVE  CallInv'
<1> USE DEF CallInv
<1>0. /\ UNCHANGED <<req, rows, wrote, inserts, faults>> /\ call[c].pc = "consume"
      /\ \A d \in Call : d # c => call'[d] = call[d]
  BY DEF Consume, EndsWith, TypeOK
<1>1. TypeOK'
  BY DispatchTypes DEF DispatchStep
<1>2. req[c].token # NoToken /\ ~call[c].spent /\ c \notin wrote
  BY <1>0 DEF StateOK
<1>3. CASE ~token[req[c].token].used
  <2> DEFINE u == req[c].token
  <2>1. /\ token' = [token EXCEPT ![u].used = TRUE]
        /\ call' = [call EXCEPT ![c].pc = "write", ![c].spent = TRUE]
    BY <1>3 DEF Consume
  <2>2. call'[c].pc = "write" /\ call'[c].spent /\ call'[c].guard = call[c].guard
    BY <2>1 DEF TypeOK, CallState
  <2>3. /\ u \in Token /\ token'[u].used
        /\ \A t \in Token : t # u => token'[t] = token[t]
    BY <2>1, <1>2, UsedChanges
  <2>4. ASSUME NEW d \in Call PROVE StateOK(d)'
    BY <1>0, <1>2, <2>2 DEF StateOK
  <2>5. ASSUME NEW t \in Token PROVE TokenOK(t)'
    <3>1. CASE t # u
      <4>1. \A d \in Call : Holds(d, t)' <=> Holds(d, t)
        BY <1>0, <1>2, <2>2, <3>1 DEF Holds
      <4> QED BY <1>0, <2>3, <3>1, <4>1, TokenFrame
    <3>2. CASE t = u
      <4>1. \A d \in Call : ~Holds(d, u)
        BY <1>3, <2>3 DEF TokenOK
      <4>2. \A d \in Call : Holds(d, u)' <=> d = c
        BY <1>0, <2>2, <4>1 DEF Holds
      <4> QED BY <1>0, <2>3, <3>2, <4>2 DEF TokenOK
    <3> QED BY <3>1, <3>2
  <2> QED BY <1>0, <1>1, <2>4, <2>5
<1>4. CASE token[req[c].token].used
  <2>1. EndsWith(c, "refused") /\ token' = token
    BY <1>4 DEF Consume
  <2>2. call'[c].pc = "finish" /\ ~call'[c].spent /\ call'[c].guard = call[c].guard
    BY <1>2, <2>1 DEF EndsWith, TypeOK, CallState
  <2>3. ASSUME NEW d \in Call PROVE StateOK(d)'
    BY <1>0, <1>2, <2>2 DEF StateOK
  <2>4. ASSUME NEW t \in Token PROVE TokenOK(t)'
    <3>1. \A d \in Call : Holds(d, t)' <=> Holds(d, t)
      BY <1>0, <1>2, <2>2 DEF Holds
    <3> QED BY <1>0, <2>1, <3>1, TokenFrame
  <2> QED BY <1>0, <1>1, <2>3, <2>4
<1> QED BY <1>3, <1>4

\* The verb commits, or fails and goes on to give its token back.
LEMMA WriteKeepsCalls ==
    ASSUME CallInv, NEW c \in Call, Write(c) \/ WriteFails(c)
    PROVE  CallInv'
<1> USE DEF CallInv
<1>0. /\ UNCHANGED <<req, token, inserts, faults>> /\ call[c].pc = "write" /\ c \notin wrote
      /\ \A d \in Call : d # c => call'[d] = call[d] /\ (d \in wrote' <=> d \in wrote)
      /\ call'[c].spent = call[c].spent
      /\ \/ call'[c].pc = "finish" /\ call'[c].out = "ok" /\ c \in wrote'
         \/ call'[c].pc = "give_back" /\ call[c].spent /\ c \notin wrote'
         \/ call'[c].pc = "finish" /\ ~call[c].spent /\ c \notin wrote'
  <2>1. call[c].pc = "write" /\ c \notin wrote
    BY DEF Write, WriteFails, StateOK
  <2>2. CASE Write(c)
    BY <2>1, <2>2 DEF Write, EndsWith, TypeOK, CallState
  <2>3. CASE WriteFails(c)
    BY <2>1, <2>3 DEF WriteFails, TypeOK, CallState
  <2> QED BY <2>1, <2>2, <2>3
<1>1. TypeOK'
  BY DispatchTypes DEF DispatchStep
<1>2. ASSUME NEW a \in Args PROVE rows'[a] <= inserts'
  BY <1>0, ClockAssumption DEF Write, WriteFails, TypeOK
<1>3. ASSUME NEW d \in Call PROVE StateOK(d)'
  BY <1>0 DEF StateOK
<1>4. ASSUME NEW t \in Token PROVE TokenOK(t)'
  <2>1. \A d \in Call : Holds(d, t)' <=> Holds(d, t)
    BY <1>0 DEF Holds
  <2> QED BY <1>0, <2>1, TokenFrame
<1> QED BY <1>1, <1>2, <1>3, <1>4

\* confirm_token_release: only the one holder takes its token back.
LEMMA GiveBackKeepsCalls ==
    ASSUME CallInv, NEW c \in Call, GiveBack(c) \/ GiveBackFails(c)
    PROVE  CallInv'
<1> USE DEF CallInv
<1> DEFINE u == req[c].token
<1>0. /\ UNCHANGED <<req, rows, wrote, inserts>> /\ call[c].pc = "give_back"
      /\ \A d \in Call : d # c => call'[d] = call[d]
      /\ call'[c].spent = call[c].spent /\ call'[c].pc = "finish"
      /\ faults' \in {faults, faults + 1}
  BY DEF GiveBack, GiveBackFails, Goto, TypeOK, CallState
<1>1. TypeOK'
  BY DispatchTypes DEF DispatchStep
<1>2. u # NoToken /\ call[c].spent /\ c \notin wrote /\ u \in Token
  BY <1>0, RequestAssumption DEF StateOK, TypeOK
<1>3. ASSUME NEW d \in Call PROVE StateOK(d)'
  BY <1>0, <1>2 DEF StateOK
<1>4. ASSUME NEW t \in Token PROVE TokenOK(t)'
  <2>1. Holds(c, u) /\ \A d \in Call : Holds(d, u) => d = c
    BY <1>0, <1>2 DEF Holds, TokenOK
  <2>2. \A d \in Call : Holds(d, t)' <=> Holds(d, t) /\ d # c
    BY <1>0, <1>2 DEF Holds
  <2>3. CASE GiveBack(c) /\ t = u
    <3>1. ~token'[u].used
      BY <2>3, <1>2, UsedChanges DEF GiveBack
    <3> QED BY <2>1, <2>2, <2>3, <3>1 DEF TokenOK
  <2>4. CASE GiveBack(c) /\ t # u
    <3>1. token'[t] = token[t] /\ faults' = faults
      BY <2>4, <1>2, UsedChanges DEF GiveBack
    <3>2. ~Holds(c, t)
      BY <2>4 DEF Holds
    <3> QED BY <2>2, <3>1, <3>2, TokenFrame
  <2>5. CASE GiveBackFails(c)
    <3>1. token' = token /\ faults' # 0
      BY <2>5, ClockAssumption DEF GiveBackFails, TypeOK
    <3> QED BY <2>2, <3>1, TokenFrame
  <2> QED BY <2>3, <2>4, <2>5
<1> QED BY <1>0, <1>1, <1>3, <1>4

\* idem_finish deletes the row, or stores into the row it finds, which keeps its hash.
LEMMA FinishSlot ==
    ASSUME TypeOK, NEW c \in Call, NEW o \in Outcome, IdemFinish(c, o)
    PROVE  /\ slot' \in Slot
           /\ \/ slot' = NoRow /\ slot'.st = "absent" /\ (o = "transient" \/ slot.st = "absent")
              \/ /\ slot.st # "absent" /\ o # "transient"
                 /\ slot'.st = "stored" /\ slot'.by = c /\ slot'.sha = slot.sha /\ slot'.age = slot.age
<1>1. NoRow \in Slot /\ NoRow.st = "absent"
  BY DEF Slot, NoRow
<1>2. CASE o = "transient" \/ slot.st = "absent"
  <2>1. slot.st = "absent" => slot = NoRow
    BY DEF TypeOK, Slot
  <2> QED BY <1>1, <1>2, <2>1 DEF IdemFinish
<1>3. CASE o # "transient" /\ slot.st # "absent"
  <2>1. slot' = [slot EXCEPT !.st = "stored", !.by = c]
    BY <1>3 DEF IdemFinish
  <2>2. slot \in [st : {"pending", "stored"}, sha : Args \X (Token \cup {NoToken}),
                  by : Call \cup {NoCall}, age : 0..Ttl]
    BY <1>1, <1>3 DEF TypeOK, Slot
  <2> QED BY <1>3, <2>1, <2>2 DEF Slot
<1> QED BY <1>2, <1>3

\* The answers, and the release a dropped guard spawned.
LEMMA LeaveFrame ==
    ASSUME TypeOK, NEW c \in Call, ClaimReplay(c) \/ Finish(c) \/ FinishFails(c) \/ Release(c)
    PROVE  /\ UNCHANGED <<req, token, rows, wrote, lapsed, inserts>>
           /\ faults' \in {faults, faults + 1} /\ faults' \in 0..MaxFaults
           /\ call[c].pc \in {"claim", "finish", "release"}
           /\ call' \in [Call -> CallState] /\ \A d \in Call : d # c => call'[d] = call[d]
           /\ call'[c].pc \in {"answered", "gone"} /\ call'[c].clock = 0
           /\ call'[c].guard = call[c].guard /\ call'[c].spent = call[c].spent
           /\ call'[c].answer = "replay" =>
                ClaimReplay(c) /\ slot.st = "stored" /\ slot.sha = Sha(c) /\ call'[c].from = slot.by
<1>1. /\ UNCHANGED <<req, token, rows, wrote, lapsed, inserts>>
      /\ faults' \in {faults, faults + 1} /\ faults' \in 0..MaxFaults
  BY ClockAssumption DEF ClaimReplay, Finish, FinishFails, Release, TypeOK
<1>2. call[c].pc \in {"claim", "finish", "release"}
  BY DEF ClaimReplay, Finish, FinishFails, Release
<1>3. CASE ClaimReplay(c)
  <2>1. slot.by \in Call \cup {NoCall}
    <3>1. slot = NoRow \/ slot.by \in Call \cup {NoCall}
      BY DEF TypeOK, Slot
    <3> QED BY <3>1 DEF NoRow
  <2>2. CASE Answer(c, "conflict", NoCall)
    BY <1>1, <1>2, <2>2, Answered
  <2>3. CASE slot.sha = Sha(c) /\ slot.st = "stored" /\ Answer(c, "replay", slot.by)
    BY <1>1, <1>2, <1>3, <2>1, <2>3, Answered
  <2> QED BY <1>3, <2>2, <2>3 DEF ClaimReplay
<1>4. CASE Finish(c) \/ FinishFails(c)
  <2>1. Answer(c, "fresh", c)
    BY <1>4 DEF Finish, FinishFails
  <2> QED BY <1>1, <1>2, <2>1, Answered
<1>5. CASE Release(c)
  <2>1. call' = [call EXCEPT ![c] = Leave(c, "gone")]
    BY <1>5 DEF Release
  <2> QED BY <1>1, <1>2, <2>1, Left DEF TypeOK
<1> QED BY <1>3, <1>4, <1>5

\* Leaving keeps the invariant: a holder that is over has written.
LEMMA LeaveKeepsCalls ==
    ASSUME CallInv, NEW c \in Call, ClaimReplay(c) \/ Finish(c) \/ FinishFails(c) \/ Release(c)
    PROVE  CallInv'
<1> USE DEF CallInv
<1>0. /\ UNCHANGED <<req, token, rows, wrote, lapsed, inserts>>
      /\ faults' \in {faults, faults + 1} /\ faults' \in 0..MaxFaults
  BY LeaveFrame
<1>1. call[c].pc \in {"claim", "finish", "release"}
  BY LeaveFrame
<1>2. /\ call' \in [Call -> CallState] /\ \A d \in Call : d # c => call'[d] = call[d]
      /\ call'[c].pc \in {"answered", "gone"} /\ call'[c].clock = 0
      /\ call'[c].guard = call[c].guard /\ call'[c].spent = call[c].spent
  BY LeaveFrame
<1>3. slot' \in Slot
  <2>1. call[c].out \in Outcome /\ "transient" \in Outcome
    BY DEF TypeOK, CallState, Outcome
  <2> QED BY <2>1, FinishSlot DEF ClaimReplay, Finish, FinishFails, Release, TypeOK
<1>4. ASSUME NEW d \in Call
      PROVE  call'[d].clock <= IF call'[d].pc = "claim" THEN WaitMax + 1 ELSE CallMax
  BY <1>2, ClockAssumption DEF TypeOK
<1>5. TypeOK'
  BY <1>0, <1>2, <1>3, <1>4 DEF TypeOK
<1>6. ASSUME NEW d \in Call PROVE StateOK(d)'
  BY <1>0, <1>1, <1>2 DEF StateOK
<1>7. ASSUME NEW t \in Token PROVE TokenOK(t)'
  <2>1. \A d \in Call : Holds(d, t)' <=> Holds(d, t)
    BY <1>0, <1>1, <1>2 DEF Holds
  <2>2. faults' = 0 => faults = 0
    BY <1>0, ClockAssumption DEF TypeOK
  <2> QED BY <1>0, <2>1, <2>2, TokenFrame
<1> QED BY <1>0, <1>5, <1>6, <1>7

\* A dropped request, and the death of the process: nothing gives a token back.
LEMMA LossFrame ==
    ASSUME TypeOK, Crash \/ \E c \in Call : Drop(c)
    PROVE  /\ UNCHANGED <<req, slot, token, rows, wrote, lapsed, inserts>>
           /\ faults' = faults + 1 /\ faults' \in 0..MaxFaults /\ faults' # 0
           /\ call' \in [Call -> CallState]
           /\ \A d \in Call :
                \/ call'[d] = call[d]
                \/ /\ call[d].pc \in InFlight \cup {"claim"}
                   /\ call'[d].guard = call[d].guard /\ call'[d].spent = call[d].spent
                   /\ call'[d].pc = "gone" /\ call'[d].clock = 0 /\ call'[d].answer = "none"
                \/ /\ call[d].pc \in InFlight /\ call[d].guard
                   /\ call'[d].guard = call[d].guard /\ call'[d].spent = call[d].spent
                   /\ call'[d].pc = "release" /\ call'[d].clock = call[d].clock
                   /\ call'[d].answer = call[d].answer /\ call'[d].from = call[d].from
<1>1. /\ UNCHANGED <<req, slot, token, rows, wrote, lapsed, inserts>>
      /\ faults' = faults + 1 /\ faults' \in 0..MaxFaults /\ faults' # 0
  BY ClockAssumption DEF Drop, Crash, TypeOK
<1>2. call' \in [Call -> CallState]
  <2>1. CASE Crash
    BY <2>1, Left DEF Crash, TypeOK
  <2>2. ASSUME NEW c \in Call, Drop(c) PROVE call' \in [Call -> CallState]
    BY <2>2, Left DEF Drop, Goto, TypeOK, CallState, InFlight
  <2> QED BY <2>1, <2>2
<1>3. ASSUME NEW d \in Call
      PROVE  \/ call'[d] = call[d]
             \/ /\ call[d].pc \in InFlight \cup {"claim"}
                /\ call'[d].guard = call[d].guard /\ call'[d].spent = call[d].spent
                /\ call'[d].pc = "gone" /\ call'[d].clock = 0 /\ call'[d].answer = "none"
             \/ /\ call[d].pc \in InFlight /\ call[d].guard
                /\ call'[d].guard = call[d].guard /\ call'[d].spent = call[d].spent
                /\ call'[d].pc = "release" /\ call'[d].clock = call[d].clock
                /\ call'[d].answer = call[d].answer /\ call'[d].from = call[d].from
  <2>1. CASE Crash
    BY <2>1, Left DEF Crash, TypeOK
  <2>2. ASSUME NEW c \in Call, Drop(c), d = c, call[c].guard
        PROVE  /\ call[c].pc \in InFlight
               /\ call'[c].guard = call[c].guard /\ call'[c].spent = call[c].spent
               /\ call'[c].pc = "release" /\ call'[c].clock = call[c].clock
               /\ call'[c].answer = call[c].answer /\ call'[c].from = call[c].from
    <3>1. call' = [call EXCEPT ![c].pc = "release"] /\ call[c].pc \in InFlight
      BY <2>2 DEF Drop, Goto, InFlight
    <3> QED BY <3>1 DEF TypeOK, CallState
  <2>3. ASSUME NEW c \in Call, Drop(c), d = c, ~call[c].guard
        PROVE  /\ call[c].pc \in InFlight
               /\ call'[c].guard = call[c].guard /\ call'[c].spent = call[c].spent
               /\ call'[c].pc = "gone" /\ call'[c].clock = 0 /\ call'[c].answer = "none"
    BY <2>3, Left DEF Drop, TypeOK, InFlight
  <2>4. ASSUME NEW c \in Call, Drop(c), d # c PROVE call'[d] = call[d]
    BY <2>4 DEF Drop, Goto, TypeOK
  <2> QED BY <2>1, <2>2, <2>3, <2>4
<1> QED BY <1>1, <1>2, <1>3

\* A loss keeps the invariant: it is a fault, and can only take holders away.
LEMMA LossKeepsCalls ==
    ASSUME CallInv, Crash \/ \E c \in Call : Drop(c)
    PROVE  CallInv'
<1> USE DEF CallInv
<1>0. /\ UNCHANGED <<req, slot, token, rows, wrote, lapsed, inserts>>
      /\ faults' = faults + 1 /\ faults' \in 0..MaxFaults /\ faults' # 0
  BY LossFrame
<1>1. call' \in [Call -> CallState]
  BY LossFrame
<1>2. ASSUME NEW d \in Call
      PROVE  \/ call'[d] = call[d]
             \/ /\ call'[d].pc \in {"gone", "release"}
                /\ call'[d].clock = 0 \/ (call[d].pc # "claim" /\ call'[d].clock = call[d].clock)
                /\ call[d].pc \in InFlight \cup {"claim"}
                /\ call'[d].pc = "release" => call[d].guard /\ call[d].pc # "claim"
                /\ call'[d].guard = call[d].guard /\ call'[d].spent = call[d].spent
  BY LossFrame DEF InFlight, Dispatch
<1>3. ASSUME NEW d \in Call
      PROVE  call'[d].clock <= IF call'[d].pc = "claim" THEN WaitMax + 1 ELSE CallMax
  BY <1>2, ClockAssumption DEF TypeOK
<1>4. TypeOK'
  BY <1>0, <1>1, <1>3 DEF TypeOK
<1>5. ASSUME NEW d \in Call PROVE StateOK(d)'
  <2>1. CASE call'[d] = call[d]
    BY <1>0, <2>1 DEF StateOK
  <2>2. CASE call'[d] # call[d]
    BY <1>0, <1>2, <2>2 DEF StateOK
  <2> QED BY <2>1, <2>2
<1>6. ASSUME NEW t \in Token PROVE TokenOK(t)'
  <2>1. \A d \in Call : Holds(d, t)' => Holds(d, t)
    BY <1>0, <1>2 DEF Holds
  <2> QED BY <1>0, <2>1, TokenFrame
<1> QED BY <1>0, <1>4, <1>5, <1>6

\* A second for the requests: those that wait or are dispatched grow older.
LEMMA TickFrame ==
    ASSUME TypeOK, Tick
    PROVE  /\ call' \in [Call -> CallState]
           /\ \A d \in Call :
                /\ call'[d].pc = call[d].pc /\ call'[d].guard = call[d].guard
                /\ call'[d].spent = call[d].spent /\ call'[d].out = call[d].out
                /\ call'[d].answer = call[d].answer /\ call'[d].from = call[d].from
                /\ call[d].pc \in InFlight \cup {"claim"} =>
                     /\ call'[d].clock = call[d].clock + 1 /\ call[d].clock \in Nat
                     /\ call[d].clock < IF call[d].pc = "claim" THEN WaitMax + 1 ELSE CallMax
                /\ call[d].pc \notin InFlight \cup {"claim"} => call'[d].clock = call[d].clock
<1>1. ASSUME NEW d \in Call, call[d].pc \in InFlight \cup {"claim"}
      PROVE  /\ call'[d].pc = call[d].pc /\ call'[d].guard = call[d].guard
             /\ call'[d].spent = call[d].spent /\ call'[d].out = call[d].out
             /\ call'[d].answer = call[d].answer /\ call'[d].from = call[d].from
             /\ call'[d].clock = call[d].clock + 1 /\ call[d].clock \in Nat
             /\ call'[d] \in CallState
             /\ call[d].clock < IF call[d].pc = "claim" THEN WaitMax + 1 ELSE CallMax
  <2>1. call'[d] = [call[d] EXCEPT !.clock = @ + 1] /\ call[d] \in CallState
    BY <1>1 DEF Tick, TypeOK
  <2>2. call[d].clock < IF call[d].pc = "claim" THEN WaitMax + 1 ELSE CallMax
    BY <1>1 DEF Tick
  <2> QED BY <2>1, <2>2 DEF CallState
<1>2. ASSUME NEW d \in Call, call[d].pc \notin InFlight \cup {"claim"}
      PROVE  call'[d] = call[d]
  BY <1>2 DEF Tick
<1>3. call' = [d \in Call |-> call'[d]]
  BY DEF Tick
<1>4. call' \in [Call -> CallState]
  BY <1>1, <1>2, <1>3 DEF TypeOK
<1> QED BY <1>1, <1>2, <1>4

\* Dry runs that mint tokens, rows other calls add, the nightly purge and time.
LEMMA HostKeepsCalls ==
    ASSUME CallInv,
           \/ \E t \in Token, a \in Args : DryRun(t, a)
           \/ \E a \in Args : Insert(a)
           \/ PurgeExpired
           \/ Tick
    PROVE  CallInv'
<1> USE DEF CallInv
<1>0. UNCHANGED <<req, wrote, faults>>
  BY DEF DryRun, Insert, PurgeExpired, Tick
<1>1. /\ call' \in [Call -> CallState]
      /\ \A d \in Call :
           /\ call'[d].pc = call[d].pc /\ call'[d].guard = call[d].guard
           /\ call'[d].spent = call[d].spent /\ call'[d].out = call[d].out
           /\ call[d].pc = "idle" => call'[d].clock = call[d].clock
           /\ call'[d].clock <= IF call'[d].pc = "claim" THEN WaitMax + 1 ELSE CallMax
  <2>1. CASE Tick
    <3>1. "idle" \notin InFlight \cup {"claim"} /\ WaitMax \in Nat /\ CallMax \in Nat
      BY ClockAssumption DEF InFlight, Dispatch
    <3>2. ASSUME NEW d \in Call
          PROVE  call'[d].clock <= IF call'[d].pc = "claim" THEN WaitMax + 1 ELSE CallMax
      BY <2>1, <3>1, TickFrame DEF TypeOK
    <3> QED BY <2>1, <3>1, <3>2, TickFrame
  <2>2. CASE call' = call
    <3>1. \A d \in Call : call'[d] = call[d]
      BY <2>2
    <3> QED BY <2>2, <3>1 DEF TypeOK
  <2> QED BY <2>1, <2>2 DEF DryRun, Insert, PurgeExpired
<1>2. slot' \in Slot
  <2>1. NoRow \in Slot
    BY DEF Slot
  <2>2. slot # NoRow => [slot EXCEPT !.age = Older(@, Ttl)] \in Slot
    BY ClockAssumption DEF TypeOK, Slot, Older
  <2> QED BY <2>1, <2>2 DEF DryRun, Insert, PurgeExpired, Tick, TypeOK
<1>3. token' \in [Token -> TokenRow] /\ \A t \in Token : token'[t].used = token[t].used
  <2>1. CASE token' = token
    BY <2>1 DEF TypeOK
  <2>2. ASSUME NEW t \in Token, NEW a \in Args, DryRun(t, a)
        PROVE  token' \in [Token -> TokenRow] /\ \A u \in Token : token'[u].used = token[u].used
    <3> DEFINE q == [token[t] EXCEPT !.st = "minted", !.args = a, !.diff = rows[a], !.life = TokenTtl]
    <3>0. rows[a] \in 0..MaxInserts /\ TokenTtl \in 0..TokenTtl /\ token[t] \in TokenRow
      BY ClockAssumption DEF TypeOK
    <3>1. q \in TokenRow /\ q.used = token[t].used
      BY <3>0 DEF TokenRow
    <3>2. token' = [token EXCEPT ![t] = q]
      BY <2>2 DEF DryRun
    <3> HIDE DEF q
    <3> QED BY <3>1, <3>2 DEF TypeOK
  <2>3. CASE Tick
    <3>1. ASSUME NEW t \in Token
          PROVE  token'[t] \in TokenRow /\ token'[t].used = token[t].used
      <4>1. token'[t] = [token[t] EXCEPT !.life = IF @ > 0 THEN @ - 1 ELSE 0]
        BY <2>3 DEF Tick
      <4>2. token[t] \in TokenRow
        BY DEF TypeOK
      <4> QED BY <4>1, <4>2, ClockAssumption DEF TokenRow
    <3>2. token' = [t \in Token |-> token'[t]]
      BY <2>3 DEF Tick
    <3> QED BY <3>1, <3>2
  <2> QED BY <2>1, <2>2, <2>3 DEF Insert, PurgeExpired
<1>4. /\ rows' \in [Args -> 0..MaxInserts] /\ inserts' \in 0..MaxInserts
      /\ \A a \in Args : rows'[a] <= inserts'
  <2>1. ASSUME NEW a \in Args, Insert(a)
        PROVE  /\ rows' \in [Args -> 0..MaxInserts] /\ inserts' \in 0..MaxInserts
               /\ \A b \in Args : rows'[b] <= inserts'
    <3>1. ASSUME NEW b \in Args
          PROVE  rows'[b] \in 0..MaxInserts /\ rows'[b] <= inserts'
      <4>1. rows'[b] = IF b = a THEN rows[b] + 1 ELSE rows[b]
        BY <2>1 DEF Insert, TypeOK
      <4>2. rows[b] \in 0..MaxInserts /\ rows[b] <= inserts /\ inserts' = inserts + 1
            /\ inserts \in 0..MaxInserts /\ inserts < MaxInserts
        BY <2>1 DEF Insert, TypeOK
      <4> QED BY <4>1, <4>2, ClockAssumption
    <3>2. rows' = [b \in Args |-> rows'[b]]
      BY <2>1 DEF Insert, TypeOK
    <3>3. inserts' \in 0..MaxInserts
      BY <2>1, ClockAssumption DEF Insert, TypeOK
    <3> QED BY <3>1, <3>2, <3>3
  <2>2. CASE UNCHANGED <<rows, inserts>>
    BY <2>2 DEF TypeOK
  <2> QED BY <2>1, <2>2 DEF DryRun, PurgeExpired, Tick
<1>5. lapsed' \in BOOLEAN
  BY DEF DryRun, Insert, PurgeExpired, Tick, TypeOK
<1>6. TypeOK'
  BY <1>0, <1>1, <1>2, <1>3, <1>4, <1>5 DEF TypeOK
<1>7. ASSUME NEW d \in Call PROVE StateOK(d)'
  BY <1>0, <1>1 DEF StateOK
<1>8. ASSUME NEW t \in Token PROVE TokenOK(t)'
  <2>1. \A d \in Call : Holds(d, t)' <=> Holds(d, t)
    BY <1>0, <1>1 DEF Holds
  <2> QED BY <1>0, <1>3, <2>1, TokenFrame
<1> QED BY <1>4, <1>6, <1>7, <1>8

\* Every step preserves the invariant of the requests and the tokens.
LEMMA CallStep == CallInv /\ [Next]_vars => CallInv'
<1> SUFFICES ASSUME CallInv, [Next]_vars
             PROVE  CallInv'
  OBVIOUS
<1>1. CASE UNCHANGED vars
  BY <1>1 DEF vars, CallInv, TypeOK, StateOK, TokenOK, Holds
<1>2. CASE Next
  BY <1>2, EnterKeepsCalls, GateKeepsCalls, ConsumeKeepsCalls, WriteKeepsCalls, GiveBackKeepsCalls,
     LeaveKeepsCalls, LossKeepsCalls, HostKeepsCalls
     DEF Next, Step, Fault
<1> QED BY <1>1, <1>2

\* call_tool with its guard and its token, at every interleaving of its database calls.
THEOREM CallInvHolds == Spec => []CallInv
<1>1. ASSUME Init PROVE CallInv
  <2>1. /\ Fresh \in CallState /\ Fresh.pc = "idle" /\ Fresh.clock = 0 /\ ~Fresh.guard /\ ~Fresh.spent
    BY ClockAssumption DEF Fresh, CallState, Outcome
  <2>2. call \in [Call -> CallState] /\ \A c \in Call : call[c] = Fresh
    BY <1>1, <2>1 DEF Init
  <2>3. slot \in Slot
    BY <1>1 DEF Init, Slot
  <2>4. token \in [Token -> TokenRow] /\ \A t \in Token : ~token[t].used
    <3>1. (CHOOSE a \in Args : TRUE) \in Args
      BY RequestAssumption
    <3> QED BY <1>1, <3>1, ClockAssumption DEF Init, TokenRow
  <2>5. /\ rows \in [Args -> 0..MaxInserts] /\ inserts \in 0..MaxInserts /\ faults \in 0..MaxFaults
        /\ \A a \in Args : rows[a] <= inserts
    BY <1>1, ClockAssumption DEF Init
  <2>6. \A c \in Call : call[c].clock <= IF call[c].pc = "claim" THEN WaitMax + 1 ELSE CallMax
    BY <2>1, <2>2, ClockAssumption
  <2>7. TypeOK
    BY <1>1, <2>2, <2>3, <2>4, <2>5, <2>6 DEF Init, TypeOK
  <2>8. \A c \in Call : StateOK(c)
    BY <1>1, <2>1, <2>2 DEF Init, StateOK
  <2>9. \A t \in Token : TokenOK(t)
    BY <1>1, <2>1, <2>2, <2>4 DEF Init, TokenOK, Holds
  <2> QED BY <2>5, <2>7, <2>8, <2>9 DEF CallInv
<1> QED BY <1>1, CallStep, PTL DEF Spec

\* Type correctness of the row of the key, the requests, the tokens and their clocks.
THEOREM TypeCorrect == Spec => []TypeOK
<1>1. CallInv => TypeOK
  BY DEF CallInv
<1> QED BY <1>1, CallInvHolds, PTL

\* A set any two members of which are the same has one member at most.
LEMMA AtMostOne ==
    ASSUME NEW S, \A x, y \in S : x = y
    PROVE  Cardinality(S) <= 1
<1>1. CASE S = {}
  BY <1>1, FS_EmptySet
<1>2. ASSUME NEW x \in S PROVE Cardinality(S) <= 1
  <2>1. S = {x}
    OBVIOUS
  <2> QED BY <2>1, FS_Singleton
<1> QED BY <1>1, <1>2

\* A finite set with two different members has two at least.
LEMMA TwoMembers ==
    ASSUME NEW S, IsFiniteSet(S), NEW d \in S, NEW e \in S, d # e
    PROVE  Cardinality(S) >= 2
<1> DEFINE T == {d}
<1>1. IsFiniteSet(T) /\ Cardinality(T) = 1 /\ e \notin T
  BY FS_Singleton
<1>2. T \cup {e} \in SUBSET S
  OBVIOUS
<1> HIDE DEF T
<1>3. Cardinality(T \cup {e}) = 2
  <2>1. Cardinality(T \cup {e}) = IF e \in T THEN Cardinality(T) ELSE Cardinality(T) + 1
    BY <1>1, FS_AddElement
  <2> QED BY <1>1, <2>1
<1>4. Cardinality(T \cup {e}) <= Cardinality(S)
  BY <1>2, FS_Subset
<1>5. Cardinality(S) \in Nat
  BY FS_CardinalityType
<1> QED BY <1>3, <1>4, <1>5

\* confirm_token_consume and confirm_token_release: a token authorises at most one
\* deletion, and only a fault uses one up for nothing.
THEOREM TokensAreSpentOnce == Spec => []TokenSpentOnce
<1>1. ASSUME CallInv, NEW t \in Token
      PROVE  LET holders == {c \in Call : req[c].token = t /\ call[c].spent} IN
             /\ Cardinality(holders \cap wrote) <= 1
             /\ token[t].used /\ faults = 0 =>
                  \E c \in holders : c \in wrote \/ call[c].pc \in InFlight
  <2> DEFINE holders == {c \in Call : req[c].token = t /\ call[c].spent}
  <2>1. \A c, d \in holders \cap wrote : c = d
    BY <1>1 DEF CallInv, TokenOK, Holds
  <2>2. Cardinality(holders \cap wrote) <= 1
    <3> HIDE DEF holders
    <3> QED BY <2>1, AtMostOne
  <2>3. ASSUME token[t].used, faults = 0
        PROVE  \E c \in holders : c \in wrote \/ call[c].pc \in InFlight
    BY <1>1, <2>3 DEF CallInv, TokenOK, Holds, InFlight, Dispatch
  <2> QED BY <2>2, <2>3
<1>2. CallInv => TokenSpentOnce
  BY <1>1 DEF TokenSpentOnce
<1> QED BY <1>2, CallInvHolds, PTL

-----------------------------------------------------------------------------
(* The wait.                                                               *)

\* The age of the row is a number, and a row that is there keeps its type.
LEMMA SlotAge ==
    ASSUME TypeOK
    PROVE  slot.age \in 0..Ttl /\ (slot.st = "absent" <=> slot = NoRow)
<1>1. CASE slot = NoRow
  BY <1>1, ClockAssumption DEF NoRow
<1>2. CASE slot # NoRow
  BY <1>2 DEF TypeOK, Slot
<1> QED BY <1>1, <1>2

\* A step that takes no guard away, starts no wait over and inserts no claim keeps what
\* the waiters have seen.
LEMMA WaitFrame ==
    ASSUME WaitInv, req' = req, NEW c \in Call,
           \A d \in Call : call[d].guard => call'[d].guard,
           \/ call'[c].pc \notin InFlight \cup {"claim"}
           \/ call'[c].pc = "claim" /\ call[c].pc = "claim" /\ call'[c].clock = call[c].clock
              /\ (slot'.st = "pending" => slot.st = "pending" /\ slot'.age = slot.age)
           \/ call'[c].pc \in InFlight /\ call[c].pc \in InFlight /\ call'[c].guard = call[c].guard
    PROVE  WaitOK(c)'
<1>1. (\E d \in Call : call[d].guard) => (\E d \in Call : call'[d].guard)
  OBVIOUS
<1>2. TwoClaims => TwoClaims'
  BY DEF TwoClaims
<1>3. "claim" \notin InFlight
  BY DEF InFlight, Dispatch
<1> QED BY <1>1, <1>2, <1>3 DEF WaitInv, WaitOK

\* Submit, the claim and the end of the wait.
LEMMA EnterKeepsWait ==
    ASSUME CallInv, WaitInv, NEW c \in Call, Submit(c) \/ ClaimRun(c) \/ WaitOver(c)
    PROVE  WaitInv'
<1> USE DEF CallInv
<1>0. slot.age \in Nat /\ ~call[c].guard /\ \A d \in Call : call[d].guard => call'[d].guard
  BY EnterFrame, SlotAge, ClockAssumption DEF StateOK
<1>1. "claim" \notin InFlight /\ "measure" \in InFlight
  BY DEF InFlight, Dispatch
<1>2. CASE ClaimRun(c)
  <2>1. slot'.st = "pending" /\ call'[c].guard /\ call'[c].pc = "measure" /\ req' = req
    BY <1>2, EnterFrame DEF ClaimRun
  <2>2. ASSUME NEW d \in Call, d # c PROVE WaitOK(d)'
    <3>1. call'[d] = call[d] /\ call[d].clock \in Nat
      BY <2>2, EnterFrame DEF TypeOK, CallState
    <3>2. call[d].pc = "claim" /\ call[d].clock > 0 => TwoClaims'
      BY <1>0, <2>1 DEF WaitInv, WaitOK, TwoClaims
    <3>3. slot'.age = 0
      BY <1>2 DEF ClaimRun
    <3>4. TwoClaims => TwoClaims'
      BY <1>0 DEF TwoClaims
    <3> QED BY <2>1, <3>1, <3>2, <3>3, <3>4 DEF WaitInv, WaitOK, TwoClaims
  <2>3. WaitOK(c)'
    BY <1>1, <2>1 DEF WaitOK
  <2> QED BY <2>1, <2>2, <2>3 DEF WaitInv
<1>3. CASE ~ClaimRun(c)
  <2>1. UNCHANGED <<req, slot>>
    BY <1>3, EnterFrame
  <2>2. ASSUME NEW d \in Call, d # c PROVE WaitOK(d)'
    <3>1. call'[d] = call[d]
      BY <2>2, EnterFrame
    <3>2. TwoClaims => TwoClaims'
      BY <1>0 DEF TwoClaims
    <3> QED BY <1>0, <2>1, <3>1, <3>2 DEF WaitInv, WaitOK
  <2>3. CASE call'[c].pc = "claim"
    <3>1. call'[c].clock = 0
      BY <2>3, EnterFrame DEF StateOK
    <3> QED BY <1>0, <1>1, <2>1, <2>2, <2>3, <3>1 DEF WaitInv, WaitOK
  <2>4. CASE call'[c].pc # "claim"
    <3>1. call'[c].pc = "measure" /\ (~req[c].keyed \/ WaitOver(c))
      BY <1>3, <2>4, EnterFrame
    <3>2. ASSUME WaitOver(c) PROVE TwoClaims'
      <4>1. slot.st = "pending" /\ call[c].pc = "claim" /\ call[c].clock > slot.age
        BY <1>0, <3>2, ClockAssumption DEF WaitOver, Claimable
      <4> QED BY <1>0, <4>1 DEF WaitInv, WaitOK, TwoClaims
    <3>3. WaitOK(c)'
      BY <2>1, <2>4, <3>1, <3>2 DEF WaitOK
    <3> QED BY <1>0, <2>1, <2>2, <3>3 DEF WaitInv
  <2> QED BY <2>3, <2>4
<1> QED BY <1>2, <1>3

\* The dispatch, the answers and the losses: no claim is inserted and no guard is lost.
LEMMA MovesKeepWait ==
    ASSUME CallInv, WaitInv,
           \/ \E c \in Call : \/ DispatchStep(c)
                             \/ ClaimReplay(c) \/ Finish(c) \/ FinishFails(c) \/ Release(c)
           \/ Crash \/ \E c \in Call : Drop(c)
    PROVE  WaitInv'
<1> USE DEF CallInv
<1>1. /\ req' = req
      /\ slot'.st # "absent" => slot.st # "absent"
      /\ slot'.st = "pending" => slot.st = "pending" /\ slot'.age = slot.age
  <2>1. ASSUME NEW c \in Call, ClaimReplay(c) \/ Finish(c) \/ FinishFails(c) \/ Release(c)
        PROVE  /\ req' = req
               /\ slot'.st # "absent" => slot.st # "absent"
               /\ slot'.st = "pending" => slot.st = "pending" /\ slot'.age = slot.age
    <3>1. call[c].out \in Outcome /\ "transient" \in Outcome
      BY DEF TypeOK, CallState, Outcome
    <3>2. req' = req
      BY <2>1, LeaveFrame
    <3>3. slot' = slot \/ \E o \in Outcome : IdemFinish(c, o)
      BY <2>1, <3>1 DEF ClaimReplay, Finish, FinishFails, Release
    <3> QED BY <3>2, <3>3, FinishSlot
  <2>2. ASSUME NEW c \in Call, DispatchStep(c) PROVE UNCHANGED <<req, slot>>
    BY <2>2, DispatchFrame
  <2>3. ASSUME Crash \/ \E c \in Call : Drop(c) PROVE UNCHANGED <<req, slot>>
    BY <2>3, LossFrame
  <2> QED BY <2>1, <2>2, <2>3
<1>2. ASSUME NEW d \in Call
      PROVE  /\ call'[d].guard = call[d].guard
             /\ \/ call'[d] = call[d]
                \/ call'[d].pc \in {"answered", "gone"}
                \/ call'[d].pc \in InFlight /\ call[d].pc \in InFlight
  <2>1. ASSUME NEW c \in Call, ClaimReplay(c) \/ Finish(c) \/ FinishFails(c) \/ Release(c)
        PROVE  call'[d].guard = call[d].guard /\ (call'[d] = call[d] \/ call'[d].pc \in {"answered", "gone"})
    BY <2>1, LeaveFrame
  <2>2. ASSUME NEW c \in Call, DispatchStep(c)
        PROVE  /\ call'[d].guard = call[d].guard
               /\ call'[d] = call[d] \/ (call'[d].pc \in InFlight /\ call[d].pc \in InFlight)
    BY <2>2, DispatchFrame DEF InFlight
  <2>3. ASSUME Crash \/ \E c \in Call : Drop(c)
        PROVE  /\ call'[d].guard = call[d].guard
               /\ \/ call'[d] = call[d] \/ call'[d].pc = "gone"
                  \/ call'[d].pc \in InFlight /\ call[d].pc \in InFlight
    BY <2>3, LossFrame DEF InFlight
  <2> QED BY <2>1, <2>2, <2>3
<1>3. ASSUME NEW d \in Call PROVE WaitOK(d)'
  <2>1. "answered" \notin InFlight \cup {"claim"} /\ "gone" \notin InFlight \cup {"claim"}
    BY DEF InFlight, Dispatch
  <2> QED BY <1>1, <1>2, <2>1, WaitFrame
<1> QED BY <1>1, <1>2, <1>3 DEF WaitInv

\* Time: whoever waits a second has found a claim in the row.
LEMMA HostKeepsWait ==
    ASSUME CallInv, WaitInv,
           \/ \E t \in Token, a \in Args : DryRun(t, a)
           \/ \E a \in Args : Insert(a)
           \/ PurgeExpired
           \/ Tick
    PROVE  WaitInv'
<1> USE DEF CallInv
<1>1. CASE Tick
  <2>1. /\ req' = req /\ slot'.st = slot.st
        /\ ~Claimable /\ slot.st = "pending" => slot'.age = slot.age + 1
        /\ slot.age \in Nat
    <3>1. slot.age \in 0..Ttl /\ (slot.st = "absent" <=> slot = NoRow)
      BY SlotAge
    <3>2. CASE slot = NoRow
      BY <1>1, <3>1, <3>2 DEF Tick
    <3>3. CASE slot # NoRow
      <4>1. slot' = [slot EXCEPT !.age = Older(@, Ttl)] /\ req' = req
        BY <1>1, <3>3 DEF Tick
      <4>2. slot'.st = slot.st /\ slot'.age = Older(slot.age, Ttl)
        BY <3>3, <4>1 DEF TypeOK, Slot
      <4> QED BY <3>1, <4>1, <4>2, ClockAssumption DEF Older, Claimable
    <3> QED BY <3>2, <3>3
  <2>2. \A d \in Call : call'[d].guard = call[d].guard /\ call'[d].pc = call[d].pc
    BY <1>1, TickFrame
  <2>3. TwoClaims => TwoClaims'
    BY <2>2 DEF TwoClaims
  <2>4. ASSUME NEW d \in Call PROVE WaitOK(d)'
    <3>1. CASE call[d].pc = "claim"
      <4>1. slot.st = "pending" /\ ~Claimable /\ call'[d].clock = call[d].clock + 1 /\ call[d].clock \in Nat
        BY <1>1, <3>1, TickFrame DEF Tick
      <4>2. "claim" \notin InFlight
        BY DEF InFlight, Dispatch
      <4> QED BY <2>1, <2>2, <2>3, <3>1, <4>1, <4>2 DEF WaitInv, WaitOK
    <3>2. CASE call[d].pc # "claim"
      BY <2>1, <2>2, <2>3, <3>2 DEF WaitInv, WaitOK
    <3> QED BY <3>1, <3>2
  <2> QED BY <2>1, <2>2, <2>4 DEF WaitInv
<1>2. CASE ~Tick
  <2>1. /\ UNCHANGED <<req, call>>
        /\ slot' = slot \/ slot' = NoRow
    BY <1>2 DEF DryRun, Insert, PurgeExpired
  <2>2. slot'.st = "absent" \/ slot' = slot
    BY <2>1 DEF NoRow
  <2>3. \A d \in Call : WaitOK(d)'
    BY <2>1, <2>2 DEF WaitInv, WaitOK, TwoClaims
  <2> QED BY <2>1, <2>2, <2>3 DEF WaitInv
<1> QED BY <1>1, <1>2

\* Every step keeps what the waiters have seen.
LEMMA WaitStep == CallInv /\ WaitInv /\ [Next]_vars => WaitInv'
<1> SUFFICES ASSUME CallInv, WaitInv, [Next]_vars
             PROVE  WaitInv'
  OBVIOUS
<1>1. CASE UNCHANGED vars
  BY <1>1 DEF vars, WaitInv, WaitOK, TwoClaims
<1>2. CASE Next
  BY <1>2, EnterKeepsWait, MovesKeepWait, HostKeepsWait DEF Next, Step, Fault, DispatchStep
<1> QED BY <1>1, <1>2

\* call_tool's wait: a request with a key goes ahead without a claim only after two
\* others claimed the key, for every WAIT_MAX_SECS and however long a dispatch takes.
THEOREM UnclaimedIsRare == Spec => []UnclaimedNeedsTwo
<1>1. Init => WaitInv
  <2>1. Fresh.pc = "idle" /\ NoRow.st = "absent" /\ "idle" \notin InFlight
    BY DEF Fresh, NoRow, InFlight, Dispatch
  <2> QED BY <2>1 DEF Init, WaitInv, WaitOK
<1>2. ASSUME WaitInv, NEW c \in Call, req[c].keyed, ~call[c].guard, call[c].pc \in InFlight
      PROVE  Cardinality({d \in Call \ {c} : call[d].guard}) >= 2
  <2> DEFINE S == {d \in Call \ {c} : call[d].guard}
  <2>1. PICK d \in Call, e \in Call : d # e /\ call[d].guard /\ call[e].guard
    BY <1>2 DEF WaitInv, WaitOK, TwoClaims
  <2>2. IsFiniteSet(S)
    <3>1. IsFiniteSet(Call) /\ S \in SUBSET Call
      BY RequestAssumption
    <3> HIDE DEF S
    <3> QED BY <3>1, FS_Subset
  <2>3. {d, e} \subseteq S
    BY <1>2, <2>1
  <2> HIDE DEF S
  <2>4. Cardinality(S) >= 2
    BY <2>1, <2>2, <2>3, TwoMembers
  <2> QED BY <2>4 DEF S
<1>3. WaitInv => UnclaimedNeedsTwo
  BY <1>2 DEF UnclaimedNeedsTwo
<1> QED BY <1>1, <1>3, CallInvHolds, WaitStep, PTL DEF Spec

-----------------------------------------------------------------------------
(* The claim, when a dispatch ends before WAIT_MAX_SECS.                   *)

\* Nobody can take over or purge a row while the request that claimed it is in flight.
LEMMA HeldRow ==
    ASSUME CallMax < WaitMax, CallInv, ClaimInv, NEW c \in Call, Claims(c)
    PROVE  slot.st = "pending" /\ slot.age < WaitMax /\ slot.age < Ttl /\ ~Claimable
<1>1. "claim" \notin InFlight
  BY DEF InFlight, Dispatch
<1>2. /\ slot.st = "pending" /\ slot.age = call[c].clock /\ call[c].clock \in Nat
      /\ call[c].clock <= CallMax
  BY <1>1 DEF CallInv, TypeOK, CallState, ClaimInv, HolderOK, Claims
<1> QED BY <1>2, ClockAssumption DEF Claimable

\* Submit, the claim and the end of the wait.
LEMMA EnterKeepsClaim ==
    ASSUME CallMax < WaitMax, CallInv, ClaimInv, NEW c \in Call,
           Submit(c) \/ ClaimRun(c) \/ WaitOver(c)
    PROVE  ClaimInv'
<1> USE DEF CallInv
<1>0. /\ UNCHANGED <<req, wrote, faults>> /\ call[c].pc \in {"idle", "claim"}
      /\ \A d \in Call : d # c => call'[d] = call[d]
      /\ call'[c].answer = call[c].answer /\ call'[c].from = call[c].from
      /\ c \notin wrote
  BY EnterFrame DEF StateOK
<1>1. CASE ClaimRun(c)
  <2>1. \A d \in Call : ~Claims(d)
    BY <1>1, HeldRow DEF ClaimRun
  <2>2. /\ slot'.st = "pending" /\ slot'.sha = Sha(c) /\ slot'.age = 0
        /\ slot.st = "stored" => lapsed'
        /\ lapsed => lapsed'
        /\ call'[c].clock = 0
    BY <1>1, EnterFrame DEF ClaimRun
  <2>3. ASSUME NEW d \in Call PROVE HolderOK(d)'
    <3>1. Claims(d)' => d = c
      BY <1>0, <2>1 DEF Claims
    <3>2. \A e \in Call : Claims(e)' => e = c
      BY <1>0, <2>1 DEF Claims
    <3>3. Sha(c)' = Sha(c)
      BY <1>0 DEF Sha
    <3> QED BY <2>2, <3>1, <3>2, <3>3 DEF HolderOK
  <2>4. ASSUME NEW d \in Call PROVE OutcomeOK(d)'
    <3>1. call[d].answer = "replay" => Sha(call[d].from) = Sha(d)
      BY DEF ClaimInv, OutcomeOK
    <3>2. call'[d].answer = call[d].answer /\ call'[d].from = call[d].from
      BY <1>0
    <3>3. d # c /\ call[d].guard => call[d].pc # "finish"
      BY <2>1 DEF Claims, InFlight
    <3> QED BY <1>0, <2>2, <3>1, <3>2, <3>3 DEF ClaimInv, OutcomeOK, Sha
  <2> QED BY <2>2, <2>3, <2>4 DEF ClaimInv
<1>2. CASE ~ClaimRun(c)
  <2>1. UNCHANGED <<slot, lapsed>> /\ ~call[c].guard /\ ~call'[c].guard
    BY <1>2, EnterFrame DEF StateOK
  <2>2. ASSUME NEW d \in Call PROVE HolderOK(d)'
    BY <1>0, <2>1 DEF ClaimInv, HolderOK, Claims, Sha
  <2>3. ASSUME NEW d \in Call PROVE OutcomeOK(d)'
    <3>1. call'[d].answer = call[d].answer /\ call'[d].from = call[d].from
      BY <1>0
    <3> QED BY <1>0, <2>1, <3>1 DEF ClaimInv, OutcomeOK, Sha
  <2> QED BY <1>0, <2>1, <2>2, <2>3 DEF ClaimInv, Sha
<1> QED BY <1>1, <1>2

\* A dispatch step changes neither the row of the key nor who claims it.
LEMMA DispatchKeepsClaim ==
    ASSUME CallInv, ClaimInv, NEW c \in Call, DispatchStep(c)
    PROVE  ClaimInv'
<1> USE DEF CallInv
<1>0. /\ UNCHANGED <<req, slot, lapsed>>
      /\ \A d \in Call : d # c => call'[d] = call[d]
      /\ call[c].pc \in Dispatch /\ call'[c].pc \in Dispatch \cup {"finish"}
      /\ call'[c].guard = call[c].guard /\ call'[c].clock = call[c].clock
      /\ call'[c].answer = call[c].answer /\ call'[c].from = call[c].from
  BY DispatchFrame
<1>1. ASSUME NEW d \in Call PROVE HolderOK(d)'
  <2>1. \A e \in Call : Claims(e)' <=> Claims(e)
    BY <1>0 DEF Claims, InFlight
  <2>2. call'[d].clock = call[d].clock
    BY <1>0
  <2> QED BY <1>0, <2>1, <2>2 DEF ClaimInv, HolderOK, Sha
<1>2. ASSUME NEW d \in Call PROVE OutcomeOK(d)'
  <2>1. call'[d].answer = call[d].answer /\ call'[d].from = call[d].from /\ call'[d].guard = call[d].guard
    BY <1>0
  <2>2. c \notin wrote
    BY <1>0 DEF StateOK, Dispatch
  <2>3. /\ faults' = 0 => faults = 0
        /\ d \in wrote' => d \in wrote \/ (d = c /\ Write(c))
    BY ClockAssumption DEF TypeOK, DispatchStep, Measure, MeasureFails, Check, Consume, Write, WriteFails,
       GiveBack, GiveBackFails
  <2>4. Write(c) => call'[c].pc = "finish"
    BY DEF Write, EndsWith, TypeOK, CallState
  <2> QED BY <1>0, <2>1, <2>2, <2>3, <2>4 DEF ClaimInv, OutcomeOK, Sha
<1> QED BY <1>0, <1>1, <1>2 DEF ClaimInv, Sha

\* The answers and the release: the row a guard finishes is the one it claimed.
LEMMA LeaveKeepsClaim ==
    ASSUME CallInv, ClaimInv, NEW c \in Call,
           ClaimReplay(c) \/ Finish(c) \/ FinishFails(c) \/ Release(c)
    PROVE  ClaimInv'
<1> USE DEF CallInv
<1>0. /\ UNCHANGED <<req, wrote, lapsed>> /\ faults' \in {faults, faults + 1}
      /\ \A d \in Call : d # c => call'[d] = call[d]
      /\ call'[c].pc \in {"answered", "gone"} /\ call'[c].guard = call[c].guard
      /\ call'[c].answer = "replay" => slot.st = "stored" /\ slot.sha = Sha(c) /\ call'[c].from = slot.by
      /\ faults' = 0 => faults = 0
  BY LeaveFrame, ClockAssumption DEF TypeOK
<1>1. \A d \in Call : Claims(d)' <=> Claims(d) /\ d # c
  BY <1>0 DEF Claims, InFlight, Dispatch
<1>2. ASSUME NEW d \in Call PROVE call'[d].answer = "replay" => Sha(call'[d].from) = Sha(d)
  BY <1>0 DEF ClaimInv, OutcomeOK
<1>3. CASE slot' = slot /\ (~call[c].guard \/ faults' # 0)
  <2>1. ASSUME NEW d \in Call PROVE HolderOK(d)'
    BY <1>0, <1>1, <1>3 DEF ClaimInv, HolderOK, Sha
  <2>2. ASSUME NEW d \in Call PROVE OutcomeOK(d)'
    BY <1>0, <1>2, <1>3 DEF ClaimInv, OutcomeOK, Sha
  <2> QED BY <1>0, <1>3, <2>1, <2>2 DEF ClaimInv, Sha
<1>4. ASSUME call[c].guard, NEW o \in Outcome, IdemFinish(c, o),
             Release(c) \/ (Finish(c) /\ o = call[c].out), faults' = faults
      PROVE  ClaimInv'
  <2>1. Claims(c)
    BY <1>4 DEF Claims, InFlight, Release, Finish
  <2>2. /\ slot.st = "pending" /\ slot.sha = Sha(c)
        /\ \A d \in Call : Claims(d) => d = c
    BY <2>1 DEF ClaimInv, HolderOK
  <2>3. \A d \in Call : ~Claims(d)'
    BY <1>1, <2>2
  <2>4. slot'.st = "absent" \/ (slot'.st = "stored" /\ slot'.by = c /\ slot'.sha = Sha(c))
    BY <1>4, <2>2, FinishSlot
  <2>5. ASSUME NEW d \in Call, faults = 0, ~lapsed, d \in wrote, call[d].guard
        PROVE  slot'.st = "stored" /\ slot'.by = d
    <3>1. call[d].pc = "finish"
      BY <2>2, <2>5 DEF ClaimInv, OutcomeOK
    <3>2. d = c
      BY <2>2, <2>5, <3>1 DEF Claims, InFlight
    <3>3. o = "ok"
      BY <1>4, <2>5, <3>1, <3>2 DEF Release, StateOK
    <3> QED BY <1>4, <2>2, <3>2, <3>3, FinishSlot
  <2>6. ASSUME NEW d \in Call PROVE OutcomeOK(d)'
    <3>1. call'[d].guard = call[d].guard
      BY <1>0
    <3> QED BY <1>0, <1>2, <1>4, <2>5, <3>1 DEF OutcomeOK, Sha
  <2> QED BY <1>0, <2>3, <2>4, <2>6 DEF ClaimInv, HolderOK, Sha
<1>5. CASE ClaimReplay(c)
  BY <1>3, <1>5 DEF ClaimReplay, StateOK
<1>6. CASE FinishFails(c)
  BY <1>3, <1>6, ClockAssumption DEF FinishFails, TypeOK
<1>7. CASE Finish(c)
  <2>1. call[c].out \in Outcome
    BY DEF TypeOK, CallState
  <2> QED BY <1>3, <1>4, <1>7, <2>1 DEF Finish
<1>8. CASE Release(c)
  BY <1>4, <1>8 DEF Release, StateOK, Outcome
<1> QED BY <1>5, <1>6, <1>7, <1>8

\* A loss: a dropped guard holds the row until its release runs.
LEMMA LossKeepsClaim ==
    ASSUME CallInv, ClaimInv, Crash \/ \E c \in Call : Drop(c)
    PROVE  ClaimInv'
<1> USE DEF CallInv
<1>0. UNCHANGED <<req, slot>> /\ faults' # 0
  BY LossFrame
<1>1. ASSUME NEW d \in Call
      PROVE  /\ Claims(d)' => Claims(d) /\ call'[d].clock = call[d].clock
             /\ call'[d].answer = "replay" => call[d].answer = "replay" /\ call'[d].from = call[d].from
  <2>1. "gone" \notin InFlight
    BY DEF InFlight, Dispatch
  <2> QED BY <2>1, LossFrame DEF Claims
<1>2. ASSUME NEW d \in Call PROVE HolderOK(d)'
  BY <1>0, <1>1 DEF ClaimInv, HolderOK, Sha
<1>3. ASSUME NEW d \in Call PROVE OutcomeOK(d)'
  BY <1>0, <1>1 DEF ClaimInv, OutcomeOK, Sha
<1> QED BY <1>0, <1>2, <1>3 DEF ClaimInv, Sha

\* Time and the purge: a held row and its holder grow old together.
LEMMA HostKeepsClaim ==
    ASSUME CallMax < WaitMax, CallInv, ClaimInv,
           \/ \E t \in Token, a \in Args : DryRun(t, a)
           \/ \E a \in Args : Insert(a)
           \/ PurgeExpired
           \/ Tick
    PROVE  ClaimInv'
<1> USE DEF CallInv
<1>0. UNCHANGED <<req, wrote, faults>>
  BY DEF DryRun, Insert, PurgeExpired, Tick
<1>1. CASE Tick
  <2>1. /\ slot'.st = slot.st /\ slot'.by = slot.by /\ slot'.sha = slot.sha /\ lapsed' = lapsed
        /\ slot.st = "pending" /\ slot.age < Ttl => slot'.age = slot.age + 1
    <3>1. slot.age \in 0..Ttl /\ (slot.st = "absent" <=> slot = NoRow)
      BY SlotAge
    <3>2. CASE slot = NoRow
      BY <1>1, <3>1, <3>2 DEF Tick
    <3>3. CASE slot # NoRow
      <4>1. slot' = [slot EXCEPT !.age = Older(@, Ttl)] /\ lapsed' = lapsed
        BY <1>1, <3>3 DEF Tick
      <4>2. /\ slot'.st = slot.st /\ slot'.age = Older(slot.age, Ttl)
            /\ slot'.by = slot.by /\ slot'.sha = slot.sha
        BY <3>3, <4>1 DEF TypeOK, Slot
      <4> QED BY <4>1, <4>2 DEF Older
    <3> QED BY <3>2, <3>3
  <2>2. ASSUME NEW d \in Call
        PROVE  /\ Claims(d)' <=> Claims(d)
               /\ Claims(d) => call'[d].clock = call[d].clock + 1
               /\ call'[d].answer = call[d].answer /\ call'[d].from = call[d].from
               /\ call'[d].guard = call[d].guard /\ call'[d].pc = call[d].pc
    BY <1>1, TickFrame DEF Claims
  <2>3. ASSUME NEW d \in Call PROVE HolderOK(d)'
    <3>1. Claims(d) => slot.age < Ttl
      BY HeldRow
    <3> QED BY <1>0, <2>1, <2>2, <3>1 DEF ClaimInv, HolderOK, Sha
  <2>4. ASSUME NEW d \in Call PROVE OutcomeOK(d)'
    BY <1>0, <2>1, <2>2 DEF ClaimInv, OutcomeOK, Sha
  <2> QED BY <1>0, <2>1, <2>3, <2>4 DEF ClaimInv, Sha
<1>2. CASE PurgeExpired
  <2>1. \A d \in Call : ~Claims(d)
    BY <1>2, HeldRow, ClockAssumption DEF PurgeExpired
  <2>2. /\ call' = call /\ slot'.st = "absent"
        /\ slot.st = "stored" => lapsed'
        /\ lapsed => lapsed'
    BY <1>2 DEF PurgeExpired, NoRow
  <2>3. ASSUME NEW d \in Call PROVE HolderOK(d)' /\ OutcomeOK(d)'
    BY <1>0, <2>1, <2>2 DEF ClaimInv, HolderOK, OutcomeOK, Claims, Sha
  <2> QED BY <2>2, <2>3 DEF ClaimInv
<1>3. CASE UNCHANGED <<call, slot, lapsed>>
  BY <1>0, <1>3 DEF ClaimInv, HolderOK, OutcomeOK, Claims, Sha
<1> QED BY <1>1, <1>2, <1>3 DEF DryRun, Insert

\* Every step keeps the row and its holder together.
LEMMA ClaimStep ==
    ASSUME CallMax < WaitMax
    PROVE  CallInv /\ ClaimInv /\ [Next]_vars => ClaimInv'
<1> SUFFICES ASSUME CallInv, ClaimInv, [Next]_vars
             PROVE  ClaimInv'
  OBVIOUS
<1>1. CASE UNCHANGED vars
  BY <1>1 DEF vars, ClaimInv, HolderOK, OutcomeOK, Claims, Sha
<1>2. CASE Next
  BY <1>2, EnterKeepsClaim, DispatchKeepsClaim, LeaveKeepsClaim, LossKeepsClaim, HostKeepsClaim
     DEF Next, Step, Fault, DispatchStep
<1> QED BY <1>1, <1>2

\* idem_claim, idem_finish and the guard: while every dispatch ends before WAIT_MAX_SECS,
\* the row of the key belongs to the request that claimed it until it lets go.
THEOREM ClaimInvHolds ==
    ASSUME CallMax < WaitMax
    PROVE  Spec => []ClaimInv
<1>1. Init => ClaimInv
  <2>1. Fresh.pc = "idle" /\ ~Fresh.guard /\ Fresh.answer = "none" /\ NoRow.st = "absent"
    BY DEF Fresh, NoRow
  <2> QED BY <2>1 DEF Init, ClaimInv, HolderOK, OutcomeOK, Claims
<1>2. CallInv /\ ClaimInv /\ [Next]_vars => ClaimInv'
  BY ClaimStep
<1> QED BY <1>1, <1>2, CallInvHolds, PTL DEF Spec

\* Claim::Replay: a replayed outcome is of a request with the same arguments and token,
\* as long as no dispatch outlasts the row's wait.
THEOREM ReplaysMatch ==
    ASSUME CallMax < WaitMax
    PROVE  Spec => []ReplayMatchesArgs
<1>1. ClaimInv => ReplayMatchesArgs
  BY DEF ClaimInv, OutcomeOK, ReplayMatchesArgs
<1>2. Spec => []ClaimInv
  BY ClaimInvHolds
<1> QED BY <1>1, <1>2, PTL

\* The promise of an idempotency key: of the requests that claimed it, at most one
\* commits, unless a fault or a lapse came between.
THEOREM KeyedRunsOnce ==
    ASSUME CallMax < WaitMax
    PROVE  Spec => []RanOnce
<1>1. ASSUME ClaimInv, faults = 0, ~lapsed, NEW c \in Call, NEW d \in Call,
             c \in wrote, d \in wrote, call[c].guard, call[d].guard
      PROVE  c = d
  <2>1. /\ call[c].pc = "finish" \/ (slot.st = "stored" /\ slot.by = c)
        /\ call[d].pc = "finish" \/ (slot.st = "stored" /\ slot.by = d)
    BY <1>1 DEF ClaimInv, OutcomeOK
  <2>2. \A e \in {c, d} : call[e].pc = "finish" => Claims(e)
    BY <1>1 DEF Claims, InFlight
  <2>3. \A e \in {c, d} : Claims(e) => slot.st = "pending" /\ \A f \in {c, d} : Claims(f) => f = e
    BY <1>1 DEF ClaimInv, HolderOK
  <2> QED BY <2>1, <2>2, <2>3
<1>2. ASSUME ClaimInv, TypeOK, faults = 0, ~lapsed
      PROVE  Cardinality({c \in wrote : call[c].guard}) <= 1
  <2> DEFINE S == {c \in wrote : call[c].guard}
  <2>1. \A c, d \in S : c = d
    BY <1>1, <1>2 DEF TypeOK
  <2> HIDE DEF S
  <2>2. Cardinality(S) <= 1
    BY <2>1, AtMostOne
  <2> QED BY <2>2 DEF S
<1>3. ClaimInv /\ TypeOK => RanOnce
  BY <1>2 DEF RanOnce
<1>4. Spec => []ClaimInv
  BY ClaimInvHolds
<1> QED BY <1>3, <1>4, TypeCorrect, PTL
=============================================================================
