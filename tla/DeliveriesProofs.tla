-------------------------- MODULE DeliveriesProofs --------------------------
(***************************************************************************)
(* Theorems about module Deliveries, for any requests, any traffic and any *)
(* bounds. The invariants the runs check are not inductive: a key fires    *)
(* once per window because the claim is committed before anything is       *)
(* stored under it (ClaimOK), an answer stands for a run because the       *)
(* claimant never goes back (RequestOK, JobOK), and alerts are counted     *)
(* right because at most one check is pending while nothing blurs the      *)
(* receipts (StreakInv).                                                   *)
(***************************************************************************)
EXTENDS Deliveries, FiniteSetTheorems, SequenceTheorems, WellFoundedInduction, TLAPS

-----------------------------------------------------------------------------
(* The inductive invariants.                                               *)

\* What a request that has not stored its run can be doing.
Early == {"idle", "store", "count", "queue", "reject", "refuse_letter", "refused", "duplicate"}

\* The request claimed its key, and has its run or row, or is getting it, or broke off.
Standing(n) ==
    \/ run[n].st # "none" \/ n \in inbox
    \/ req[n].pc \in {"store", "count", "queue", "reject", "reject_letter", "error", "lost"}

\* The attempt fired or may still fire under its claim.
Touch(a) ==
    \/ run[a].st # "none" \/ a \in inbox
    \/ req[a].pc \in {"store", "count", "queue", "reject", "reject_letter"}

Touched(k) ==
    {a \in Attempt : traffic[a].key = k /\ traffic[a].route \in Delivery /\ Touch(a)}

\* What an answer says is so, and a run is inserted only at the end of its request.
RequestOK(a) ==
    /\ req[a].pc \in Early => run[a].st = "none"
    /\ req[a].pc \in {"reject_letter", "mark"} => run[a].st # "none"
    /\ req[a].pc = "accepted" => req[a].named = a /\ (run[a].st # "none" \/ a \in inbox)
    /\ req[a].pc = "duplicate" => req[a].named \in Attempt /\ Standing(req[a].named)

\* The claimant of a key is under way or done, and a key is touched once per window.
ClaimOK(k) ==
    /\ claim[k] # NoAttempt => Standing(claim[k])
    /\ Cardinality(Touched(k)) <= lapses[k] + (IF claim[k] = NoAttempt THEN 0 ELSE 1)

\* What follows the end of a run follows an ended run; a task works on a row that is
\* running, unless it was reaped.
JobOK(a) ==
    /\ run[a].job \in {"receipt", "check", "letter"} => run[a].st \in {"done", "error", "timeout"}
    /\ run[a].job \in {"work", "failed"} => run[a].st = "running" \/ a \in mislaid

RequestInv == (\A a \in Attempt : RequestOK(a)) /\ (\A k \in Key : ClaimOK(k))

\* The counter of the ring and its content.
BoxInv ==
    /\ box.dropped + Len(box.ring) = Len(box.written)
    /\ box.ring = SubSeq(box.written, box.dropped + 1, Len(box.written))

\* A letter for whatever is over, unless a fault took it.
LetterOK(a) ==
    /\ \/ req[a].pc = "refused" /\ traffic[a].route = "event"
       \/ OwesLetter(a) /\ req[a].pc \notin OwingLetter /\ run[a].job = "none"
    /\ a \notin mislaid
    => a \in Letters

LetterInv == \A a \in Attempt : JobOK(a) /\ LetterOK(a)

Long == {i \in 1..Len(streak.receipts) : BeginsLongStreak(i)}
Pending == {a \in Attempt : run[a].job = "check"}

\* While nothing blurs the receipts at most one check is pending, and the alerts are
\* the long streaks but the one that this check is about to find.
StreakInv ==
    /\ 0 \in streak.floors
    /\ ~streak.blurred =>
         /\ \A a, b \in Pending : a = b
         /\ streak.alerts + (IF Pending # {} /\ StreakOf = AlertStreak THEN 1 ELSE 0)
              = Cardinality(Long)

-----------------------------------------------------------------------------
(* Lemmas about the updates and the bounds.                                *)

Pc == {"idle"} \cup Enqueuing \cup Answers
Request == [pc : Pc, named : Attempt \cup {NoAttempt}]
RunState == [st : {"none", "queued", "running"} \cup Ended,
             job : {"none", "work", "failed", "receipt", "check", "letter"},
             retried : BOOLEAN]

\* A request moves on and keeps what its answer would name.
LEMMA GotoEffect ==
    ASSUME req \in [Attempt -> Request], NEW a \in Attempt, NEW p \in Pc, Goto(a, p)
    PROVE  /\ req' \in [Attempt -> Request]
           /\ req'[a].pc = p /\ req'[a].named = req[a].named
           /\ \A b \in Attempt : b # a => req'[b] = req[b]
BY DEF Goto, Request

\* A request is answered, for the attempt its answer names.
LEMMA AnswerEffect ==
    ASSUME req \in [Attempt -> Request], NEW a \in Attempt, NEW p \in Answers,
           NEW n \in Attempt, Answer(a, p, n)
    PROVE  /\ req' \in [Attempt -> Request]
           /\ req'[a].pc = p /\ req'[a].named = n
           /\ \A b \in Attempt : b # a => req'[b] = req[b]
<1> DEFINE q == [pc |-> p, named |-> n]
<1>1. q \in Request /\ q.pc = p /\ q.named = n
  BY DEF Request, Pc
<1>2. req' = [req EXCEPT ![a] = q]
  BY DEF Answer
<1> HIDE DEF q
<1> QED BY <1>1, <1>2

\* An update of a run's status and of its task.
LEMMA RunEffect ==
    ASSUME run \in [Attempt -> RunState], NEW a \in Attempt,
           NEW s \in {"none", "queued", "running"} \cup Ended,
           NEW j \in {"none", "work", "failed", "receipt", "check", "letter"},
           run' = [run EXCEPT ![a] = [run[a] EXCEPT !.st = s, !.job = j]]
    PROVE  /\ run' \in [Attempt -> RunState]
           /\ run'[a].st = s /\ run'[a].job = j
           /\ \A b \in Attempt : b # a => run'[b] = run[b]
<1> DEFINE q == [run[a] EXCEPT !.st = s, !.job = j]
<1>1. q \in RunState /\ q.st = s /\ q.job = j
  BY DEF RunState
<1> HIDE DEF q
<1>2. run' = [run EXCEPT ![a] = q]
  BY DEF q
<1> QED BY <1>1, <1>2

\* A run's task moves on and leaves the row.
LEMMA JobGoesEffect ==
    ASSUME run \in [Attempt -> RunState], NEW a \in Attempt,
           NEW j \in {"none", "work", "failed", "receipt", "check", "letter"}, JobGoes(a, j)
    PROVE  /\ run' \in [Attempt -> RunState]
           /\ run'[a].st = run[a].st /\ run'[a].job = j
           /\ \A b \in Attempt : b # a => run'[b] = run[b]
BY DEF JobGoes, RunState

Box == [ring : Seq(Attempt), dropped : Nat, written : Seq(Attempt)]

\* A sequence is the end of another one when it agrees with it element by element.
LEMMA SuffixIsSubSeq ==
    ASSUME NEW S, NEW w \in Seq(S), NEW r \in Seq(S), NEW d \in Nat, d + Len(r) = Len(w)
    PROVE  r = SubSeq(w, d + 1, Len(w)) <=> \A i \in 1..Len(r) : r[i] = w[d + i]
<1> DEFINE n == Len(w)
           m == Len(r)
           sub == SubSeq(w, d + 1, n)
<1>1. n \in Nat /\ m \in Nat /\ d + m = n
  OBVIOUS
<1>2. \A i \in (d + 1)..n : w[i] \in S
  BY <1>1
<1>3. /\ sub \in Seq(S)
      /\ Len(sub) = (IF d + 1 <= n THEN n - (d + 1) + 1 ELSE 0)
      /\ \A i \in 1..(n - (d + 1) + 1) : sub[i] = w[(d + 1) + i - 1]
  <2> HIDE DEF n
  <2>1. d + 1 \in Int /\ n \in Int
    BY <1>1
  <2> QED BY <1>2, <2>1, SubSeqProperties
<1> HIDE DEF sub, n, m
<1>4. Len(sub) = m
  BY <1>1, <1>3
<1>5. ASSUME NEW i \in 1..m PROVE sub[i] = w[d + i]
  <2>1. i \in 1..(n - (d + 1) + 1) /\ (d + 1) + i - 1 = d + i
    BY <1>1
  <2> QED BY <1>3, <2>1
<1>6. (\A i \in 1..m : r[i] = w[d + i]) => r = sub
  <2> SUFFICES ASSUME \A i \in 1..m : r[i] = w[d + i]
               PROVE  r = sub
    OBVIOUS
  <2>1. Len(r) = Len(sub) /\ \A i \in 1..Len(r) : r[i] = sub[i]
    BY <1>4, <1>5 DEF m
  <2> QED BY <1>3, <2>1, SeqEqual
<1>7. r = sub => \A i \in 1..m : r[i] = w[d + i]
  BY <1>5
<1> QED BY <1>6, <1>7 DEF m, sub, n

\* insert_dead_letter keeps the ring within the plan and records one letter.
LEMMA LetterType ==
    ASSUME box \in Box, Len(box.ring) <= LettersMax, NEW a \in Attempt, InsertDeadLetter(a)
    PROVE  /\ box' \in Box /\ Len(box'.ring) <= LettersMax
           /\ box'.written = Append(box.written, a)
           /\ \E over \in 0..1 :
                /\ Len(box'.ring) = Len(box.ring) + 1 - over
                /\ box'.dropped = box.dropped + over
                /\ \A i \in 1..Len(box'.ring) : box'.ring[i] = Append(box.ring, a)[over + i]
<1> DEFINE all == Append(box.ring, a)
           over == IF Len(all) > LettersMax THEN Len(all) - LettersMax ELSE 0
           rest == SubSeq(all, over + 1, Len(all))
<1>0. LettersMax \in Nat \ {0} /\ Len(box.ring) \in Nat /\ box.ring \in Seq(Attempt)
  BY DeliveryAssumption DEF Box
<1>1. all \in Seq(Attempt) /\ Len(all) = Len(box.ring) + 1
  BY <1>0
<1>2. over \in 0..1
  BY <1>0, <1>1
<1>3. /\ rest \in Seq(Attempt) /\ Len(rest) = Len(all) - over
      /\ \A i \in 1..Len(rest) : rest[i] = all[over + i]
  <2> HIDE DEF all, over
  <2>1. \A i \in (over + 1)..Len(all) : all[i] \in Attempt
    BY <1>0, <1>1, <1>2
  <2>2. /\ rest \in Seq(Attempt)
        /\ Len(rest) = (IF over + 1 <= Len(all) THEN Len(all) - (over + 1) + 1 ELSE 0)
    BY <1>0, <1>1, <1>2, <2>1, SubSeqProperties
  <2>3. over + Len(rest) = Len(all) /\ over \in Nat
    BY <1>0, <1>1, <1>2, <2>2
  <2> QED BY <1>0, <1>1, <1>2, <2>2, <2>3, SuffixIsSubSeq
<1>4. Len(rest) <= LettersMax
  BY <1>0, <1>1, <1>3
<1>5. box' = [ring |-> rest, dropped |-> box.dropped + over, written |-> Append(box.written, a)]
  BY DEF InsertDeadLetter
<1> HIDE DEF rest, over
<1>6. box'.ring = rest /\ box'.dropped = box.dropped + over /\ box'.written = Append(box.written, a)
  BY <1>5
<1>7. box' \in Box
  <2>1. box.dropped + over \in Nat /\ Append(box.written, a) \in Seq(Attempt)
    BY <1>2 DEF Box
  <2> QED BY <1>3, <1>5, <2>1 DEF Box
<1>8. /\ Len(box'.ring) = Len(box.ring) + 1 - over
      /\ \A i \in 1..Len(box'.ring) : box'.ring[i] = Append(box.ring, a)[over + i]
  <2> HIDE DEF all
  <2>1. \A i \in 1..Len(rest) : rest[i] = all[over + i]
    BY <1>3
  <2>2. Len(rest) = Len(box.ring) + 1 - over
    <3>1. Len(rest) = Len(all) - over
      BY <1>3
    <3>2. Len(all) = Len(box.ring) + 1
      BY <1>1
    <3> QED BY <1>0, <1>2, <3>1, <3>2
  <2> QED BY <1>6, <2>1, <2>2, Zenon DEF all
<1> QED BY <1>2, <1>4, <1>6, <1>7, <1>8

\* The ring stays the newest letters and the counter the rest.
LEMMA LetterStep ==
    ASSUME box \in Box, Len(box.ring) <= LettersMax, BoxInv, NEW a \in Attempt, InsertDeadLetter(a)
    PROVE  BoxInv' /\ Letters' = Letters \cup {a}
<1>1. PICK over \in 0..1 :
        /\ Len(box'.ring) = Len(box.ring) + 1 - over
        /\ box'.dropped = box.dropped + over
        /\ \A i \in 1..Len(box'.ring) : box'.ring[i] = Append(box.ring, a)[over + i]
  BY LetterType
<1>2. box' \in Box /\ box'.written = Append(box.written, a)
  BY LetterType
<1> DEFINE w == box.written
           n == Len(w)
           d == box.dropped
           ring == box.ring
           m == Len(ring)
           v == box'.written
           e == box'.dropped
           r == box'.ring
<1>3. /\ w \in Seq(Attempt) /\ n \in Nat /\ d \in Nat /\ d + m = n
      /\ ring \in Seq(Attempt) /\ m \in Nat
      /\ v \in Seq(Attempt) /\ e \in Nat /\ r \in Seq(Attempt) /\ Len(r) \in Nat
  <2>1. box \in Box /\ box' \in Box
    BY <1>2
  <2>2. w \in Seq(Attempt) /\ d \in Nat /\ ring \in Seq(Attempt)
    BY <2>1 DEF Box
  <2>3. v \in Seq(Attempt) /\ e \in Nat /\ r \in Seq(Attempt)
    BY <2>1 DEF Box
  <2>4. d + m = n
    BY DEF BoxInv
  <2> HIDE DEF w, d, ring, v, e, r
  <2> QED BY <2>2, <2>3, <2>4
<1>4. Len(v) = n + 1 /\ v[n + 1] = a /\ \A i \in 1..n : v[i] = w[i]
  BY <1>2, <1>3
<1>a. Append(ring, a)[m + 1] = a /\ \A i \in 1..m : Append(ring, a)[i] = ring[i]
  BY <1>3
<1>b. Len(r) = m + 1 - over /\ e = d + over /\ \A i \in 1..Len(r) : r[i] = Append(ring, a)[over + i]
  BY <1>1
<1>5. \A i \in 1..m : ring[i] = w[d + i]
  <2>1. ring = SubSeq(w, d + 1, Len(w)) /\ d + Len(ring) = Len(w)
    BY DEF BoxInv
  <2> HIDE DEF ring, w, d
  <2> QED BY <1>3, <2>1, SuffixIsSubSeq
<1>c. Letters = {w[i] : i \in 1..n} /\ Letters' = {v[i] : i \in 1..Len(v)}
  BY DEF Letters
<1>d. BoxInv' <=> e + Len(r) = Len(v) /\ r = SubSeq(v, e + 1, Len(v))
  BY DEF BoxInv
<1> HIDE DEF w, n, d, ring, m, v, e, r
<1>6. e + Len(r) = Len(v)
  BY <1>3, <1>4, <1>b
<1>7. ASSUME NEW i \in 1..Len(r)
      PROVE  r[i] = v[e + i]
  <2>0. r[i] = Append(ring, a)[over + i]
    BY <1>b, Zenon
  <2>1. r[i] = Append(ring, a)[over + i] /\ over + i \in 1..(m + 1)
    <3>1. Len(r) = m + 1 - over
      BY <1>b
    <3>2. over + i \in 1..(m + 1)
      BY <1>3, <3>1
    <3> QED BY <2>0, <3>2
  <2>2. CASE over + i = m + 1
    <3>1. e + i = n + 1
      BY <1>3, <1>b, <2>2
    <3> QED BY <1>4, <1>a, <2>1, <2>2, <3>1
  <2>3. CASE over + i # m + 1
    <3>1. over + i \in 1..m
      BY <1>3, <2>1, <2>3
    <3>2. r[i] = w[d + (over + i)]
      BY <1>5, <1>a, <2>1, <3>1
    <3>3. d + (over + i) = e + i /\ e + i \in 1..n
      BY <1>3, <1>b, <3>1
    <3> QED BY <1>4, <3>2, <3>3
  <2> QED BY <2>2, <2>3
<1>8. r = SubSeq(v, e + 1, Len(v))
  BY <1>3, <1>6, <1>7, SuffixIsSubSeq
<1>9. {v[i] : i \in 1..Len(v)} = {w[i] : i \in 1..n} \cup {a}
  BY <1>3, <1>4
<1> QED BY <1>6, <1>8, <1>9, <1>c, <1>d

-----------------------------------------------------------------------------
(* What each action does, attempt by attempt.                              *)

\* A step of request a: nobody else's request moves.
RequestOf(a, p) ==
    /\ req' \in [Attempt -> Request]
    /\ req'[a].pc = p
    /\ \A b \in Attempt : b # a => req'[b] = req[b]
    /\ UNCHANGED <<traffic, streak, lapses>>

\* A step that moves the run of a: nobody else's run moves.
RunOf(a, s, j) ==
    /\ run' \in [Attempt -> RunState]
    /\ run'[a].st = s /\ run'[a].job = j
    /\ \A b \in Attempt : b # a => run'[b] = run[b]

\* The parts of TypeOK by the names used here.
LEMMA TypeParts ==
    ASSUME TypeOK
    PROVE  /\ req \in [Attempt -> Request] /\ run \in [Attempt -> RunState] /\ box \in Box
           /\ faults \in Nat /\ claim \in [Key -> Attempt \cup {NoAttempt}] /\ inbox \subseteq Attempt
           /\ traffic \in Traffic /\ traffic \in [Attempt -> [route : Route, key : Key]]
           /\ lapses \in [Key -> 0..MaxLapses]
<1>1. req \in [Attempt -> Request]
  BY DEF TypeOK, Request, Pc
<1>2. run \in [Attempt -> RunState]
  BY DEF TypeOK, RunState
<1>3. box \in Box
  BY DEF TypeOK, Box
<1>4. traffic \in Traffic /\ traffic \in [Attempt -> [route : Route, key : Key]]
  BY DeliveryAssumption DEF TypeOK
<1>5. faults \in Nat /\ claim \in [Key -> Attempt \cup {NoAttempt}] /\ inbox \subseteq Attempt
  BY DeliveryAssumption DEF TypeOK
<1>6. lapses \in [Key -> 0..MaxLapses]
  BY DEF TypeOK
<1> QED BY <1>1, <1>2, <1>3, <1>4, <1>5, <1>6

\* A delivery refused at the door: nothing is claimed and no run is there.
LEMMA RefuseEffect ==
    ASSUME TypeOK, NEW a \in Attempt, Refuse(a)
    PROVE  /\ RequestOf(a, IF IsWebhook(a) THEN "refused" ELSE "refuse_letter")
           /\ req[a].pc = "idle" /\ traffic[a].route \in Delivery
           /\ UNCHANGED <<claim, run, inbox, box, mislaid, faults>>
<1> DEFINE p == IF IsWebhook(a) THEN "refused" ELSE "refuse_letter"
<1>1. p \in Pc /\ Goto(a, p)
  BY DEF Refuse, Pc, Enqueuing, Answers
<1> HIDE DEF p
<1>2. RequestOf(a, p)
  BY <1>1, TypeParts, GotoEffect DEF RequestOf, Refuse
<1> QED BY <1>2 DEF Refuse, p

\* A delivery claims its key, or is answered as a duplicate of the claimant.
LEMMA DeliverEffect ==
    ASSUME TypeOK, NEW a \in Attempt, Deliver(a)
    PROVE  LET k == traffic[a].key IN
           /\ req[a].pc = "idle" /\ traffic[a].route \in Delivery
           /\ \/ claim[k] \in Attempt /\ RequestOf(a, "duplicate") /\ req'[a].named = claim[k]
                 /\ claim' = claim
              \/ claim[k] = NoAttempt /\ claim' = [claim EXCEPT ![k] = a]
                 /\ RequestOf(a, IF IsWebhook(a) THEN "store" ELSE "count")
           /\ UNCHANGED <<run, inbox, box, mislaid, faults>>
<1> DEFINE k == traffic[a].key
           p == IF IsWebhook(a) THEN "store" ELSE "count"
<1>1. p \in Pc /\ "duplicate" \in Answers
  BY DEF Pc, Enqueuing, Answers
<1>2. k \in Key /\ claim[k] \in Attempt \cup {NoAttempt}
  BY TypeParts
<1>3. CASE claim[k] # NoAttempt /\ Answer(a, "duplicate", claim[k]) /\ UNCHANGED claim
  <2>1. claim[k] \in Attempt
    BY <1>2, <1>3
  <2>2. RequestOf(a, "duplicate") /\ req'[a].named = claim[k]
    BY <1>1, <1>3, <2>1, TypeParts, AnswerEffect DEF RequestOf, Deliver
  <2> QED BY <1>3, <2>1, <2>2 DEF Deliver
<1>4. CASE claim[k] = NoAttempt /\ claim' = [claim EXCEPT ![k] = a] /\ Goto(a, p)
  <2> HIDE DEF p
  <2>1. RequestOf(a, p)
    BY <1>1, <1>4, TypeParts, GotoEffect DEF RequestOf, Deliver
  <2> QED BY <1>4, <2>1 DEF Deliver, p
<1> QED BY <1>3, <1>4 DEF Deliver

\* A replay claims nothing: it goes to the count, or straight to the insert.
LEMMA ReplayEffect ==
    ASSUME TypeOK, NEW a \in Attempt, Replay(a) \/ ReplayRun(a) \/ ReplayWebhookRow(a)
    PROVE  /\ RequestOf(a, "count") \/ RequestOf(a, "queue")
           /\ req[a].pc = "idle" /\ traffic[a].route \notin Delivery
           /\ UNCHANGED <<claim, run, inbox, box, mislaid, faults>>
<1>1. "count" \in Pc /\ "queue" \in Pc
  BY DEF Pc, Enqueuing
<1>2. Goto(a, "count") \/ Goto(a, "queue")
  BY DEF Replay, ReplayRun, ReplayWebhookRow
<1>3. UNCHANGED <<traffic, streak, lapses, claim, run, inbox, box, mislaid, faults>>
  BY DEF Replay, ReplayRun, ReplayWebhookRow
<1>4. RequestOf(a, "count") \/ RequestOf(a, "queue")
  <2>1. CASE Goto(a, "count")
    BY <1>1, <1>3, <2>1, TypeParts, GotoEffect DEF RequestOf
  <2>2. CASE Goto(a, "queue")
    BY <1>1, <1>3, <2>2, TypeParts, GotoEffect DEF RequestOf
  <2> QED BY <1>2, <2>1, <2>2
<1> QED BY <1>3, <1>4 DEF Replay, ReplayRun, ReplayWebhookRow, Delivery

\* A webhook delivery stores its inbox row, and enqueues a run or not.
LEMMA StoreEffect ==
    ASSUME TypeOK, NEW a \in Attempt, Store(a)
    PROVE  /\ req[a].pc = "store"
           /\ \/ inbox' = inbox \cup {a} /\ RequestOf(a, "count")
              \/ inbox' = inbox \cup {a} /\ RequestOf(a, "accepted") /\ req'[a].named = a
              \/ inbox' = inbox /\ RequestOf(a, "error")
           /\ UNCHANGED <<claim, run, box, mislaid, faults>>
<1>1. "count" \in Pc /\ "error" \in Pc /\ "accepted" \in Answers
  BY DEF Pc, Enqueuing, Answers
<1>2. CASE inbox' = inbox \cup {a} /\ Goto(a, "count")
  BY <1>1, <1>2, TypeParts, GotoEffect DEF RequestOf, Store
<1>3. CASE inbox' = inbox \cup {a} /\ Answer(a, "accepted", a)
  BY <1>1, <1>3, TypeParts, AnswerEffect DEF RequestOf, Store
<1>4. CASE inbox' = inbox /\ Goto(a, "error")
  BY <1>1, <1>4, TypeParts, GotoEffect DEF RequestOf, Store
<1> QED BY <1>2, <1>3, <1>4 DEF Store

\* The count of open runs decides between queueing and rejecting.
LEMMA CountEffect ==
    ASSUME TypeOK, NEW a \in Attempt, Count(a)
    PROVE  /\ req[a].pc = "count"
           /\ RequestOf(a, "reject") \/ RequestOf(a, "queue")
           /\ UNCHANGED <<claim, run, inbox, box, mislaid, faults>>
<1>1. "reject" \in Pc /\ "queue" \in Pc
  BY DEF Pc, Enqueuing
<1>2. CASE Goto(a, "reject")
  BY <1>1, <1>2, TypeParts, GotoEffect DEF RequestOf, Count
<1>3. CASE Goto(a, "queue")
  BY <1>1, <1>3, TypeParts, GotoEffect DEF RequestOf, Count
<1> QED BY <1>2, <1>3 DEF Count

\* Once the run is in the ledger, a replay has its letter to mark and others are answered.
LEMMA EnqueuedEffect ==
    ASSUME TypeOK, NEW a \in Attempt, Enqueued(a), UNCHANGED <<traffic, streak, lapses>>
    PROVE  \/ traffic[a].route = "replay" /\ RequestOf(a, "mark")
           \/ RequestOf(a, "accepted") /\ req'[a].named = a
<1>1. CASE traffic[a].route = "replay"
  <2>1. Goto(a, "mark") /\ "mark" \in Pc
    BY <1>1 DEF Enqueued, Pc, Enqueuing
  <2> QED BY <1>1, <2>1, TypeParts, GotoEffect DEF RequestOf
<1>2. CASE traffic[a].route # "replay"
  <2>1. Answer(a, "accepted", a) /\ "accepted" \in Answers
    BY <1>2 DEF Enqueued, Answers
  <2> QED BY <2>1, TypeParts, AnswerEffect DEF RequestOf
<1> QED BY <1>1, <1>2

\* The queued row is inserted and the request is accepted, or marks its letter first.
LEMMA InsertQueuedEffect ==
    ASSUME TypeOK, NEW a \in Attempt, InsertQueuedRun(a)
    PROVE  /\ req[a].pc = "queue"
           /\ \/ traffic[a].route = "replay" /\ RequestOf(a, "mark")
              \/ RequestOf(a, "accepted") /\ req'[a].named = a
           /\ RunOf(a, "queued", run[a].job)
           /\ UNCHANGED <<traffic, streak, claim, inbox, box, mislaid, faults>>
<1>1. RunOf(a, "queued", run[a].job)
  BY TypeParts DEF RunOf, InsertQueuedRun, RunState
<1> QED BY <1>1, EnqueuedEffect DEF InsertQueuedRun

\* The rejected row is inserted; an event still owes its letter, a replay its mark.
LEMMA InsertRejectedEffect ==
    ASSUME TypeOK, NEW a \in Attempt, InsertRejectedRun(a)
    PROVE  /\ req[a].pc = "reject"
           /\ \/ traffic[a].route = "event" /\ RequestOf(a, "reject_letter")
              \/ traffic[a].route = "replay" /\ RequestOf(a, "mark")
              \/ traffic[a].route # "event" /\ RequestOf(a, "accepted") /\ req'[a].named = a
           /\ RunOf(a, "rejected", run[a].job)
           /\ UNCHANGED <<traffic, streak, claim, inbox, box, mislaid, faults>>
<1>1. RunOf(a, "rejected", run[a].job)
  BY TypeParts DEF RunOf, InsertRejectedRun, RunState, Ended
<1>2. CASE traffic[a].route = "event"
  <2>1. Goto(a, "reject_letter") /\ "reject_letter" \in Pc
    BY <1>2 DEF InsertRejectedRun, Pc, Enqueuing
  <2> QED BY <1>1, <1>2, <2>1, TypeParts, GotoEffect DEF RequestOf, InsertRejectedRun
<1>3. CASE traffic[a].route # "event"
  BY <1>1, <1>3, EnqueuedEffect DEF InsertRejectedRun
<1> QED BY <1>2, <1>3

\* The letter names the run of its replay, and the replay is accepted.
LEMMA MarkEffect ==
    ASSUME TypeOK, NEW a \in Attempt, SetDeadLetterReplayed(a)
    PROVE  /\ req[a].pc = "mark"
           /\ RequestOf(a, "accepted") /\ req'[a].named = a
           /\ UNCHANGED <<claim, run, inbox, box, mislaid, faults>>
BY TypeParts, AnswerEffect DEF RequestOf, SetDeadLetterReplayed, Answers

\* The letter of a refusal or a rejection is written into the ring.
LEMMA RequestLetterEffect ==
    ASSUME TypeOK, NEW a \in Attempt, RequestLetter(a)
    PROVE  /\ \/ req[a].pc = "reject_letter" /\ RequestOf(a, "accepted") /\ req'[a].named = a
              \/ req[a].pc = "refuse_letter" /\ RequestOf(a, "refused")
           /\ InsertDeadLetter(a)
           /\ UNCHANGED <<claim, run, inbox, mislaid, faults>>
<1>1. CASE req[a].pc = "reject_letter" /\ Answer(a, "accepted", a)
  BY <1>1, TypeParts, AnswerEffect DEF RequestOf, RequestLetter, Answers, OwingLetter
<1>2. CASE req[a].pc = "refuse_letter" /\ Goto(a, "refused")
  BY <1>2, TypeParts, GotoEffect DEF RequestOf, RequestLetter, Pc, Answers, OwingLetter
<1> QED BY <1>1, <1>2 DEF RequestLetter, OwingLetter

\* A database call of a request fails: the request ends, or goes on without its letter.
LEMMA RequestFailsEffect ==
    ASSUME TypeOK, NEW a \in Attempt, RequestFails(a)
    PROVE  /\ \/ /\ req[a].pc = "reject_letter" /\ RequestOf(a, "accepted") /\ req'[a].named = a
                 /\ mislaid' = mislaid \cup {a}
              \/ req[a].pc = "refuse_letter" /\ RequestOf(a, "refused") /\ mislaid' = mislaid \cup {a}
              \/ /\ req[a].pc \in {"store", "count", "queue", "reject", "mark"}
                 /\ RequestOf(a, "error") /\ mislaid' = mislaid
           /\ faults < MaxFaults /\ faults' = faults + 1
           /\ UNCHANGED <<claim, run, inbox, box>>
<1> USE DEF OwingLetter, MayFail
<1>1. CASE req[a].pc = "reject_letter"
  <2>1. Answer(a, "accepted", a)
    BY <1>1 DEF RequestFails
  <2> QED BY <1>1, <2>1, TypeParts, AnswerEffect DEF RequestOf, RequestFails, Answers
<1>2. CASE req[a].pc = "refuse_letter"
  <2>1. Goto(a, "refused")
    BY <1>2 DEF RequestFails
  <2> QED BY <1>2, <2>1, TypeParts, GotoEffect DEF RequestOf, RequestFails, Pc, Answers
<1>3. CASE req[a].pc \in {"store", "count", "queue", "reject", "mark"}
  <2>1. Goto(a, "error")
    BY <1>3 DEF RequestFails
  <2> QED BY <1>3, <2>1, TypeParts, GotoEffect DEF RequestOf, RequestFails, Pc, Answers
<1> QED BY <1>1, <1>2, <1>3 DEF RequestFails, Enqueuing

JobFrame == UNCHANGED <<traffic, claim, req, inbox, lapses>>

StreakState == [receipts : Seq(BOOLEAN), floors : SUBSET Nat, alerts : Nat,
                resumes : 0..MaxResumes, blurred : BOOLEAN]

\* The executor leases a queued run and starts its task.
LEMMA LeaseEffect ==
    ASSUME TypeOK, NEW a \in Attempt, Lease(a)
    PROVE  /\ JobFrame /\ UNCHANGED <<box, streak, mislaid, faults>>
           /\ run[a].st = "queued" /\ RunOf(a, "running", "work")
<1>1. run' = [run EXCEPT ![a] = [run[a] EXCEPT !.st = "running", !.job = "work"]]
  BY TypeParts DEF Lease, RunState
<1>2. RunOf(a, "running", "work")
  BY <1>1, TypeParts, RunEffect DEF RunOf
<1> QED BY <1>2 DEF Lease, JobFrame

\* finalize_run: the row ends, unless something else ended it, and the task's tail begins.
LEMMA FinalizeEffect ==
    ASSUME TypeOK, NEW a \in Attempt, FinalizeRun(a)
    PROVE  /\ JobFrame /\ UNCHANGED <<box, streak, mislaid, faults>>
           /\ run[a].job = "work"
           /\ \/ run[a].st # "running" /\ RunOf(a, run[a].st, "none")
              \/ /\ run[a].st = "running"
                 /\ \E s \in {"done", "error", "timeout"} :
                      RunOf(a, s, IF OfEvent(a) THEN "receipt" ELSE "none")
<1>1. CASE run[a].st # "running" /\ JobGoes(a, "none")
  BY <1>1, TypeParts, JobGoesEffect DEF FinalizeRun, JobFrame, RunOf
<1>2. CASE run[a].st = "running"
  <2>1. PICK s \in {"done", "error", "timeout"} :
          run' = [run EXCEPT ![a].st = s, ![a].job = IF OfEvent(a) THEN "receipt" ELSE "none"]
    BY <1>2 DEF FinalizeRun
  <2> DEFINE j == IF OfEvent(a) THEN "receipt" ELSE "none"
  <2>2. run' = [run EXCEPT ![a].st = s, ![a].job = j] /\ j \in {"receipt", "none"}
    BY <2>1
  <2> HIDE DEF j
  <2>3. run' = [run EXCEPT ![a] = [run[a] EXCEPT !.st = s, !.job = j]]
    BY <2>2, TypeParts DEF RunState
  <2>4. /\ s \in {"none", "queued", "running"} \cup Ended
        /\ j \in {"none", "work", "failed", "receipt", "check", "letter"}
    BY <2>2 DEF Ended
  <2>5. RunOf(a, s, j)
    BY <2>3, <2>4, TypeParts, RunEffect DEF RunOf
  <2> QED BY <1>2, <2>5 DEF FinalizeRun, JobFrame, j
<1> QED BY <1>1, <1>2 DEF FinalizeRun

\* finalize_run fails: the task is gone and the row is as it was.
LEMMA FinalizeFailsEffect ==
    ASSUME TypeOK, NEW a \in Attempt, FinalizeRunFails(a)
    PROVE  /\ JobFrame /\ UNCHANGED <<box, streak, mislaid>>
           /\ run[a].job = "work" /\ RunOf(a, run[a].st, "failed")
           /\ faults < MaxFaults /\ faults' = faults + 1
BY TypeParts, JobGoesEffect DEF FinalizeRunFails, RunOf, JobFrame, MayFail

\* The receipt of the end is appended, and a failure asks for a streak check.
LEMMA RecordRunEndEffect ==
    ASSUME TypeOK, NEW a \in Attempt, RecordRunEnd(a)
    PROVE  /\ JobFrame /\ UNCHANGED <<box, mislaid, faults>>
           /\ run[a].job = "receipt"
           /\ RunOf(a, run[a].st, IF run[a].st = "done" THEN "none" ELSE "check")
           /\ streak' \in StreakState
           /\ streak'.receipts = Append(streak.receipts, run[a].st = "done")
           /\ streak'.floors = streak.floors /\ streak'.alerts = streak.alerts
           /\ streak'.blurred <=> streak.blurred \/ Pending # {}
<1>1. RunOf(a, run[a].st, IF run[a].st = "done" THEN "none" ELSE "check")
  BY TypeParts, JobGoesEffect DEF RecordRunEnd, RunOf
<1> DEFINE ok == (run[a].st = "done")
           bl == streak.blurred \/ \E b \in Attempt : run[b].job = "check"
<1>2. streak' = [streak EXCEPT !.receipts = Append(streak.receipts, ok), !.blurred = bl]
  BY DEF RecordRunEnd, TypeOK
<1>3. bl \in BOOLEAN /\ (bl <=> streak.blurred \/ Pending # {}) /\ ok \in BOOLEAN
  BY DEF Pending
<1>4. Append(streak.receipts, ok) \in Seq(BOOLEAN)
  BY <1>3 DEF TypeOK
<1> HIDE DEF ok, bl
<1>5. /\ streak' \in StreakState
      /\ streak'.receipts = Append(streak.receipts, ok)
      /\ streak'.floors = streak.floors /\ streak'.alerts = streak.alerts
      /\ streak'.blurred = bl
  BY <1>2, <1>3, <1>4 DEF TypeOK, StreakState
<1> QED BY <1>1, <1>3, <1>5 DEF RecordRunEnd, JobFrame, ok

\* The streak check alerts at exactly the threshold.
LEMMA AlertEffect ==
    ASSUME TypeOK, NEW a \in Attempt, AlertOnStreak(a)
    PROVE  /\ JobFrame /\ UNCHANGED <<box, mislaid, faults>>
           /\ run[a].job = "check"
           /\ RunOf(a, run[a].st, AfterReceipt(a))
           /\ streak' \in StreakState
           /\ streak'.receipts = streak.receipts /\ streak'.floors = streak.floors
           /\ streak'.blurred = streak.blurred
           /\ streak'.alerts = streak.alerts + (IF StreakOf = AlertStreak THEN 1 ELSE 0)
<1>1. RunOf(a, run[a].st, AfterReceipt(a))
  BY TypeParts, JobGoesEffect DEF AlertOnStreak, RunOf, AfterReceipt
<1> DEFINE n == streak.alerts + (IF StreakOf = AlertStreak THEN 1 ELSE 0)
<1>2. streak.alerts \in Nat
  BY DEF TypeOK
<1>3. n \in Nat /\ streak' = [streak EXCEPT !.alerts = n]
  <2>1. streak' = [streak EXCEPT !.alerts = IF StreakOf = AlertStreak THEN @ + 1 ELSE @]
    BY DEF AlertOnStreak
  <2> HIDE DEF StreakOf
  <2>2. CASE StreakOf = AlertStreak
    BY <1>2, <2>1, <2>2
  <2>3. CASE StreakOf # AlertStreak
    <3>1. n = streak.alerts
      BY <1>2, <2>3
    <3> QED BY <1>2, <2>1, <2>3, <3>1
  <2> QED BY <2>2, <2>3
<1> HIDE DEF n
<1>4. /\ streak' \in StreakState
      /\ streak'.receipts = streak.receipts /\ streak'.floors = streak.floors
      /\ streak'.blurred = streak.blurred /\ streak'.alerts = n
  BY <1>3 DEF TypeOK, StreakState
<1> QED BY <1>1, <1>4 DEF AlertOnStreak, JobFrame, n

\* The letter of a failed run is written into the ring.
LEMMA RecordErrorEffect ==
    ASSUME TypeOK, NEW a \in Attempt, RecordRunError(a)
    PROVE  /\ JobFrame /\ UNCHANGED <<streak, mislaid, faults>>
           /\ run[a].job = "letter" /\ RunOf(a, run[a].st, "none")
           /\ InsertDeadLetter(a)
BY TypeParts, JobGoesEffect DEF RecordRunError, RunOf, JobFrame

\* A database call of the task's tail fails and the step is skipped.
LEMMA RecordFailsEffect ==
    ASSUME TypeOK, NEW a \in Attempt, RecordFails(a)
    PROVE  /\ JobFrame /\ UNCHANGED box
           /\ run[a].job \in {"receipt", "check", "letter"}
           /\ RunOf(a, run[a].st, IF run[a].job = "letter" THEN "none" ELSE AfterReceipt(a))
           /\ streak' \in StreakState
           /\ streak'.receipts = streak.receipts /\ streak'.floors = streak.floors
           /\ streak'.alerts = streak.alerts
           /\ streak'.blurred <=> streak.blurred \/ run[a].job = "check"
           /\ mislaid' = IF run[a].job = "letter" THEN mislaid \cup {a} ELSE mislaid
           /\ faults < MaxFaults /\ faults' = faults + 1
<1> DEFINE j == IF run[a].job = "letter" THEN "none" ELSE AfterReceipt(a)
           bl == streak.blurred \/ run[a].job = "check"
<1>1. j \in {"none", "letter"} /\ bl \in BOOLEAN
  BY DEF AfterReceipt, TypeOK
<1>2. JobGoes(a, j) /\ streak' = [streak EXCEPT !.blurred = bl]
  BY DEF RecordFails, TypeOK
<1> HIDE DEF j, bl
<1>3. RunOf(a, run[a].st, j)
  BY <1>1, <1>2, TypeParts, JobGoesEffect DEF RunOf
<1>4. /\ streak' \in StreakState
      /\ streak'.receipts = streak.receipts /\ streak'.floors = streak.floors
      /\ streak'.alerts = streak.alerts /\ streak'.blurred = bl
  BY <1>1, <1>2 DEF TypeOK, StreakState
<1> QED BY <1>3, <1>4 DEF RecordFails, JobFrame, MayFail, j, bl

\* A reap ends a running row; its task goes on.
LEMMA ReapEffect ==
    ASSUME TypeOK, NEW a \in Attempt, Reap(a)
    PROVE  /\ JobFrame /\ UNCHANGED <<box, streak>>
           /\ run[a].st = "running" /\ RunOf(a, "error", run[a].job)
           /\ mislaid' = mislaid \cup {a}
           /\ faults < MaxFaults /\ faults' = faults + 1
<1> DEFINE j == run[a].job
<1>1. run' = [run EXCEPT ![a] = [run[a] EXCEPT !.st = "error", !.job = j]]
  BY TypeParts DEF Reap, RunState
<1>2. j \in {"none", "work", "failed", "receipt", "check", "letter"}
  BY TypeParts DEF RunState
<1> HIDE DEF j
<1>3. RunOf(a, "error", j)
  BY <1>1, <1>2, TypeParts, RunEffect DEF RunOf, Ended
<1> QED BY <1>3 DEF Reap, JobFrame, MayFail, j

\* A resume moves the floor of the streak to the newest receipt.
LEMMA ResumeEffect ==
    ASSUME TypeOK, Resume
    PROVE  /\ JobFrame /\ UNCHANGED <<run, box, mislaid, faults>>
           /\ streak' \in StreakState
           /\ streak'.receipts = streak.receipts /\ streak'.alerts = streak.alerts
           /\ streak'.floors = streak.floors \cup {Len(streak.receipts)}
           /\ streak'.blurred <=> streak.blurred \/ Pending # {}
<1> DEFINE fl == streak.floors \cup {Len(streak.receipts)}
           re == streak.resumes + 1
           bl == streak.blurred \/ \E b \in Attempt : run[b].job = "check"
<1>1. streak' = [streak EXCEPT !.floors = fl, !.resumes = re, !.blurred = bl]
  BY DEF Resume, TypeOK
<1>2. bl \in BOOLEAN /\ (bl <=> streak.blurred \/ Pending # {})
  BY DEF Pending
<1>3. fl \subseteq Nat /\ re \in 0..MaxResumes
  BY DeliveryAssumption DEF TypeOK, Resume
<1> HIDE DEF fl, re, bl
<1>4. /\ streak' \in StreakState
      /\ streak'.receipts = streak.receipts /\ streak'.alerts = streak.alerts
      /\ streak'.floors = fl /\ streak'.blurred = bl
  BY <1>1, <1>2, <1>3 DEF TypeOK, StreakState
<1> QED BY <1>2, <1>4 DEF Resume, JobFrame, fl

\* A crash loses requests and tasks, and the start that follows requeues or leaves running rows.
LEMMA CrashEffect ==
    ASSUME TypeOK, Crash
    PROVE  /\ UNCHANGED <<traffic, claim, inbox, box, lapses>>
           /\ req' \in [Attempt -> Request] /\ run' \in [Attempt -> RunState]
           /\ \A a \in Attempt :
                /\ req[a].pc \in Enqueuing => req'[a].pc = "lost"
                /\ req[a].pc \notin Enqueuing => req'[a] = req[a]
                /\ run'[a].job = "none"
                /\ run'[a].st = run[a].st \/ (run[a].st = "running" /\ run'[a].st = "queued")
           /\ streak' \in StreakState
           /\ streak'.receipts = streak.receipts /\ streak'.floors = streak.floors
           /\ streak'.alerts = streak.alerts
           /\ streak'.blurred <=> streak.blurred \/ Pending # {}
           /\ mislaid' = mislaid \cup {a \in Attempt : \/ req[a].pc \in OwingLetter
                                                       \/ run[a].job \in {"receipt", "check", "letter"}}
           /\ faults < MaxFaults /\ faults' = faults + 1
<1>1. /\ req' \in [Attempt -> Request]
      /\ \A a \in Attempt : /\ req[a].pc \in Enqueuing => req'[a].pc = "lost"
                            /\ req[a].pc \notin Enqueuing => req'[a] = req[a]
  <2>1. req' = [a \in Attempt |-> IF req[a].pc \in Enqueuing
                                   THEN [req[a] EXCEPT !.pc = "lost"] ELSE req[a]]
    BY DEF Crash
  <2>2. \A q \in Request : [q EXCEPT !.pc = "lost"] \in Request /\ [q EXCEPT !.pc = "lost"].pc = "lost"
    BY DEF Request, Pc, Answers
  <2> QED BY <2>1, <2>2, TypeParts
<1>2. ASSUME NEW a \in Attempt
      PROVE  /\ run'[a] \in RunState /\ run'[a].job = "none"
             /\ run'[a].st = run[a].st \/ (run[a].st = "running" /\ run'[a].st = "queued")
  <2> DEFINE s == IF run[a].st = "running" /\ ~run[a].retried THEN "queued" ELSE run[a].st
             r == run[a].retried \/ run[a].st = "running"
  <2>1. run'[a] = [run[a] EXCEPT !.job = "none", !.st = s, !.retried = r]
    BY TypeParts DEF Crash, RunState
  <2>2. /\ s \in {"none", "queued", "running"} \cup Ended
        /\ s = run[a].st \/ (run[a].st = "running" /\ s = "queued")
    BY TypeParts DEF RunState
  <2>3. r \in BOOLEAN
    BY DEF r
  <2> HIDE DEF s, r
  <2>4. run[a] \in RunState
    BY TypeParts
  <2>5. run'[a] \in RunState /\ run'[a].job = "none" /\ run'[a].st = s
    BY <2>1, <2>2, <2>3, <2>4 DEF RunState
  <2> QED BY <2>2, <2>5
<1>3. run' \in [Attempt -> RunState]
  <2>1. DOMAIN run' = Attempt /\ run' = [a \in Attempt |-> run'[a]]
    BY DEF Crash
  <2> QED BY <1>2, <2>1
<1> DEFINE bl == streak.blurred \/ \E b \in Attempt : run[b].job = "check"
<1>4. bl \in BOOLEAN /\ (bl <=> streak.blurred \/ Pending # {})
  BY DEF Pending
<1>5. streak' = [streak EXCEPT !.blurred = bl]
  BY DEF Crash, TypeOK
<1> HIDE DEF bl
<1>6. /\ streak' \in StreakState
      /\ streak'.receipts = streak.receipts /\ streak'.floors = streak.floors
      /\ streak'.alerts = streak.alerts /\ streak'.blurred = bl
  BY <1>4, <1>5 DEF TypeOK, StreakState
<1> QED BY <1>1, <1>2, <1>3, <1>4, <1>6 DEF Crash, MayFail

\* The dedupe window of a key ends and its claim is gone.
LEMMA LapseEffect ==
    ASSUME TypeOK, NEW k \in Key, Lapse(k)
    PROVE  /\ claim[k] \in Attempt /\ claim' = [claim EXCEPT ![k] = NoAttempt]
           /\ lapses' = [lapses EXCEPT ![k] = lapses[k] + 1] /\ lapses[k] + 1 \in 0..MaxLapses
           /\ UNCHANGED <<traffic, req, run, inbox, box, streak, mislaid, faults>>
<1>1. claim[k] \in Attempt \cup {NoAttempt} /\ lapses[k] \in 0..MaxLapses /\ MaxLapses \in Nat
  BY TypeParts, DeliveryAssumption
<1>2. lapses[k] < MaxLapses
  BY DEF Lapse, MayLapse
<1> QED BY <1>1, <1>2, TypeParts DEF Lapse

-----------------------------------------------------------------------------
(* Types.                                                                  *)

\* The conjuncts of TypeOK that a step has to establish.
LEMMA TypeFrom ==
    ASSUME traffic' = traffic, traffic \in Traffic, claim' \in [Key -> Attempt \cup {NoAttempt}],
           req' \in [Attempt -> Request], run' \in [Attempt -> RunState], inbox' \subseteq Attempt,
           box' \in Box, Len(box'.ring) <= LettersMax, streak' \in StreakState,
           streak'.floors \subseteq 0..Len(streak'.receipts),
           lapses' \in [Key -> 0..MaxLapses], mislaid' \subseteq Attempt, faults' \in 0..MaxFaults
    PROVE  TypeOK'
BY DEF TypeOK, Request, Pc, RunState, Box, StreakState

\* A request step keeps the types.
LEMMA RequestTypeStep ==
    ASSUME TypeOK, NEW a \in Attempt,
           \/ Refuse(a) \/ Deliver(a) \/ RequestStep(a) \/ RequestFails(a)
           \/ Replay(a) \/ ReplayRun(a) \/ ReplayWebhookRow(a)
    PROVE  TypeOK'
<1>0. /\ traffic \in Traffic /\ claim \in [Key -> Attempt \cup {NoAttempt}]
      /\ run \in [Attempt -> RunState] /\ inbox \subseteq Attempt
      /\ box \in Box /\ Len(box.ring) <= LettersMax /\ streak \in StreakState
      /\ streak.floors \subseteq 0..Len(streak.receipts)
      /\ lapses \in [Key -> 0..MaxLapses] /\ faults \in 0..MaxFaults /\ MaxFaults \in Nat
      /\ mislaid \subseteq Attempt
  BY TypeParts, DeliveryAssumption DEF TypeOK, StreakState
<1>1. CASE Refuse(a)
  BY <1>0, <1>1, RefuseEffect, TypeFrom DEF RequestOf
<1>2. CASE Deliver(a)
  <2>1. claim' \in [Key -> Attempt \cup {NoAttempt}]
    BY <1>0, <1>2, DeliverEffect
  <2>2. /\ req' \in [Attempt -> Request] /\ traffic' = traffic
        /\ UNCHANGED <<run, inbox, box, mislaid, faults, streak, lapses>>
    BY <1>2, DeliverEffect DEF RequestOf
  <2> QED BY <1>0, <2>1, <2>2, TypeFrom
<1>3. CASE Store(a)
  BY <1>0, <1>3, StoreEffect, TypeFrom DEF RequestOf
<1>4. CASE Count(a)
  BY <1>0, <1>4, CountEffect, TypeFrom DEF RequestOf
<1>5. CASE InsertQueuedRun(a)
  BY <1>0, <1>5, InsertQueuedEffect, TypeFrom DEF RequestOf, RunOf
<1>6. CASE InsertRejectedRun(a)
  BY <1>0, <1>6, InsertRejectedEffect, TypeFrom DEF RequestOf, RunOf
<1>7. CASE RequestLetter(a)
  BY <1>0, <1>7, RequestLetterEffect, LetterType, TypeFrom DEF RequestOf
<1>8. CASE RequestFails(a)
  BY <1>0, <1>8, RequestFailsEffect, TypeFrom DEF RequestOf
<1>9. CASE Replay(a) \/ ReplayRun(a) \/ ReplayWebhookRow(a)
  BY <1>0, <1>9, ReplayEffect, TypeFrom DEF RequestOf
<1>10. CASE SetDeadLetterReplayed(a)
  BY <1>0, <1>10, MarkEffect, TypeFrom DEF RequestOf
<1> QED BY <1>1, <1>2, <1>3, <1>4, <1>5, <1>6, <1>7, <1>8, <1>9, <1>10 DEF RequestStep

\* So does a step of the executor, a resume, the end of a window, and a crash.
LEMMA TypeStep == TypeOK /\ [Next]_vars => TypeOK'
<1> SUFFICES ASSUME TypeOK, [Next]_vars
             PROVE  TypeOK'
  OBVIOUS
<1>0. /\ traffic \in Traffic /\ claim \in [Key -> Attempt \cup {NoAttempt}]
      /\ req \in [Attempt -> Request] /\ run \in [Attempt -> RunState] /\ inbox \subseteq Attempt
      /\ box \in Box /\ Len(box.ring) <= LettersMax /\ streak \in StreakState
      /\ streak.floors \subseteq 0..Len(streak.receipts)
      /\ lapses \in [Key -> 0..MaxLapses] /\ faults \in 0..MaxFaults /\ MaxFaults \in Nat
      /\ mislaid \subseteq Attempt
  BY TypeParts, DeliveryAssumption DEF TypeOK, StreakState
<1>1. ASSUME NEW a \in Attempt,
             \/ Refuse(a) \/ Deliver(a) \/ RequestStep(a) \/ RequestFails(a)
             \/ Replay(a) \/ ReplayRun(a) \/ ReplayWebhookRow(a)
      PROVE  TypeOK'
  BY <1>1, RequestTypeStep
<1>2. ASSUME NEW a \in Attempt, Lease(a)
      PROVE  TypeOK'
  BY <1>0, <1>2, LeaseEffect, TypeFrom DEF JobFrame, RunOf
<1>3. ASSUME NEW a \in Attempt, FinalizeRun(a)
      PROVE  TypeOK'
  BY <1>0, <1>3, FinalizeEffect, TypeFrom DEF JobFrame, RunOf
<1>4. ASSUME NEW a \in Attempt, RecordRunEnd(a)
      PROVE  TypeOK'
  <2>1. streak' \in StreakState /\ streak'.floors = streak.floors
        /\ streak'.receipts = Append(streak.receipts, run[a].st = "done")
    BY <1>4, RecordRunEndEffect
  <2>2. streak.receipts \in Seq(BOOLEAN)
    BY DEF TypeOK
  <2>3. Len(streak'.receipts) = Len(streak.receipts) + 1
    BY <2>1, <2>2
  <2>4. streak'.floors \subseteq 0..Len(streak'.receipts)
    BY <1>0, <2>1, <2>2, <2>3
  <2> QED BY <1>0, <1>4, <2>1, <2>4, RecordRunEndEffect, TypeFrom DEF JobFrame, RunOf
<1>5. ASSUME NEW a \in Attempt, AlertOnStreak(a)
      PROVE  TypeOK'
  BY <1>0, <1>5, AlertEffect, TypeFrom DEF JobFrame, RunOf
<1>6. ASSUME NEW a \in Attempt, RecordRunError(a)
      PROVE  TypeOK'
  BY <1>0, <1>6, RecordErrorEffect, LetterType, TypeFrom DEF JobFrame, RunOf
<1>7. ASSUME NEW a \in Attempt, RecordFails(a)
      PROVE  TypeOK'
  BY <1>0, <1>7, RecordFailsEffect, TypeFrom DEF JobFrame, RunOf
<1>8. ASSUME NEW a \in Attempt, Reap(a)
      PROVE  TypeOK'
  BY <1>0, <1>8, ReapEffect, TypeFrom DEF JobFrame, RunOf
<1>9. ASSUME NEW k \in Key, Lapse(k)
      PROVE  TypeOK'
  BY <1>0, <1>9, LapseEffect, TypeFrom
<1>10. CASE Resume
  <2>1. Len(streak.receipts) \in Nat
    BY DEF TypeOK
  <2>2. streak'.floors \subseteq 0..Len(streak'.receipts)
    BY <1>0, <1>10, <2>1, ResumeEffect
  <2> QED BY <1>0, <1>10, <2>2, ResumeEffect, TypeFrom DEF JobFrame
<1>11. CASE Crash
  BY <1>0, <1>11, CrashEffect, TypeFrom
<1>12. CASE UNCHANGED vars
  BY <1>0, <1>12, TypeFrom DEF vars
<1>13. ASSUME NEW a \in Attempt, FinalizeRunFails(a)
       PROVE  TypeOK'
  BY <1>0, <1>13, FinalizeFailsEffect, TypeFrom DEF JobFrame, RunOf
<1> QED
  BY <1>1, <1>2, <1>3, <1>4, <1>5, <1>6, <1>7, <1>8, <1>9, <1>10, <1>11, <1>12, <1>13 DEF Next, JobStep

\* The first state is well typed.
LEMMA TypeInit == Init => TypeOK
<1> SUFFICES ASSUME Init
             PROVE  TypeOK
  OBVIOUS
<1>1. req \in [Attempt -> [pc : {"idle"} \cup Enqueuing \cup Answers, named : Attempt \cup {NoAttempt}]]
  BY DEF Init
<1>2. run \in [Attempt -> [st : {"none", "queued", "running"} \cup Ended,
                          job : {"none", "work", "failed", "receipt", "check", "letter"},
                          retried : BOOLEAN]]
  BY DEF Init
<1>3. box \in [ring : Seq(Attempt), dropped : Nat, written : Seq(Attempt)] /\ Len(box.ring) <= LettersMax
  BY DeliveryAssumption DEF Init
<1>4. /\ streak \in [receipts : Seq(BOOLEAN), floors : SUBSET Nat, alerts : Nat,
                     resumes : 0..MaxResumes, blurred : BOOLEAN]
      /\ streak.floors \subseteq 0..Len(streak.receipts)
  BY DeliveryAssumption DEF Init
<1>5. /\ traffic \in Traffic /\ claim \in [Key -> Attempt \cup {NoAttempt}]
      /\ inbox \subseteq Attempt /\ lapses \in [Key -> 0..MaxLapses] /\ faults \in 0..MaxFaults
      /\ mislaid \subseteq Attempt
  BY DeliveryAssumption DEF Init
<1> QED BY <1>1, <1>2, <1>3, <1>4, <1>5 DEF TypeOK

\* Type correctness of requests, claims, runs, the ring of letters (never longer than
\* the plan's dead_letters_max) and the receipts.
THEOREM TypeCorrect == Spec => []TypeOK
BY TypeInit, TypeStep, PTL DEF Spec

-----------------------------------------------------------------------------
(* Claims, runs and answers.                                               *)

\* No step but a claim touches an attempt anew, and none takes back what stands for a
\* delivery: then the claims of all keys stay as they should be.
LEMMA ClaimsKept ==
    ASSUME TypeOK, \A k \in Key : ClaimOK(k),
           UNCHANGED <<traffic, claim, lapses>>,
           \A n \in Attempt : Standing(n) => Standing(n)',
           \A n \in Attempt : traffic[n].route \in Delivery /\ Touch(n)' => Touch(n)
    PROVE  (\A k \in Key : ClaimOK(k))'
<1> SUFFICES ASSUME NEW k \in Key
             PROVE  ClaimOK(k)'
  OBVIOUS
<1>0. ClaimOK(k) /\ claim[k] \in Attempt \cup {NoAttempt}
  BY TypeParts
<1> DEFINE S == Touched(k)
           T == Touched(k)'
<1>1. T \subseteq S /\ S \subseteq Attempt
  BY DEF Touched
<1>2. Cardinality(S) <= lapses[k] + (IF claim[k] = NoAttempt THEN 0 ELSE 1)
  BY <1>0 DEF ClaimOK
<1>3. claim'[k] = claim[k] /\ lapses'[k] = lapses[k] /\ lapses[k] \in Nat
  BY TypeParts, DeliveryAssumption
<1> HIDE DEF S, T
<1>4. Cardinality(T) <= Cardinality(S) /\ Cardinality(T) \in Nat /\ Cardinality(S) \in Nat
  BY <1>1, DeliveryAssumption, FS_Subset, FS_CardinalityType
<1>5. Cardinality(T) <= lapses'[k] + (IF claim'[k] = NoAttempt THEN 0 ELSE 1)
  BY <1>2, <1>3, <1>4
<1>6. claim[k] # NoAttempt => Standing(claim[k])'
  <2> SUFFICES ASSUME claim[k] # NoAttempt
               PROVE  Standing(claim[k])'
    OBVIOUS
  <2>1. PICK n \in Attempt : n = claim[k] /\ Standing(n)
    BY <1>0 DEF ClaimOK
  <2>2. Standing(n)' /\ claim'[k] = n
    BY <1>3, <2>1
  <2> QED BY <2>2 DEF Standing
<1>7. (claim[k] # NoAttempt)' => Standing(claim[k])'
  BY <1>3, <1>6
<1> QED BY <1>5, <1>7 DEF ClaimOK, T

\* Another request's answer stays true as long as nothing that stands is taken back.
LEMMA OthersKept ==
    ASSUME TypeOK, NEW b \in Attempt, RequestOK(b), req'[b] = req[b],
           run'[b].st = "none" <=> run[b].st = "none", b \in inbox => b \in inbox',
           \A n \in Attempt : Standing(n) => Standing(n)'
    PROVE  RequestOK(b)'
BY DEF RequestOK

\* Every request step but a claim: what stands, stands, and nothing new is touched.
LEMMA RequestKeeps ==
    ASSUME TypeOK, RequestInv, NEW a \in Attempt, NEW p \in Pc, RequestOf(a, p),
           UNCHANGED claim, inbox \subseteq inbox', inbox' \subseteq inbox \cup {a},
           \A b \in Attempt : b # a => run'[b] = run[b],
           run[a].st # "none" => run'[a].st # "none",
           Standing(a) => Standing(a)',
           traffic[a].route \in Delivery /\ Touch(a)' => Touch(a),
           RequestOK(a)'
    PROVE  RequestInv'
<1>1. \A n \in Attempt : n # a => (Standing(n) <=> Standing(n)') /\ (Touch(n) <=> Touch(n)')
  BY DEF RequestOf, Standing, Touch
<1>2. \A n \in Attempt : Standing(n) => Standing(n)'
  BY <1>1
<1>3. \A n \in Attempt : traffic[n].route \in Delivery /\ Touch(n)' => Touch(n)
  BY <1>1
<1>4. (\A k \in Key : ClaimOK(k))'
  BY <1>2, <1>3, ClaimsKept DEF RequestInv, RequestOf
<1>5. ASSUME NEW b \in Attempt PROVE RequestOK(b)'
  <2>1. CASE b # a
    BY <1>2, <2>1, OthersKept DEF RequestInv, RequestOf
  <2> QED BY <2>1
<1> QED BY <1>4, <1>5 DEF RequestInv

\* Deliver: a duplicate is answered with what stands for the claim; a claim touches
\* one more attempt of the key, in a window that had none.
LEMMA DeliverKeeps ==
    ASSUME TypeOK, TypeOK', RequestInv, NEW a \in Attempt, Deliver(a)
    PROVE  RequestInv'
<1>k. PICK k \in Key : k = traffic[a].key
  BY TypeParts
<1>0. k \in Key /\ req[a].pc = "idle" /\ UNCHANGED <<run, inbox>> /\ UNCHANGED <<traffic, lapses>>
  BY TypeParts, DeliverEffect DEF RequestOf
<1>1. run[a].st = "none"
  BY <1>0 DEF RequestInv, RequestOK, Early
<1>2. CASE claim[k] \in Attempt /\ RequestOf(a, "duplicate") /\ req'[a].named = claim[k] /\ claim' = claim
  <2>1. Standing(claim[k])
    BY <1>0, <1>2, DeliveryAssumption DEF RequestInv, ClaimOK
  <2>c. PICK c \in Attempt : c = claim[k]
    BY <1>2
  <2>3. Standing(a) => Standing(a)'
    BY <1>0, <1>2 DEF Standing, RequestOf
  <2>2. c # a => (Standing(c) => Standing(c)')
    BY <1>0, <1>2 DEF Standing, RequestOf
  <2>4. Standing(c)' /\ req'[a].named = c
    BY <1>2, <2>c, <2>1, <2>2, <2>3
  <2>5. RequestOK(a)'
    <3>1. req'[a].pc = "duplicate"
      BY <1>2 DEF RequestOf
    <3>2. Standing(req[a].named)'
      BY <2>4 DEF Standing
    <3> QED BY <1>0, <1>1, <2>4, <3>1, <3>2 DEF RequestOK
  <2>6. Touch(a)' => Touch(a)
    BY <1>0, <1>2 DEF Touch, RequestOf
  <2>7. "duplicate" \in Pc
    BY DEF Pc, Answers
  <2> QED BY <1>0, <1>2, <2>3, <2>5, <2>6, <2>7, RequestKeeps
<1>3. CASE /\ claim[k] = NoAttempt /\ claim' = [claim EXCEPT ![k] = a]
           /\ RequestOf(a, IF IsWebhook(a) THEN "store" ELSE "count")
  <2>0. req'[a].pc \in {"store", "count"} /\ \A b \in Attempt : b # a => req'[b] = req[b]
    BY <1>3 DEF RequestOf
  <2>1. \A n \in Attempt : n # a => (Standing(n) <=> Standing(n)') /\ (Touch(n) <=> Touch(n)')
    BY <1>0, <2>0 DEF Standing, Touch
  <2>2. Standing(a)'
    BY <2>0 DEF Standing
  <2>3. ASSUME NEW b \in Attempt PROVE RequestOK(b)'
    <3>1. CASE b = a
      BY <1>0, <1>1, <2>0, <3>1 DEF RequestOK
    <3>2. CASE b # a
      BY <1>0, <2>0, <2>1, <2>2, <3>2, OthersKept DEF RequestInv
    <3> QED BY <3>1, <3>2
  <2>4. ASSUME NEW l \in Key, l # k
        PROVE  ClaimOK(l)'
    <3>1. claim'[l] = claim[l] /\ lapses' = lapses /\ claim[l] \in Attempt \cup {NoAttempt}
      BY <1>0, <1>3, <2>4, TypeParts
    <3>2. Touched(l)' = Touched(l)
      BY <1>0, <1>k, <2>1, <2>4 DEF Touched
    <3>3. claim[l] # NoAttempt => Standing(claim[l])'
      BY <2>1, <2>2, <3>1 DEF RequestInv, ClaimOK
    <3> QED BY <3>1, <3>2, <3>3 DEF RequestInv, ClaimOK
  <2>5. ClaimOK(k)'
    <3> DEFINE S == Touched(k)
               T == Touched(k)'
    <3>1. T \subseteq S \cup {a} /\ S \subseteq Attempt
      BY <1>0, <2>1 DEF Touched
    <3>2. Cardinality(S) <= lapses[k] + 0
      BY <1>0, <1>3 DEF RequestInv, ClaimOK
    <3>3. claim'[k] = a /\ claim'[k] # NoAttempt /\ lapses'[k] = lapses[k] /\ lapses[k] \in Nat
      BY <1>0, <1>3, TypeParts, DeliveryAssumption
    <3> HIDE DEF S, T
    <3>4. IsFiniteSet(S) /\ Cardinality(S) \in Nat
      BY <3>1, DeliveryAssumption, FS_Subset, FS_CardinalityType
    <3>5. IsFiniteSet(S \cup {a}) /\ Cardinality(S \cup {a}) <= Cardinality(S) + 1
      <4>1. /\ IsFiniteSet(S \cup {a})
            /\ Cardinality(S \cup {a}) = (IF a \in S THEN Cardinality(S) ELSE Cardinality(S) + 1)
        BY <3>4, FS_AddElement
      <4> QED BY <3>4, <4>1
    <3>6. Cardinality(T) <= Cardinality(S \cup {a}) /\ Cardinality(T) \in Nat
          /\ Cardinality(S \cup {a}) \in Nat
      BY <3>1, <3>5, FS_Subset, FS_CardinalityType
    <3>7. Cardinality(T) <= lapses'[k] + (IF claim'[k] = NoAttempt THEN 0 ELSE 1)
      BY <3>2, <3>3, <3>4, <3>5, <3>6
    <3> QED BY <2>2, <3>3, <3>7 DEF ClaimOK, T
  <2>6. ASSUME NEW l \in Key PROVE ClaimOK(l)'
    BY <2>4, <2>5
  <2> QED BY <2>3, <2>6 DEF RequestInv
<1> QED BY <1>k, <1>2, <1>3, DeliverEffect

\* The end of a dedupe window moves the claim into the count of windows.
LEMMA LapseKeeps ==
    ASSUME TypeOK, RequestInv, NEW k \in Key, Lapse(k)
    PROVE  RequestInv'
<1>0. /\ claim[k] \in Attempt /\ claim' = [claim EXCEPT ![k] = NoAttempt]
      /\ lapses' = [lapses EXCEPT ![k] = lapses[k] + 1]
      /\ UNCHANGED <<traffic, req, run, inbox>>
  BY LapseEffect
<1>1. \A n : (Standing(n) <=> Standing(n)') /\ (Touch(n) <=> Touch(n)')
  BY <1>0 DEF Standing, Touch
<1>2. ASSUME NEW b \in Attempt PROVE RequestOK(b)'
  BY <1>0, <1>1 DEF RequestInv, RequestOK
<1>3. ASSUME NEW l \in Key PROVE ClaimOK(l)'
  <2>1. Touched(l)' = Touched(l)
    BY <1>0, <1>1 DEF Touched
  <2>2. claim \in [Key -> Attempt \cup {NoAttempt}] /\ lapses[l] \in Nat /\ ClaimOK(l)
        /\ lapses \in [Key -> 0..MaxLapses] /\ NoAttempt \notin Attempt
    BY TypeParts, DeliveryAssumption DEF RequestInv
  <2>3. CASE l = k
    <3>1. claim'[l] = NoAttempt /\ lapses'[l] = lapses[l] + 1 /\ claim[l] # NoAttempt
      BY <1>0, <2>2, <2>3
    <3>2. Cardinality(Touched(l)) <= lapses[l] + 1
      BY <2>2, <3>1 DEF ClaimOK
    <3>3. Cardinality(Touched(l)') <= lapses'[l] + 0
      BY <2>1, <2>2, <3>1, <3>2
    <3> QED BY <3>1, <3>3 DEF ClaimOK
  <2>4. CASE l # k
    <3>1. claim'[l] = claim[l] /\ lapses'[l] = lapses[l]
      BY <1>0, <2>2, <2>4
    <3>2. claim[l] # NoAttempt => Standing(claim[l])'
      BY <1>0, <2>2, <3>1 DEF ClaimOK, Standing
    <3> QED BY <2>1, <2>2, <3>1, <3>2 DEF ClaimOK
  <2> QED BY <2>3, <2>4
<1> QED BY <1>2, <1>3 DEF RequestInv

\* What the executor, a resume or a crash do to runs: none appears or disappears.
LEMMA RunsKeep ==
    ASSUME TypeOK, RequestInv, UNCHANGED <<traffic, claim, inbox, lapses>>,
           \A a \in Attempt :
             /\ run'[a].st = "none" <=> run[a].st = "none"
             /\ \/ req'[a] = req[a]
                \/ req[a].pc \in Enqueuing /\ req'[a].pc = "lost"
    PROVE  RequestInv'
<1>1. \A n \in Attempt : Standing(n) => Standing(n)'
  BY DEF Standing, Enqueuing
<1>2. \A n \in Attempt : Touch(n)' => Touch(n)
  BY DEF Touch
<1>3. (\A k \in Key : ClaimOK(k))'
  BY <1>1, <1>2, ClaimsKept DEF RequestInv
<1>4. ASSUME NEW b \in Attempt PROVE RequestOK(b)'
  <2>1. CASE req'[b] = req[b]
    BY <1>1, <2>1, OthersKept DEF RequestInv
  <2>2. CASE req'[b].pc = "lost"
    BY <2>2 DEF RequestOK, Early
  <2> QED BY <2>1, <2>2
<1> QED BY <1>3, <1>4 DEF RequestInv

\* RequestInv is inductive.
LEMMA RequestStepKeeps == TypeOK /\ TypeOK' /\ RequestInv /\ [Next]_vars => RequestInv'
<1> SUFFICES ASSUME TypeOK, TypeOK', RequestInv, [Next]_vars
             PROVE  RequestInv'
  OBVIOUS
<1>0. \A b \in Attempt : RequestOK(b)
  BY DEF RequestInv
<1>p. \A p \in {"idle"} \cup Enqueuing \cup Answers : p \in Pc
  BY DEF Pc
<1>1. ASSUME NEW a \in Attempt, Refuse(a)
      PROVE  RequestInv'
  <2>1. /\ req[a].pc = "idle" /\ UNCHANGED <<claim, run, inbox>>
        /\ RequestOf(a, IF IsWebhook(a) THEN "refused" ELSE "refuse_letter")
    BY <1>1, RefuseEffect
  <2>2. PICK p \in {"refused", "refuse_letter"} : RequestOf(a, p)
    BY <2>1
  <2>3. RequestOK(a)' /\ (Standing(a) => Standing(a)') /\ (Touch(a)' => Touch(a))
    BY <1>0, <2>1, <2>2 DEF RequestOK, Standing, Touch, Early, RequestOf
  <2>4. p \in Pc
    BY DEF Pc, Enqueuing, Answers
  <2> QED BY <2>1, <2>2, <2>3, <2>4, RequestKeeps
<1>2. ASSUME NEW a \in Attempt, Deliver(a)
      PROVE  RequestInv'
  BY <1>2, DeliverKeeps
<1>3. ASSUME NEW a \in Attempt, Store(a)
      PROVE  RequestInv'
  <2>1. /\ req[a].pc = "store" /\ UNCHANGED <<claim, run>>
        /\ \/ inbox' = inbox \cup {a} /\ RequestOf(a, "count")
           \/ inbox' = inbox \cup {a} /\ RequestOf(a, "accepted") /\ req'[a].named = a
           \/ inbox' = inbox /\ RequestOf(a, "error")
    BY <1>3, StoreEffect
  <2>2. PICK p \in {"count", "accepted", "error"} : RequestOf(a, p)
    BY <2>1
  <2>3. RequestOK(a)' /\ (Standing(a) => Standing(a)') /\ (Touch(a)' => Touch(a))
    BY <1>0, <2>1, <2>2 DEF RequestOK, Standing, Touch, Early, RequestOf
  <2>4. p \in Pc
    BY DEF Pc, Enqueuing, Answers
  <2> QED BY <2>1, <2>2, <2>3, <2>4, RequestKeeps
<1>4. ASSUME NEW a \in Attempt, Count(a)
      PROVE  RequestInv'
  <2>1. /\ req[a].pc = "count" /\ UNCHANGED <<claim, run, inbox>>
        /\ RequestOf(a, "reject") \/ RequestOf(a, "queue")
    BY <1>4, CountEffect
  <2>2. PICK p \in {"reject", "queue"} : RequestOf(a, p)
    BY <2>1
  <2>3. RequestOK(a)' /\ (Standing(a) => Standing(a)') /\ (Touch(a)' => Touch(a))
    BY <1>0, <2>1, <2>2 DEF RequestOK, Standing, Touch, Early, RequestOf
  <2>4. p \in Pc
    BY DEF Pc, Enqueuing, Answers
  <2> QED BY <2>1, <2>2, <2>3, <2>4, RequestKeeps
<1>5. ASSUME NEW a \in Attempt, InsertQueuedRun(a)
      PROVE  RequestInv'
  <2>1. /\ req[a].pc = "queue" /\ UNCHANGED <<claim, inbox>>
        /\ RunOf(a, "queued", run[a].job)
        /\ \/ RequestOf(a, "mark")
           \/ RequestOf(a, "accepted") /\ req'[a].named = a
    BY <1>5, InsertQueuedEffect
  <2>2. PICK p \in {"mark", "accepted"} : RequestOf(a, p)
    BY <2>1
  <2>3. RequestOK(a)' /\ (Standing(a) => Standing(a)') /\ (Touch(a)' => Touch(a))
    BY <1>0, <2>1, <2>2 DEF RequestOK, Standing, Touch, Early, RequestOf, RunOf
  <2>4. p \in Pc
    BY DEF Pc, Enqueuing, Answers
  <2> QED BY <2>1, <2>2, <2>3, <2>4, RequestKeeps DEF RunOf
<1>6. ASSUME NEW a \in Attempt, InsertRejectedRun(a)
      PROVE  RequestInv'
  <2>1. /\ req[a].pc = "reject" /\ UNCHANGED <<claim, inbox>> /\ RunOf(a, "rejected", run[a].job)
        /\ \/ RequestOf(a, "reject_letter")
           \/ RequestOf(a, "mark")
           \/ RequestOf(a, "accepted") /\ req'[a].named = a
    BY <1>6, InsertRejectedEffect
  <2>2. PICK p \in {"reject_letter", "mark", "accepted"} : RequestOf(a, p)
    BY <2>1
  <2>3. RequestOK(a)' /\ (Standing(a) => Standing(a)') /\ (Touch(a)' => Touch(a))
    BY <1>0, <2>1, <2>2 DEF RequestOK, Standing, Touch, Early, RequestOf, RunOf
  <2>4. p \in Pc
    BY DEF Pc, Enqueuing, Answers
  <2> QED BY <2>1, <2>2, <2>3, <2>4, RequestKeeps DEF RunOf
<1>7. ASSUME NEW a \in Attempt, RequestLetter(a) \/ SetDeadLetterReplayed(a) \/ RequestFails(a)
      PROVE  RequestInv'
  <2>1. /\ UNCHANGED <<claim, run, inbox>>
        /\ \/ /\ req[a].pc \in {"reject_letter", "mark"}
              /\ RequestOf(a, "accepted") /\ req'[a].named = a
           \/ req[a].pc = "refuse_letter" /\ RequestOf(a, "refused")
           \/ /\ req[a].pc \in {"store", "count", "queue", "reject", "mark"}
              /\ RequestOf(a, "error")
    BY <1>7, RequestLetterEffect, MarkEffect, RequestFailsEffect
  <2>2. PICK p \in {"accepted", "refused", "error"} : RequestOf(a, p)
    BY <2>1
  <2>3. RequestOK(a)' /\ (Standing(a) => Standing(a)') /\ (Touch(a)' => Touch(a))
    BY <1>0, <2>1, <2>2 DEF RequestOK, Standing, Touch, Early, RequestOf
  <2>4. p \in Pc
    BY DEF Pc, Answers
  <2> QED BY <2>1, <2>2, <2>3, <2>4, RequestKeeps
<1>8. ASSUME NEW a \in Attempt, Replay(a) \/ ReplayRun(a) \/ ReplayWebhookRow(a)
      PROVE  RequestInv'
  <2>1. /\ req[a].pc = "idle" /\ traffic[a].route \notin Delivery /\ UNCHANGED <<claim, run, inbox>>
        /\ RequestOf(a, "count") \/ RequestOf(a, "queue")
    BY <1>8, ReplayEffect
  <2>2. PICK p \in {"count", "queue"} : RequestOf(a, p)
    BY <2>1
  <2>3. RequestOK(a)' /\ (Standing(a) => Standing(a)')
    BY <1>0, <2>1, <2>2 DEF RequestOK, Standing, Early, RequestOf
  <2>4. p \in Pc
    BY DEF Pc, Enqueuing
  <2> QED BY <2>1, <2>2, <2>3, <2>4, RequestKeeps
<1>9. ASSUME NEW a \in Attempt, Lease(a) \/ JobStep(a) \/ FinalizeRunFails(a) \/ RecordFails(a) \/ Reap(a)
      PROVE  RequestInv'
  <2>1. JobFrame /\ \E s, j : RunOf(a, s, j) /\ (s = "none" <=> run[a].st = "none")
    <3>1. CASE Lease(a) \/ Reap(a)
      BY <3>1, LeaseEffect, ReapEffect
    <3>2. CASE FinalizeRun(a) \/ FinalizeRunFails(a)
      BY <3>2, FinalizeEffect, FinalizeFailsEffect
    <3>3. CASE RecordRunEnd(a) \/ AlertOnStreak(a)
      BY <3>3, RecordRunEndEffect, AlertEffect
    <3>4. CASE RecordRunError(a) \/ RecordFails(a)
      BY <3>4, RecordErrorEffect, RecordFailsEffect
    <3> QED BY <1>9, <3>1, <3>2, <3>3, <3>4 DEF JobStep
  <2>2. \A b \in Attempt : run'[b].st = "none" <=> run[b].st = "none"
    BY <2>1 DEF RunOf
  <2> QED BY <2>1, <2>2, RunsKeep DEF JobFrame
<1>10. ASSUME NEW k \in Key, Lapse(k)
       PROVE  RequestInv'
  BY <1>10, LapseKeeps
<1>11. CASE Resume
  BY <1>11, ResumeEffect, RunsKeep DEF JobFrame
<1>12. CASE Crash
  <2>1. \A b \in Attempt :
          /\ run'[b].st = "none" <=> run[b].st = "none"
          /\ req'[b] = req[b] \/ (req[b].pc \in Enqueuing /\ req'[b].pc = "lost")
    BY <1>12, CrashEffect
  <2> QED BY <1>12, <2>1, CrashEffect, RunsKeep
<1>13. CASE UNCHANGED vars
  BY <1>13, RunsKeep DEF vars
<1> QED
  BY <1>1, <1>2, <1>3, <1>4, <1>5, <1>6, <1>7, <1>8, <1>9, <1>10, <1>11, <1>12, <1>13
  DEF Next, RequestStep

\* At the start nothing is claimed and nobody has a run.
LEMMA RequestInit == Init => RequestInv
<1> SUFFICES ASSUME Init
             PROVE  RequestInv
  OBVIOUS
<1>1. ASSUME NEW b \in Attempt PROVE RequestOK(b)
  BY DEF Init, RequestOK
<1>2. ASSUME NEW k \in Key PROVE ClaimOK(k)
  <2>1. Touched(k) = {}
    BY DEF Init, Touched, Touch
  <2> QED BY <2>1, FS_EmptySet DEF Init, ClaimOK
<1> QED BY <1>1, <1>2 DEF RequestInv

\* hooks.rs and webhooks.rs, claim then store then enqueue: every answer and every claim
\* is backed by a run, a stored row or a request on its way, at every moment.
THEOREM RequestInvHolds == Spec => [](TypeOK /\ RequestInv)
<1>1. Init => TypeOK /\ RequestInv
  BY TypeInit, RequestInit
<1>2. TypeOK /\ RequestInv /\ [Next]_vars => (TypeOK /\ RequestInv)'
  BY TypeStep, RequestStepKeeps
<1> QED BY <1>1, <1>2, PTL DEF Spec

\* However often a sender repeats a delivery and wherever the host crashes, a key fires
\* at most one run and stores at most one inbox row per dedupe window.
THEOREM KeyFiresOnce == Spec => []OneRunPerKey
<1>1. TypeOK /\ RequestInv => OneRunPerKey
  <2> SUFFICES ASSUME TypeOK, RequestInv, NEW k \in Key
               PROVE  LET of == {a \in Attempt : traffic[a].key = k /\ traffic[a].route \in Delivery}
                      IN  /\ Cardinality({a \in of : run[a].st # "none"}) <= 1 + lapses[k]
                          /\ Cardinality(of \cap inbox) <= 1 + lapses[k]
    BY DEF OneRunPerKey
  <2> DEFINE of == {a \in Attempt : traffic[a].key = k /\ traffic[a].route \in Delivery}
             S == Touched(k)
             T == {a \in of : run[a].st # "none"}
             U == of \cap inbox
  <2>1. T \subseteq S /\ U \subseteq S /\ S \subseteq Attempt
    BY DEF Touched, Touch
  <2>2. Cardinality(S) <= lapses[k] + (IF claim[k] = NoAttempt THEN 0 ELSE 1)
    BY DEF RequestInv, ClaimOK
  <2>3. lapses[k] \in Nat
    BY TypeParts, DeliveryAssumption
  <2> HIDE DEF S, T, U
  <2>4. IsFiniteSet(S) /\ Cardinality(S) \in Nat
    BY <2>1, DeliveryAssumption, FS_Subset, FS_CardinalityType
  <2>5. Cardinality(T) <= Cardinality(S) /\ Cardinality(T) \in Nat
    BY <2>1, <2>4, FS_Subset, FS_CardinalityType
  <2>6. Cardinality(U) <= Cardinality(S) /\ Cardinality(U) \in Nat
    BY <2>1, <2>4, FS_Subset, FS_CardinalityType
  <2>7. Cardinality(T) <= 1 + lapses[k] /\ Cardinality(U) <= 1 + lapses[k]
    BY <2>2, <2>3, <2>4, <2>5, <2>6
  <2> QED BY <2>7 DEF T, U
<1> QED BY <1>1, RequestInvHolds, PTL

\* An accepted delivery has its run or its inbox row; a duplicate is told of a delivery
\* that has them, is getting them, or broke off.
THEOREM AnswersAreTrue == Spec => []AckedIsAccounted
<1>1. TypeOK /\ RequestInv => AckedIsAccounted
  BY DEF RequestInv, RequestOK, AckedIsAccounted, Standing, Enqueuing
<1> QED BY <1>1, RequestInvHolds, PTL

-----------------------------------------------------------------------------
(* Letters.                                                                *)

\* A step of one attempt, whether a fault took its letter or not: the others keep theirs.
LEMMA LettersKept ==
    ASSUME LetterInv, NEW a \in Attempt, UNCHANGED traffic, Letters \subseteq Letters',
           mislaid \subseteq mislaid', mislaid' \subseteq mislaid \cup {a},
           \A b \in Attempt : b # a => req'[b] = req[b] /\ run'[b] = run[b],
           JobOK(a)', LetterOK(a)'
    PROVE  LetterInv'
<1>1. ASSUME NEW b \in Attempt PROVE JobOK(b)' /\ LetterOK(b)'
  <2>1. CASE b # a
    BY <2>1 DEF LetterInv, JobOK, LetterOK, OwesLetter, OfEvent
  <2> QED BY <2>1
<1> QED BY <1>1 DEF LetterInv

\* Letters are kept by a step that writes none, and one that writes one adds it.
LEMMA LettersFrame == UNCHANGED box => Letters' = Letters /\ (BoxInv => BoxInv')
BY DEF Letters, BoxInv

\* Refusals: the request ends with its letter, or a fault took it.
LEMMA RequestLetters ==
    ASSUME TypeOK, RequestInv, BoxInv, LetterInv, NEW a \in Attempt,
           \/ Refuse(a) \/ Deliver(a) \/ RequestStep(a) \/ RequestFails(a)
           \/ Replay(a) \/ ReplayRun(a) \/ ReplayWebhookRow(a)
    PROVE  BoxInv' /\ LetterInv'
<1>0. /\ JobOK(a) /\ RequestOK(a) /\ LetterOK(a)
      /\ box \in Box /\ Len(box.ring) <= LettersMax
  BY TypeParts DEF RequestInv, LetterInv, TypeOK
<1>1. CASE Refuse(a) \/ Deliver(a) \/ Replay(a) \/ ReplayRun(a) \/ ReplayWebhookRow(a)
  <2>1. /\ req[a].pc = "idle" /\ UNCHANGED <<traffic, run, box, mislaid, faults>>
        /\ \A b \in Attempt : b # a => req'[b] = req[b]
        /\ req'[a].pc = "refused" => traffic[a].route # "event"
    <3>1. CASE Refuse(a)
      BY <3>1, RefuseEffect DEF RequestOf, IsWebhook
    <3>2. CASE Deliver(a)
      BY <3>2, DeliverEffect DEF RequestOf
    <3>3. CASE Replay(a) \/ ReplayRun(a) \/ ReplayWebhookRow(a)
      BY <3>3, ReplayEffect DEF RequestOf
    <3> QED BY <1>1, <3>1, <3>2, <3>3
  <2>2. run[a].st = "none"
    BY <1>0, <2>1 DEF RequestOK, Early
  <2>3. JobOK(a)' /\ LetterOK(a)'
    BY <1>0, <2>1, <2>2 DEF JobOK, LetterOK, OwesLetter
  <2> QED BY <2>1, <2>3, LettersKept, LettersFrame
<1>2. CASE Store(a) \/ Count(a)
  <2>1. /\ req[a].pc \in {"store", "count"} /\ UNCHANGED <<traffic, run, box, mislaid, faults>>
        /\ \A b \in Attempt : b # a => req'[b] = req[b]
        /\ req'[a].pc # "refused"
    <3>1. CASE Store(a)
      BY <3>1, StoreEffect DEF RequestOf
    <3>2. CASE Count(a)
      BY <3>2, CountEffect DEF RequestOf
    <3> QED BY <1>2, <3>1, <3>2
  <2>2. run[a].st = "none"
    BY <1>0, <2>1 DEF RequestOK, Early
  <2>3. JobOK(a)' /\ LetterOK(a)'
    BY <1>0, <2>1, <2>2 DEF JobOK, LetterOK, OwesLetter
  <2> QED BY <2>1, <2>3, LettersKept, LettersFrame
<1>3. CASE InsertQueuedRun(a)
  <2>1. /\ req[a].pc = "queue" /\ UNCHANGED <<traffic, box, mislaid, faults>> /\ req'[a].pc \in {"mark", "accepted"}
        /\ \A b \in Attempt : b # a => req'[b] = req[b] /\ run'[b] = run[b]
        /\ run'[a].st = "queued" /\ run'[a].job = run[a].job
    BY <1>3, InsertQueuedEffect DEF RequestOf, RunOf
  <2>2. run[a].st = "none"
    BY <1>0, <2>1 DEF RequestOK, Early
  <2>3. JobOK(a)' /\ LetterOK(a)'
    BY <1>0, <2>1, <2>2 DEF JobOK, LetterOK, OwesLetter, Ended
  <2> QED BY <2>1, <2>3, LettersKept, LettersFrame
<1>4. CASE InsertRejectedRun(a)
  <2>1. /\ req[a].pc = "reject" /\ UNCHANGED <<traffic, box, mislaid, faults>>
        /\ \/ traffic[a].route = "event" /\ req'[a].pc = "reject_letter"
           \/ traffic[a].route # "event" /\ req'[a].pc \in {"mark", "accepted"}
        /\ \A b \in Attempt : b # a => req'[b] = req[b] /\ run'[b] = run[b]
        /\ run'[a].st = "rejected" /\ run'[a].job = run[a].job
    BY <1>4, InsertRejectedEffect DEF RequestOf, RunOf
  <2>2. run[a].st = "none"
    BY <1>0, <2>1 DEF RequestOK, Early
  <2>3. JobOK(a)' /\ LetterOK(a)'
    BY <1>0, <2>1, <2>2 DEF JobOK, LetterOK, OwesLetter, Ended, OwingLetter
  <2> QED BY <2>1, <2>3, LettersKept, LettersFrame
<1>5. CASE RequestLetter(a)
  <2>1. /\ UNCHANGED <<traffic, run, mislaid, faults>> /\ InsertDeadLetter(a)
        /\ \A b \in Attempt : b # a => req'[b] = req[b]
    BY <1>5, RequestLetterEffect DEF RequestOf
  <2>2. BoxInv' /\ Letters' = Letters \cup {a}
    BY <1>0, <2>1, LetterStep
  <2>3. JobOK(a)' /\ LetterOK(a)'
    BY <1>0, <2>1, <2>2 DEF JobOK, LetterOK, OwesLetter
  <2> QED BY <2>1, <2>2, <2>3, LettersKept
<1>6. CASE RequestFails(a)
  <2>1. /\ UNCHANGED <<traffic, run, box>>
        /\ \A b \in Attempt : b # a => req'[b] = req[b]
        /\ mislaid \subseteq mislaid' /\ mislaid' \subseteq mislaid \cup {a}
        /\ \/ a \in mislaid'
           \/ /\ req[a].pc \in {"store", "count", "queue", "reject", "mark"}
              /\ req'[a].pc = "error"
    BY <1>6, RequestFailsEffect DEF RequestOf
  <2>2. JobOK(a)' /\ LetterOK(a)'
    BY <1>0, <2>1, LettersFrame DEF JobOK, LetterOK, OwesLetter, OfEvent, OwingLetter
  <2> QED BY <2>1, <2>2, LettersKept, LettersFrame
<1>7. CASE SetDeadLetterReplayed(a)
  <2>1. /\ UNCHANGED <<traffic, run, box, mislaid>> /\ req[a].pc = "mark" /\ req'[a].pc = "accepted"
        /\ \A b \in Attempt : b # a => req'[b] = req[b]
    BY <1>7, MarkEffect DEF RequestOf
  <2>2. JobOK(a)' /\ LetterOK(a)'
    BY <1>0, <2>1, LettersFrame DEF JobOK, LetterOK, OwesLetter, OfEvent, OwingLetter
  <2> QED BY <2>1, <2>2, LettersKept, LettersFrame
<1> QED BY <1>1, <1>2, <1>3, <1>4, <1>5, <1>6, <1>7 DEF RequestStep

\* Failed runs: the task of an event's run ends with the letter, or a fault took it.
LEMMA JobLetters ==
    ASSUME TypeOK, RequestInv, BoxInv, LetterInv, NEW a \in Attempt,
           Lease(a) \/ JobStep(a) \/ FinalizeRunFails(a) \/ RecordFails(a) \/ Reap(a)
    PROVE  BoxInv' /\ LetterInv'
<1>0. /\ JobOK(a) /\ RequestOK(a) /\ LetterOK(a)
      /\ box \in Box /\ Len(box.ring) <= LettersMax
  BY TypeParts DEF RequestInv, LetterInv, TypeOK
<1>1. CASE Lease(a)
  <2>1. /\ UNCHANGED <<traffic, req, box, mislaid, faults>>
        /\ \A b \in Attempt : b # a => run'[b] = run[b]
        /\ run'[a].st = "running" /\ run'[a].job = "work"
    BY <1>1, LeaseEffect DEF JobFrame, RunOf
  <2>2. run[a].st = "queued"
    BY <1>1, LeaseEffect
  <2>3. JobOK(a)' /\ LetterOK(a)'
    BY <1>0, <2>1, <2>2, LettersFrame DEF JobOK, LetterOK, OwesLetter, OfEvent
  <2> QED BY <2>1, <2>3, LettersKept, LettersFrame
<1>2. CASE FinalizeRun(a)
  <2>1. /\ UNCHANGED <<traffic, req, box, mislaid, faults>> /\ run[a].job = "work"
        /\ \A b \in Attempt : b # a => run'[b] = run[b]
        /\ \/ run[a].st # "running" /\ run'[a].st = run[a].st /\ run'[a].job = "none"
           \/ /\ run[a].st = "running" /\ run'[a].st \in {"done", "error", "timeout"}
              /\ run'[a].job = IF OfEvent(a) THEN "receipt" ELSE "none"
    BY <1>2, FinalizeEffect DEF JobFrame, RunOf
  <2>2. JobOK(a)'
    BY <2>1 DEF JobOK, Ended
  <2>3. LetterOK(a)'
    <3>1. CASE run[a].st = "running"
      <4>1. (run'[a].st = "error" /\ OfEvent(a)) => run'[a].job = "receipt"
        BY <2>1, <3>1
      <4> QED BY <1>0, <2>1, <3>1, <4>1, LettersFrame DEF LetterOK, OwesLetter, OfEvent
    <3>2. CASE run[a].st # "running"
      BY <1>0, <2>1, <3>2 DEF JobOK, LetterOK
    <3> QED BY <3>1, <3>2
  <2> QED BY <2>1, <2>2, <2>3, LettersKept, LettersFrame
<1>3. CASE RecordRunEnd(a) \/ AlertOnStreak(a)
  <2>1. /\ UNCHANGED <<traffic, req, box, mislaid, faults>> /\ run[a].job \in {"receipt", "check"}
        /\ \A b \in Attempt : b # a => run'[b] = run[b]
        /\ run'[a].st = run[a].st
        /\ run'[a].job \in {"none", "check", "letter"}
        /\ run[a].st = "error" => run'[a].job # "none"
    <3>1. CASE RecordRunEnd(a)
      BY <3>1, RecordRunEndEffect DEF JobFrame, RunOf
    <3>2. CASE AlertOnStreak(a)
      BY <3>2, AlertEffect DEF JobFrame, RunOf, AfterReceipt
    <3> QED BY <1>3, <3>1, <3>2
  <2>2. JobOK(a)'
    BY <1>0, <2>1 DEF JobOK
  <2>3. LetterOK(a)'
    BY <1>0, <2>1, LettersFrame DEF JobOK, LetterOK, OwesLetter, OfEvent
  <2> QED BY <2>1, <2>2, <2>3, LettersKept, LettersFrame
<1>4. CASE RecordRunError(a)
  <2>1. /\ UNCHANGED <<traffic, req, mislaid, faults>> /\ InsertDeadLetter(a)
        /\ \A b \in Attempt : b # a => run'[b] = run[b]
        /\ run'[a].job = "none"
    BY <1>4, RecordErrorEffect DEF JobFrame, RunOf
  <2>2. BoxInv' /\ Letters' = Letters \cup {a}
    BY <1>0, <2>1, LetterStep
  <2>3. JobOK(a)' /\ LetterOK(a)'
    BY <2>1, <2>2 DEF JobOK, LetterOK, OwesLetter
  <2> QED BY <2>1, <2>2, <2>3, LettersKept
<1>5. CASE RecordFails(a)
  <2>1. /\ UNCHANGED <<traffic, req, box>>
        /\ \A b \in Attempt : b # a => run'[b] = run[b]
        /\ run'[a].st = run[a].st /\ run[a].st \in {"done", "error", "timeout"}
        /\ mislaid \subseteq mislaid' /\ mislaid' \subseteq mislaid \cup {a}
        /\ run'[a].job \in {"none", "letter"}
        /\ a \in mislaid' \/ (run[a].st = "error" => run'[a].job = "letter")
    <3>1. run[a].st \in {"done", "error", "timeout"}
      BY <1>0, <1>5, RecordFailsEffect DEF JobOK
    <3> QED BY <1>5, <3>1, RecordFailsEffect DEF RunOf, JobFrame, AfterReceipt
  <2>2. JobOK(a)'
    BY <2>1 DEF JobOK
  <2>3. LetterOK(a)'
    BY <1>0, <2>1, LettersFrame DEF LetterOK, OwesLetter, OfEvent
  <2> QED BY <2>1, <2>2, <2>3, LettersKept, LettersFrame
<1>6. CASE Reap(a)
  <2>1. /\ UNCHANGED <<traffic, req, box>>
        /\ \A b \in Attempt : b # a => run'[b] = run[b]
        /\ run[a].st = "running" /\ run'[a].st = "error" /\ run'[a].job = run[a].job
        /\ mislaid' = mislaid \cup {a}
    BY <1>6, ReapEffect DEF RunOf, JobFrame
  <2>2. JobOK(a)' /\ LetterOK(a)'
    BY <1>0, <2>1 DEF JobOK, LetterOK, Ended
  <2> QED BY <2>1, <2>2, LettersKept, LettersFrame
<1>7. CASE FinalizeRunFails(a)
  <2>1. /\ UNCHANGED <<traffic, req, box, mislaid>> /\ run[a].job = "work"
        /\ \A b \in Attempt : b # a => run'[b] = run[b]
        /\ run'[a].st = run[a].st /\ run'[a].job = "failed"
    BY <1>7, FinalizeFailsEffect DEF RunOf, JobFrame
  <2>2. JobOK(a)'
    BY <1>0, <2>1 DEF JobOK
  <2>3. LetterOK(a)'
    BY <1>0, <2>1, LettersFrame DEF JobOK, LetterOK, OwesLetter, OfEvent
  <2> QED BY <2>1, <2>2, <2>3, LettersKept, LettersFrame
<1> QED BY <1>1, <1>2, <1>3, <1>4, <1>5, <1>6, <1>7 DEF JobStep

\* BoxInv and LetterInv are inductive, given the requests.
LEMMA LetterInvStep ==
    TypeOK /\ RequestInv /\ BoxInv /\ LetterInv /\ [Next]_vars => BoxInv' /\ LetterInv'
<1> SUFFICES ASSUME TypeOK, RequestInv, BoxInv, LetterInv, [Next]_vars
             PROVE  BoxInv' /\ LetterInv'
  OBVIOUS
<1>1. ASSUME NEW a \in Attempt,
             \/ Refuse(a) \/ Deliver(a) \/ RequestStep(a) \/ RequestFails(a)
             \/ Replay(a) \/ ReplayRun(a) \/ ReplayWebhookRow(a)
      PROVE  BoxInv' /\ LetterInv'
  BY <1>1, RequestLetters
<1>2. ASSUME NEW a \in Attempt, Lease(a) \/ JobStep(a) \/ FinalizeRunFails(a) \/ RecordFails(a) \/ Reap(a)
      PROVE  BoxInv' /\ LetterInv'
  BY <1>2, JobLetters
<1>3. CASE Resume \/ UNCHANGED vars \/ \E k \in Key : Lapse(k)
  <2>1. UNCHANGED <<traffic, req, run, box, mislaid, faults>>
    BY <1>3, ResumeEffect, LapseEffect DEF vars, JobFrame
  <2>2. \A a \in Attempt : (JobOK(a) => JobOK(a)') /\ (LetterOK(a) => LetterOK(a)')
    BY <2>1, LettersFrame DEF JobOK, LetterOK, OwesLetter, OfEvent
  <2> QED BY <2>1, <2>2, LettersFrame DEF LetterInv
<1>4. CASE Crash
  <2>1. ASSUME NEW b \in Attempt PROVE JobOK(b)'
    BY <1>4, CrashEffect DEF JobOK
  <2>2. UNCHANGED <<traffic, box>> /\ mislaid \subseteq mislaid'
    BY <1>4, CrashEffect
  <2>3. ASSUME NEW b \in Attempt PROVE LetterOK(b)'
    <3>1. JobOK(b) /\ LetterOK(b)
      BY DEF LetterInv
    <3>2. CASE req[b].pc \in OwingLetter \/ run[b].job \in {"receipt", "check", "letter"}
      BY <1>4, <3>2, CrashEffect DEF LetterOK
    <3>3. CASE req[b].pc \notin OwingLetter /\ run[b].job \notin {"receipt", "check", "letter"}
      <4>1. /\ run[b].job \in {"none", "work", "failed"} /\ run[b] \in RunState
            /\ run'[b].st = run[b].st \/ run'[b].st = "queued"
            /\ req'[b].pc = req[b].pc \/ req'[b].pc = "lost"
        BY <1>4, <3>3, CrashEffect, TypeParts DEF RunState
      <4>2. run[b].job \in {"work", "failed"} => run[b].st = "running" \/ b \in mislaid
        BY <3>1 DEF JobOK
      <4> QED BY <2>2, <3>1, <3>3, <4>1, <4>2, LettersFrame DEF LetterOK, OwesLetter, OfEvent
    <3> QED BY <3>2, <3>3
  <2> QED BY <2>1, <2>2, <2>3, LettersFrame DEF LetterInv
<1> QED BY <1>1, <1>2, <1>3, <1>4 DEF Next

\* At the start the ring is empty and nothing is over.
LEMMA LetterInit == Init => BoxInv /\ LetterInv
<1> SUFFICES ASSUME Init
             PROVE  BoxInv /\ LetterInv
  OBVIOUS
<1>1. BoxInv
  <2>1. box.ring = <<>> /\ box.written = <<>> /\ box.dropped = 0 /\ Len(<<>>) = 0
    BY DEF Init
  <2>2. SubSeq(<<>>, 1, 0) = <<>>
    BY SubSeqEmpty
  <2> QED BY <2>1, <2>2 DEF BoxInv
<1>2. LetterInv
  BY DEF Init, LetterInv, JobOK, LetterOK, OwesLetter
<1> QED BY <1>1, <1>2

\* The ring of dead letters always holds the newest letters, the others counted as
\* dropped, and nothing that was refused, rejected or failed lacks one but for the letter
\* a fault itself took.
THEOREM LettersAreKept == Spec => []LettersAccounted
<1>2. BoxInv /\ LetterInv => LettersAccounted
  BY DEF BoxInv, LetterInv, LetterOK, LettersAccounted
<1> QED BY <1>2, LetterInit, LetterInvStep, RequestInvHolds, PTL DEF Spec

-----------------------------------------------------------------------------
(* Failure streaks.                                                        *)

\* The resume floor is the last one.
LEMMA FloorIsLast ==
    ASSUME NEW S, NEW n \in Nat, S \subseteq 0..n, S # {}
    PROVE  \E f \in S : \A g \in S : g <= f
<1> DEFINE U == 0..n
           Seg(x) == x..n
           T == {Seg(x) : x \in S}
<1>1. S \subseteq Nat /\ \A x \in S : Seg(x) \subseteq U /\ x <= n
  OBVIOUS
<1>2. FiniteSubsetsOf(U) = SUBSET U
  <2>1. IsFiniteSet(U)
    BY FS_Interval
  <2> HIDE DEF U
  <2> QED BY <2>1, FS_FiniteSubsetsOfFinite
<1>3. IsWellFoundedOn(StrictSubsetOrdering(U), SUBSET U)
  BY <1>2, FS_StrictSubsetOrderingWellFounded
<1>4. T \subseteq SUBSET U /\ T # {}
  BY <1>1
<1>5. \E s \in T : \A u \in T : ~(<<u, s>> \in StrictSubsetOrdering(U))
  <2> HIDE DEF T, U
  <2> QED BY <1>3, <1>4, WFMin
<1>6. PICK x \in S : \A y \in S : ~(<<Seg(y), Seg(x)>> \in StrictSubsetOrdering(U))
  BY <1>5
<1>7. ASSUME NEW y \in S, x < y
      PROVE  FALSE
  <2>1. Seg(y) \subseteq Seg(x) /\ Seg(y) # Seg(x)
    <3>1. x \in Seg(x) /\ x \notin Seg(y)
      BY <1>1, <1>7
    <3> QED BY <3>1, <1>1, <1>7
  <2>2. <<Seg(y), Seg(x)>> \in StrictSubsetOrdering(U)
    <3>1. Seg(y) \in SUBSET U /\ Seg(x) \in SUBSET U
      BY <1>1
    <3> HIDE DEF Seg, U
    <3> QED BY <2>1, <3>1 DEF StrictSubsetOrdering
  <2> QED BY <1>6, <2>2
<1>8. \A y \in S : y <= x
  BY <1>1, <1>7
<1> QED BY <1>8

\* The failures at the head of the first n receipts after the floor.
Failing(r, n, F) == {i \in (F + 1)..n : \A j \in i..n : ~r[j]}

\* The failures at the head of the receipts after the floor are exactly ALERT_STREAK
\* when they begin that far back, right after the floor or after a success.
LEMMA StreakBegins ==
    ASSUME NEW r, NEW n \in Nat, NEW F \in 0..(n - 1), NEW A \in Nat \ {0}
    PROVE  LET i0 == n - A + 1
           IN  Cardinality(Failing(r, n, F)) = A
                               <=> /\ F < i0 /\ \A j \in i0..n : ~r[j]
                                   /\ i0 - 1 = F \/ r[i0 - 1]
<1> DEFINE i0 == n - A + 1
           S == {i \in (F + 1)..n : \A j \in i..n : ~r[j]}
<1>0. i0 \in Int /\ i0 <= n
  OBVIOUS
<1>1. S \subseteq (F + 1)..n /\ IsFiniteSet(S) /\ Cardinality(S) \in Nat
  <2>1. S \subseteq (F + 1)..n
    OBVIOUS
  <2> HIDE DEF S
  <2>2. IsFiniteSet((F + 1)..n)
    <3>1. F + 1 \in Int /\ n \in Int
      OBVIOUS
    <3> QED BY <3>1, FS_Interval
  <2>3. IsFiniteSet(S)
    BY <2>1, <2>2, FS_Subset
  <2> QED BY <2>1, <2>3, FS_CardinalityType
<1>2. IsFiniteSet(i0..n) /\ Cardinality(i0..n) = A
  <2>1. IsFiniteSet(i0..n) /\ Cardinality(i0..n) = IF i0 > n THEN 0 ELSE n - i0 + 1
    BY <1>0, FS_Interval
  <2> QED BY <1>0, <2>1
<1>3. IsFiniteSet((i0 + 1)..n) /\ Cardinality((i0 + 1)..n) = A - 1
  <2>1. IsFiniteSet((i0 + 1)..n) /\ Cardinality((i0 + 1)..n) = IF i0 + 1 > n THEN 0 ELSE n - (i0 + 1) + 1
    BY <1>0, FS_Interval
  <2> QED BY <1>0, <2>1
<1>4. ASSUME F < i0, \A j \in i0..n : ~r[j], i0 - 1 = F \/ r[i0 - 1]
      PROVE  Cardinality(S) = A
  <2>1. ASSUME NEW i \in i0..n PROVE i \in S
    <3>1. i \in (F + 1)..n /\ \A j \in i..n : j \in i0..n
      BY <1>0, <1>4
    <3> QED BY <1>4, <3>1
  <2>2. ASSUME NEW i \in S PROVE i \in i0..n
    <3>1. i \in (F + 1)..n /\ \A j \in i..n : ~r[j]
      OBVIOUS
    <3>2. CASE i < i0
      <4>1. i0 - 1 \in i..n /\ i0 - 1 # F
        BY <1>0, <3>1, <3>2
      <4> QED BY <1>4, <3>1, <4>1
    <3> QED BY <1>0, <3>1, <3>2
  <2>3. S = i0..n
    <3> HIDE DEF S
    <3> QED BY <2>1, <2>2
  <2> QED BY <1>2, <2>3
<1>5. ASSUME Cardinality(S) = A
      PROVE  F < i0 /\ (\A j \in i0..n : ~r[j]) /\ (i0 - 1 = F \/ r[i0 - 1])
  <2>1. i0 \in S
    <3> SUFFICES ASSUME i0 \notin S
                 PROVE  FALSE
      OBVIOUS
    <3>1. ASSUME NEW i \in S PROVE i \in (i0 + 1)..n
      <4>1. i \in (F + 1)..n /\ \A j \in i..n : ~r[j]
        OBVIOUS
      <4>2. CASE i <= i0
        <5>1. i0 \in (F + 1)..n /\ \A j \in i0..n : j \in i..n
          BY <1>0, <4>1, <4>2
        <5>2. i0 \in S
          BY <4>1, <5>1
        <5> QED BY <5>2
      <4> QED BY <1>0, <4>1, <4>2
    <3> HIDE DEF S
    <3>2. S \in SUBSET ((i0 + 1)..n)
      BY <3>1
    <3>3. Cardinality(S) <= A - 1
      BY <1>3, <3>2, FS_Subset
    <3> QED BY <1>5, <3>3
  <2>2. F < i0 /\ \A j \in i0..n : ~r[j]
    BY <2>1
  <2>3. S = i0..n
    <3>1. ASSUME NEW i \in i0..n PROVE i \in S
      <4>1. i \in (F + 1)..n /\ \A j \in i..n : j \in i0..n
        BY <1>0, <2>2
      <4> QED BY <2>2, <4>1
    <3> HIDE DEF S
    <3>2. (i0..n) \in SUBSET S
      BY <3>1
    <3> QED BY <1>1, <1>2, <1>5, <3>2, FS_Subset
  <2>4. i0 - 1 \notin S
    <3>1. i0 - 1 \notin i0..n
      BY <1>0
    <3> HIDE DEF S, i0
    <3> QED BY <2>3, <3>1
  <2>5. CASE i0 - 1 # F
    <3>1. i0 - 1 \in (F + 1)..n
      BY <1>0, <2>2, <2>5
    <3>2. PICK j \in (i0 - 1)..n : r[j]
      BY <2>4, <3>1
    <3>3. j = i0 - 1
      BY <1>0, <2>2, <3>2
    <3> QED BY <2>2, <3>2, <3>3
  <2> QED BY <2>2, <2>5
<1> QED BY <1>4, <1>5 DEF Failing

\* BeginsLongStreak, of any receipts r and floors fl.
Begins(r, fl, i) ==
    /\ i + AlertStreak - 1 <= Len(r)
    /\ \A j \in i..(i + AlertStreak - 1) : ~r[j]
    /\ i - 1 \in fl \/ r[i - 1]
    /\ \A f \in fl : f < i \/ f >= i + AlertStreak - 1

\* A new receipt decides about one beginning only, and a success about none.
LEMMA AppendBegins ==
    ASSUME NEW r \in Seq(BOOLEAN), NEW fl, 0 \in fl, NEW ok \in BOOLEAN
    PROVE  LET n == Len(r)
               i0 == n + 2 - AlertStreak
               q == Append(r, ok)
           IN  /\ \A i \in 1..(n + 1) : i # i0 => (Begins(q, fl, i) <=> Begins(r, fl, i))
               /\ ~Begins(r, fl, i0)
               /\ ok => ~Begins(q, fl, i0)
<1> DEFINE n == Len(r)
           i0 == n + 2 - AlertStreak
           q == Append(r, ok)
<1>1. n \in Nat /\ AlertStreak \in Nat \ {0} /\ i0 \in Int
  BY DeliveryAssumption
<1>2. Len(q) = n + 1 /\ q[n + 1] = ok /\ \A j \in 1..n : q[j] = r[j]
  OBVIOUS
<1> HIDE DEF n, q
<1>3. ASSUME NEW i \in 1..(n + 1), i # i0
      PROVE  Begins(q, fl, i) <=> Begins(r, fl, i)
  <2>1. CASE i + AlertStreak - 1 <= n
    <3>1. \A j \in i..(i + AlertStreak - 1) : q[j] = r[j]
      BY <1>1, <1>2, <2>1
    <3>2. i - 1 \in fl \/ q[i - 1] = r[i - 1]
      BY <1>1, <1>2, <2>1
    <3>3. i + AlertStreak - 1 <= Len(q) /\ i + AlertStreak - 1 <= Len(r)
      BY <1>1, <1>2, <2>1 DEF n
    <3> QED BY <3>1, <3>2, <3>3 DEF Begins
  <2>2. CASE ~(i + AlertStreak - 1 <= n)
    <3>1. ~(i + AlertStreak - 1 <= n + 1)
      BY <1>1, <1>3, <2>2
    <3> QED BY <1>2, <2>2, <3>1 DEF Begins, n
  <2> QED BY <2>1, <2>2
<1>4. ~Begins(r, fl, i0)
  <2>1. ~(i0 + AlertStreak - 1 <= n)
    BY <1>1
  <2> QED BY <2>1 DEF Begins, n
<1>5. ok => ~Begins(q, fl, i0)
  <2>1. n + 1 \in i0..(i0 + AlertStreak - 1)
    BY <1>1
  <2> HIDE DEF i0
  <2> QED BY <1>2, <2>1 DEF Begins
<1> QED BY <1>3, <1>4, <1>5 DEF n, q

\* streak_of is exactly ALERT_STREAK when a long streak begins that far back; the
\* floors are all before the last receipt.
LEMMA HeadBegins ==
    ASSUME NEW r, NEW n \in Nat, Len(r) = n, NEW fl, fl \subseteq 0..(n - 1), 0 \in fl
    PROVE  LET F == CHOOSE f \in fl : \A g \in fl : g <= f
               i0 == n - AlertStreak + 1
           IN  Cardinality({i \in (F + 1)..n : \A j \in i..n : ~r[j]}) = AlertStreak
                 <=> i0 >= 1 /\ Begins(r, fl, i0)
<1> DEFINE F == CHOOSE f \in fl : \A g \in fl : g <= f
           i0 == n - AlertStreak + 1
           S == {i \in (F + 1)..n : \A j \in i..n : ~r[j]}
<1>1. AlertStreak \in Nat \ {0} /\ i0 \in Int /\ i0 + AlertStreak - 1 = n
  BY DeliveryAssumption
<1>2. fl \subseteq 0..n /\ fl # {}
  OBVIOUS
<1>3. \E f \in fl : \A g \in fl : g <= f
  BY <1>2, FloorIsLast
<1>4. F \in fl /\ \A g \in fl : g <= F
  BY <1>3
<1> HIDE DEF F
<1>5. F \in 0..(n - 1)
  BY <1>4
<1>6. Cardinality(S) = AlertStreak
        <=> F < i0 /\ (\A j \in i0..n : ~r[j]) /\ (i0 - 1 = F \/ r[i0 - 1])
  <2>1. Cardinality(Failing(r, n, F)) = AlertStreak
          <=> F < i0 /\ (\A j \in i0..n : ~r[j]) /\ (i0 - 1 = F \/ r[i0 - 1])
    BY <1>1, <1>5, StreakBegins
  <2> QED BY <2>1 DEF Failing
<1> HIDE DEF S, i0
<1>7. ASSUME F < i0, \A j \in i0..n : ~r[j], i0 - 1 = F \/ r[i0 - 1]
      PROVE  i0 >= 1 /\ Begins(r, fl, i0)
  <2>1. i0 >= 1 /\ \A f \in fl : f < i0
    BY <1>1, <1>4, <1>5, <1>7
  <2>2. i0 - 1 \in fl \/ r[i0 - 1]
    BY <1>4, <1>7
  <2>3. i0 + AlertStreak - 1 <= Len(r) /\ \A j \in i0..(i0 + AlertStreak - 1) : ~r[j]
    BY <1>1, <1>7
  <2> QED BY <2>1, <2>2, <2>3 DEF Begins
<1>8. ASSUME i0 >= 1, Begins(r, fl, i0)
      PROVE  F < i0 /\ (\A j \in i0..n : ~r[j]) /\ (i0 - 1 = F \/ r[i0 - 1])
  <2>1. \A j \in i0..n : ~r[j]
    BY <1>1, <1>8 DEF Begins
  <2>2. F < i0
    <3>1. F < i0 \/ F >= n
      BY <1>1, <1>4, <1>8 DEF Begins
    <3> QED BY <1>5, <3>1
  <2>3. i0 - 1 \in fl => i0 - 1 = F
    BY <1>1, <1>4, <1>5, <2>2
  <2>4. i0 - 1 \in fl \/ r[i0 - 1]
    BY <1>8 DEF Begins
  <2> QED BY <2>1, <2>2, <2>3, <2>4
<1>9. Cardinality(S) = AlertStreak <=> i0 >= 1 /\ Begins(r, fl, i0)
  BY <1>6, <1>7, <1>8
<1> QED BY <1>9 DEF S, i0, F

\* Long depends on the receipts and the floors alone.
LEMMA LongOf ==
    /\ Long = {i \in 1..Len(streak.receipts) : Begins(streak.receipts, streak.floors, i)}
    /\ Long' = {i \in 1..Len(streak'.receipts) : Begins(streak'.receipts, streak'.floors, i)}
BY DEF Long, BeginsLongStreak, Begins

\* There are finitely many long streaks.
LEMMA LongFinite ==
    ASSUME TypeOK
    PROVE  IsFiniteSet(Long) /\ Cardinality(Long) \in Nat
<1>1. Long \subseteq 1..Len(streak.receipts) /\ Len(streak.receipts) \in Nat
  BY DEF Long, TypeOK
<1> HIDE DEF Long
<1>2. IsFiniteSet(1..Len(streak.receipts))
  BY <1>1, FS_Interval
<1>3. IsFiniteSet(Long)
  BY <1>1, <1>2, FS_Subset
<1> QED BY <1>3, FS_CardinalityType

\* A receipt makes one more long streak when it is a failure and streak_of, read right
\* after it, is exactly ALERT_STREAK.
LEMMA ReceiptCounts ==
    ASSUME TypeOK, 0 \in streak.floors, NEW ok \in BOOLEAN,
           streak'.receipts = Append(streak.receipts, ok), streak'.floors = streak.floors
    PROVE  Cardinality(Long') = Cardinality(Long)
                                  + (IF ~ok /\ StreakOf' = AlertStreak THEN 1 ELSE 0)
<1>1. PICK r \in Seq(BOOLEAN) : r = streak.receipts
  BY DEF TypeOK
<1>2. PICK fl \in SUBSET (0..Len(r)) : fl = streak.floors
  BY <1>1 DEF TypeOK
<1> DEFINE n == Len(r)
           q == Append(r, ok)
           i0 == n + 2 - AlertStreak
           L == {i \in 1..n : Begins(r, fl, i)}
           M == {i \in 1..(n + 1) : Begins(q, fl, i)}
           F == CHOOSE f \in fl : \A g \in fl : g <= f
<1>3. n \in Nat /\ Len(q) = n + 1 /\ 0 \in fl /\ AlertStreak \in Nat \ {0}
  BY <1>1, <1>2, DeliveryAssumption
<1>4. Long = L /\ Long' = M
  BY <1>1, <1>2, <1>3, LongOf
<1>5. StreakOf' = Cardinality({i \in (F + 1)..(n + 1) : \A j \in i..(n + 1) : ~q[j]})
  BY <1>1, <1>2, <1>3 DEF StreakOf, Floor
<1>6. /\ \A i \in 1..(n + 1) : i # i0 => (Begins(q, fl, i) <=> Begins(r, fl, i))
      /\ ~Begins(r, fl, i0)
      /\ ok => ~Begins(q, fl, i0)
  <2> HIDE DEF Begins
  <2> QED BY <1>3, AppendBegins
<1>7. StreakOf' = AlertStreak <=> i0 >= 1 /\ Begins(q, fl, i0)
  <2> DEFINE m == n + 1
  <2>1. m \in Nat /\ Len(q) = m /\ fl \subseteq 0..(m - 1) /\ m - AlertStreak + 1 = i0
    BY <1>3
  <2>2. StreakOf' = Cardinality({i \in (F + 1)..m : \A j \in i..m : ~q[j]})
    BY <1>5
  <2> HIDE DEF q, m, i0, Begins, F
  <2>3. Cardinality({i \in (F + 1)..m : \A j \in i..m : ~q[j]}) = AlertStreak
          <=> m - AlertStreak + 1 >= 1 /\ Begins(q, fl, m - AlertStreak + 1)
    BY <1>3, <2>1, HeadBegins DEF F
  <2> QED BY <2>1, <2>2, <2>3
<1>8. i0 \notin L /\ i0 \in Int /\ i0 <= n + 1
  BY <1>3, <1>6
<1>9. ~Begins(r, fl, n + 1)
  BY <1>3 DEF Begins
<1>10. i0 \in M <=> ~ok /\ StreakOf' = AlertStreak
  BY <1>6, <1>7, <1>8
<1>11. ASSUME NEW i, i # i0 PROVE i \in M <=> i \in L
  <2>1. CASE i \in 1..n
    BY <1>3, <1>6, <1>11, <2>1
  <2>2. CASE i \notin 1..n
    BY <1>3, <1>6, <1>9, <1>11, <2>2
  <2> QED BY <2>1, <2>2
<1> HIDE DEF L, M, i0, StreakOf
<1>12. IsFiniteSet(L) /\ Cardinality(L) \in Nat
  BY <1>4, LongFinite
<1>13. CASE i0 \in M
  <2>1. M = L \cup {i0}
    BY <1>11, <1>13
  <2>2. Cardinality(M) = Cardinality(L) + 1
    BY <1>8, <1>12, <2>1, FS_AddElement
  <2> QED BY <1>4, <1>10, <1>13, <2>2
<1>14. CASE i0 \notin M
  <2>0. i0 \notin L
    BY <1>8
  <2>1. M = L
    <3>1. M \subseteq L /\ L \subseteq M
      BY <1>11, <1>14, <2>0
    <3> QED BY <3>1
  <2> QED BY <1>4, <1>10, <1>12, <1>14, <2>1
<1> QED BY <1>13, <1>14

\* A resume forgives the failures so far but none of the long streaks.
LEMMA ResumeCounts ==
    ASSUME TypeOK, 0 \in streak.floors, streak'.receipts = streak.receipts,
           streak'.floors = streak.floors \cup {Len(streak.receipts)}
    PROVE  Long' = Long
<1>1. PICK r \in Seq(BOOLEAN) : r = streak.receipts
  BY DEF TypeOK
<1>2. PICK fl \in SUBSET (0..Len(r)) : fl = streak.floors
  BY <1>1 DEF TypeOK
<1> DEFINE n == Len(r)
           gl == fl \cup {n}
<1>3. n \in Nat /\ AlertStreak \in Nat \ {0}
  BY <1>1, DeliveryAssumption
<1>4. ASSUME NEW i \in 1..n PROVE Begins(r, gl, i) <=> Begins(r, fl, i)
  <2>1. i - 1 \in gl <=> i - 1 \in fl
    BY <1>3
  <2>2. i + AlertStreak - 1 <= n => n >= i + AlertStreak - 1
    BY <1>3
  <2> QED BY <2>1, <2>2 DEF Begins
<1>5. /\ Long = {i \in 1..n : Begins(r, fl, i)}
      /\ Long' = {i \in 1..n : Begins(r, gl, i)}
  BY <1>1, <1>2, LongOf
<1> QED BY <1>4, <1>5

\* Steps that leave the receipts alone and start no check.
LEMMA StreakKept ==
    ASSUME TypeOK, StreakInv, UNCHANGED streak, Pending' = Pending
    PROVE  StreakInv'
<1>1. Long' = Long
  BY LongOf
<1>2. StreakOf' = StreakOf
  BY DEF StreakOf, Floor
<1> QED BY <1>1, <1>2 DEF StreakInv

\* Steps after which the alerts are no longer exact, and say so.
LEMMA StreakBlurs ==
    ASSUME StreakInv, streak'.blurred, 0 \in streak'.floors
    PROVE  StreakInv'
BY DEF StreakInv

\* The run of a moves, and the check of a is neither due before nor after.
LEMMA PendingKept ==
    ASSUME NEW a \in Attempt, NEW s, NEW j, RunOf(a, s, j), j # "check", run[a].job # "check"
    PROVE  Pending' = Pending
BY DEF RunOf, Pending

\* insert_trigger_receipt: the check that is now due will count the streak it sees.
LEMMA RecordCounts ==
    ASSUME TypeOK, TypeOK', StreakInv, NEW a \in Attempt, RecordRunEnd(a)
    PROVE  StreakInv'
<1>0. /\ 0 \in streak.floors /\ streak'.floors = streak.floors
      /\ streak'.alerts = streak.alerts /\ streak.alerts \in Nat
      /\ streak'.blurred <=> streak.blurred \/ Pending # {}
  BY RecordRunEndEffect DEF StreakInv, TypeOK
<1>1. CASE streak'.blurred
  BY <1>0, <1>1, StreakBlurs
<1>2. CASE ~streak'.blurred
  <2>1. ~streak.blurred /\ Pending = {}
    BY <1>0, <1>2
  <2>2. streak.alerts = Cardinality(Long)
    BY <1>0, <2>1 DEF StreakInv
  <2>3. PICK ok \in BOOLEAN : ok <=> run[a].st = "done"
    OBVIOUS
  <2>4. streak'.receipts = Append(streak.receipts, ok)
    BY <2>3, RecordRunEndEffect
  <2>5. Cardinality(Long') = Cardinality(Long) + (IF ~ok /\ StreakOf' = AlertStreak THEN 1 ELSE 0)
    BY <1>0, <2>4, ReceiptCounts
  <2>6. Pending' = IF ok THEN {} ELSE {a}
    <3>1. RunOf(a, run[a].st, IF run[a].st = "done" THEN "none" ELSE "check")
      BY RecordRunEndEffect
    <3>2. \A b \in Attempt : run'[b].job = "check" <=> b = a /\ ~ok
      BY <2>1, <2>3, <3>1 DEF RunOf, Pending
    <3> QED BY <2>3, <3>2 DEF Pending
  <2> HIDE DEF StreakOf, Long, Pending
  <2>7. CASE ok
    BY <1>0, <2>2, <2>5, <2>6, <2>7 DEF StreakInv
  <2>8. CASE ~ok
    BY <1>0, <2>2, <2>5, <2>6, <2>8 DEF StreakInv
  <2> QED BY <2>7, <2>8
<1> QED BY <1>1, <1>2

\* alert_on_streak: the one check that is due settles the account.
LEMMA AlertCounts ==
    ASSUME TypeOK, StreakInv, NEW a \in Attempt, AlertOnStreak(a)
    PROVE  StreakInv'
<1>0. /\ 0 \in streak.floors /\ streak'.floors = streak.floors /\ streak'.receipts = streak.receipts
      /\ streak'.alerts = streak.alerts + (IF StreakOf = AlertStreak THEN 1 ELSE 0)
      /\ streak'.blurred = streak.blurred
  BY AlertEffect DEF StreakInv
<1>1. CASE streak.blurred
  BY <1>0, <1>1, StreakBlurs
<1>2. CASE ~streak.blurred
  <2>1. a \in Pending /\ Pending = {a}
    BY <1>2, AlertEffect DEF StreakInv, Pending
  <2>2. Pending' = {}
    <3>1. RunOf(a, run[a].st, AfterReceipt(a)) /\ AfterReceipt(a) # "check"
      BY AlertEffect DEF AfterReceipt
    <3>2. \A b \in Attempt : b # a => run[b].job # "check"
      BY <2>1 DEF Pending
    <3> QED BY <3>1, <3>2 DEF RunOf, Pending
  <2>3. Long' = Long /\ streak.alerts \in Nat
    BY <1>0, LongOf DEF TypeOK
  <2>4. streak.alerts + (IF StreakOf = AlertStreak THEN 1 ELSE 0) = Cardinality(Long)
    <3> HIDE DEF StreakOf, Long, Pending
    <3> QED BY <1>2, <2>1 DEF StreakInv
  <2>5. streak'.alerts = Cardinality(Long')
    BY <1>0, <2>3, <2>4
  <2>6. streak'.alerts + 0 = Cardinality(Long')
    <3> HIDE DEF StreakOf, Long
    <3>1. streak'.alerts \in Nat
      BY <1>0, <2>3
    <3> QED BY <2>5, <3>1
  <2> HIDE DEF StreakOf, Long, Pending
  <2> QED BY <1>0, <2>2, <2>6 DEF StreakInv
<1> QED BY <1>1, <1>2

\* StreakInv is inductive, given the tasks.
LEMMA StreakStep ==
    TypeOK /\ TypeOK' /\ LetterInv /\ StreakInv /\ [Next]_vars => StreakInv'
<1> SUFFICES ASSUME TypeOK, TypeOK', LetterInv, StreakInv, [Next]_vars
             PROVE  StreakInv'
  OBVIOUS
<1>0. 0 \in streak.floors
  BY DEF StreakInv
<1>1. ASSUME NEW a \in Attempt,
             \/ Refuse(a) \/ Deliver(a) \/ Store(a) \/ Count(a) \/ RequestLetter(a) \/ RequestFails(a)
             \/ Replay(a) \/ ReplayRun(a) \/ ReplayWebhookRow(a) \/ SetDeadLetterReplayed(a)
      PROVE  StreakInv'
  <2>1. UNCHANGED <<run, streak>>
    <3>1. CASE Refuse(a) \/ RequestLetter(a) \/ RequestFails(a)
      BY <3>1 DEF Refuse, RequestLetter, RequestFails
    <3>2. CASE Deliver(a) \/ Store(a) \/ Count(a)
      BY <3>2 DEF Deliver, Store, Count
    <3>3. CASE Replay(a) \/ ReplayRun(a) \/ ReplayWebhookRow(a) \/ SetDeadLetterReplayed(a)
      BY <3>3 DEF Replay, ReplayRun, ReplayWebhookRow, SetDeadLetterReplayed
    <3> QED BY <1>1, <3>1, <3>2, <3>3
  <2>2. Pending' = Pending
    BY <2>1 DEF Pending
  <2> QED BY <2>1, <2>2, StreakKept
<1>2. ASSUME NEW a \in Attempt, InsertQueuedRun(a) \/ InsertRejectedRun(a)
      PROVE  StreakInv'
  <2>1. /\ \A b \in Attempt : run'[b].job = run[b].job
        /\ UNCHANGED streak
    <3>1. CASE InsertQueuedRun(a)
      BY <3>1, InsertQueuedEffect DEF RunOf, RequestOf
    <3>2. CASE InsertRejectedRun(a)
      BY <3>2, InsertRejectedEffect DEF RunOf, RequestOf
    <3> QED BY <1>2, <3>1, <3>2
  <2>2. Pending' = Pending
    BY <2>1 DEF Pending
  <2> QED BY <2>1, <2>2, StreakKept
<1>3. ASSUME NEW a \in Attempt, Lease(a)
      PROVE  StreakInv'
  <2>1. run[a].st = "queued" /\ RunOf(a, "running", "work") /\ UNCHANGED streak
    BY <1>3, LeaseEffect
  <2>2. run[a].job # "check"
    BY <2>1 DEF LetterInv, JobOK, Ended
  <2> QED BY <2>1, <2>2, PendingKept, StreakKept
<1>4. ASSUME NEW a \in Attempt, FinalizeRun(a)
      PROVE  StreakInv'
  <2>1. run[a].job = "work" /\ UNCHANGED streak
    BY <1>4, FinalizeEffect
  <2>2. CASE RunOf(a, run[a].st, "none")
    BY <2>1, <2>2, PendingKept, StreakKept
  <2>3. ASSUME NEW s \in {"done", "error", "timeout"},
               RunOf(a, s, IF OfEvent(a) THEN "receipt" ELSE "none")
        PROVE  StreakInv'
    BY <2>1, <2>3, PendingKept, StreakKept
  <2> QED BY <1>4, <2>2, <2>3, FinalizeEffect
<1>5. ASSUME NEW a \in Attempt, RecordRunEnd(a)
      PROVE  StreakInv'
  BY <1>5, RecordCounts
<1>6. ASSUME NEW a \in Attempt, AlertOnStreak(a)
      PROVE  StreakInv'
  BY <1>6, AlertCounts
<1>7. ASSUME NEW a \in Attempt, RecordRunError(a)
      PROVE  StreakInv'
  <2>1. run[a].job = "letter" /\ RunOf(a, run[a].st, "none") /\ UNCHANGED streak
    BY <1>7, RecordErrorEffect
  <2> QED BY <2>1, PendingKept, StreakKept
<1>8. ASSUME NEW a \in Attempt, RecordFails(a)
      PROVE  StreakInv'
  <2>1. /\ streak' \in StreakState /\ streak \in StreakState
        /\ streak'.receipts = streak.receipts /\ streak'.floors = streak.floors
        /\ streak'.alerts = streak.alerts
        /\ streak'.blurred <=> streak.blurred \/ run[a].job = "check"
    BY <1>8, RecordFailsEffect DEF TypeOK, StreakState
  <2>2. CASE streak'.blurred
    BY <1>0, <2>1, <2>2, StreakBlurs
  <2>3. CASE ~streak'.blurred
    <3>1. run[a].job # "check" /\ ~streak.blurred
      BY <2>1, <2>3
    <3>2. PICK j \in {"none", "letter"} : RunOf(a, run[a].st, j)
      BY <1>8, RecordFailsEffect DEF AfterReceipt
    <3>3. Pending' = Pending
      BY <3>1, <3>2, PendingKept
    <3>4. Long' = Long /\ StreakOf' = StreakOf
      BY <2>1, LongOf DEF StreakOf, Floor
    <3> HIDE DEF StreakOf, Long, Pending
    <3> QED BY <1>0, <2>1, <3>1, <3>3, <3>4 DEF StreakInv
  <2> QED BY <2>2, <2>3
<1>9. ASSUME NEW a \in Attempt, Reap(a)
      PROVE  StreakInv'
  <2>1. UNCHANGED streak /\ RunOf(a, "error", run[a].job)
    BY <1>9, ReapEffect
  <2>2. Pending' = Pending
    BY <2>1 DEF RunOf, Pending
  <2> QED BY <2>1, <2>2, StreakKept
<1>10. CASE Resume
  <2>1. /\ streak'.receipts = streak.receipts /\ streak'.alerts = streak.alerts
        /\ streak'.floors = streak.floors \cup {Len(streak.receipts)}
        /\ streak'.blurred <=> streak.blurred \/ Pending # {}
        /\ run' = run
    BY <1>10, ResumeEffect
  <2>2. CASE streak'.blurred
    BY <1>0, <2>1, <2>2, StreakBlurs
  <2>3. CASE ~streak'.blurred
    <3>1. ~streak.blurred /\ Pending = {} /\ Pending' = {}
      BY <2>1, <2>3 DEF Pending
    <3>2. Long' = Long
      BY <1>0, <2>1, ResumeCounts
    <3>3. 0 \in streak'.floors
      BY <1>0, <2>1
    <3> HIDE DEF StreakOf, Long, Pending
    <3> QED BY <2>1, <3>1, <3>2, <3>3 DEF StreakInv
  <2> QED BY <2>2, <2>3
<1>11. CASE Crash
  <2>1. /\ streak'.receipts = streak.receipts /\ streak'.alerts = streak.alerts
        /\ streak'.floors = streak.floors
        /\ streak'.blurred <=> streak.blurred \/ Pending # {}
        /\ \A b \in Attempt : run'[b].job = "none"
    BY <1>11, CrashEffect
  <2>2. CASE streak'.blurred
    BY <1>0, <2>1, <2>2, StreakBlurs
  <2>3. CASE ~streak'.blurred
    <3>1. ~streak.blurred /\ Pending = {} /\ Pending' = {}
      BY <2>1, <2>3 DEF Pending
    <3>2. Long' = Long
      BY <2>1, LongOf
    <3> HIDE DEF StreakOf, Long, Pending
    <3> QED BY <1>0, <2>1, <3>1, <3>2 DEF StreakInv
  <2> QED BY <2>2, <2>3
<1>13. ASSUME NEW a \in Attempt, FinalizeRunFails(a)
       PROVE  StreakInv'
  <2>1. run[a].job = "work" /\ RunOf(a, run[a].st, "failed") /\ UNCHANGED streak
    BY <1>13, FinalizeFailsEffect
  <2> QED BY <2>1, PendingKept, StreakKept
<1>12. CASE UNCHANGED vars \/ \E k \in Key : Lapse(k)
  <2>1. UNCHANGED <<run, streak>>
    BY <1>12, LapseEffect DEF vars
  <2>2. Pending' = Pending
    BY <2>1 DEF Pending
  <2> QED BY <2>1, <2>2, StreakKept
<1> QED
  BY <1>1, <1>2, <1>3, <1>4, <1>5, <1>6, <1>7, <1>8, <1>9, <1>10, <1>11, <1>12, <1>13
  DEF Next, RequestStep, JobStep

\* "Exactly when the trigger's failure streak reaches ALERT_STREAK, one message": as
\* long as nothing came between a receipt and its own check, the alerts are as many as
\* the streaks that became long enough, whatever ALERT_STREAK is.
THEOREM AlertsAreExact == Spec => []OneAlertPerStreak
<1>1. Init => BoxInv /\ LetterInv /\ StreakInv
  <2> SUFFICES ASSUME Init
               PROVE  BoxInv /\ LetterInv /\ StreakInv
    OBVIOUS
  <2>1. BoxInv /\ LetterInv
    BY LetterInit
  <2>3. /\ streak.receipts = <<>> /\ 0 \in streak.floors /\ streak.alerts = 0 /\ Pending = {}
        /\ Len(<<>>) = 0
    BY DEF Init, Pending
  <2>4. Long = {}
    BY <2>3 DEF Long
  <2>5. streak.alerts + 0 = Cardinality(Long)
    BY <2>3, <2>4, FS_EmptySet
  <2>6. StreakInv
    <3> HIDE DEF Long, Pending, StreakOf
    <3> QED BY <2>3, <2>5 DEF StreakInv
  <2> QED BY <2>1, <2>6
<1>2. TypeOK /\ StreakInv => OneAlertPerStreak
  <2> SUFFICES ASSUME TypeOK, StreakInv, ~streak.blurred, \A a \in Attempt : run[a].job # "check"
               PROVE  streak.alerts = Cardinality(Long)
    BY DEF OneAlertPerStreak, Long
  <2>1. Pending = {} /\ streak.alerts \in Nat
    BY DEF Pending, TypeOK
  <2> HIDE DEF Long, Pending, StreakOf
  <2> QED BY <2>1 DEF StreakInv
<1>3. TypeOK /\ RequestInv /\ BoxInv /\ LetterInv /\ StreakInv /\ [Next]_vars
        => BoxInv' /\ LetterInv' /\ StreakInv'
  BY TypeStep, LetterInvStep, StreakStep
<1> QED BY <1>1, <1>2, <1>3, RequestInvHolds, PTL DEF Spec
=============================================================================
