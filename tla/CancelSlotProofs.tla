-------------------------- MODULE CancelSlotProofs --------------------------
(***************************************************************************)
(* Theorems about module CancelSlot, for any set of sandboxes. What keeps  *)
(* a cancel away from the warm pool is that the slot never names a pooled  *)
(* sandbox, nested calls or not. What lets a cancel reach the sandbox in   *)
(* flight is that the slot names it as long as it serves; that needs the   *)
(* round trips of the run to be one at a time.                             *)
(***************************************************************************)
EXTENDS CancelSlot, TLAPS

\* No step takes the registry, the slot, the trips or the history out of their types.
LEMMA TypeStep == TypeOK /\ [Next]_vars => TypeOK'
<1> SUFFICES ASSUME TypeOK, [Next]_vars
             PROVE  TypeOK'
  OBVIOUS
<1> USE SlotAssumption DEF TypeOK, Trip, Answers
<1>1. CASE Register \/ JobReturns \/ Unregister
  BY <1>1 DEF Register, JobReturns, Unregister
<1>2. CASE Deadline
  BY <1>2 DEF Deadline, InFlight
<1>3. ASSUME NEW s \in Sandbox, Spawn(s) \/ Answer(s) \/ Clear(s) \/ ColdFails(s)
      PROVE  TypeOK'
  BY <1>3 DEF Spawn, Answer, Clear, ColdFails
<1>4. ASSUME NEW s \in Sandbox, SetLive(s)
      PROVE  TypeOK'
  <2>1. <<s, trip[s]>> \in Sandbox \X Trip
    OBVIOUS
  <2>2. killed' \subseteq Sandbox \X Trip
    BY <1>4, <2>1 DEF SetLive
  <2>3. CASE ~slot.cancel_requested
    BY <1>4, <2>2, <2>3 DEF SetLive
  <2>4. CASE slot.cancel_requested
    BY <1>4, <2>2, <2>4 DEF SetLive
  <2> QED BY <2>3, <2>4
<1>5. CASE CancelRow \/ LookUpSlot \/ AwaitKill
  BY <1>5 DEF CancelRow, LookUpSlot, AwaitKill
<1>6. CASE RequestCancel
  <2>1. killed' \subseteq Sandbox \X Trip
    <3>1. \A s \in {slot.pid} \cap alive : <<s, trip[s]>> \in Sandbox \X Trip
      OBVIOUS
    <3> QED BY <1>6, <3>1 DEF RequestCancel
  <2>2. CASE slot.pid # NoPid
    BY <1>6, <2>1, <2>2 DEF RequestCancel
  <2>3. CASE slot.pid = NoPid
    BY <1>6, <2>1, <2>3 DEF RequestCancel
  <2> QED BY <2>2, <2>3
<1>7. CASE Terminated \/ UNCHANGED vars
  BY <1>7 DEF Terminated, vars
<1> QED
  BY <1>1, <1>2, <1>3, <1>4, <1>5, <1>6, <1>7 DEF Next, TaskStep, CancelStep

\* Type correctness of the registry, the slot and the round trips.
THEOREM TypeCorrect == Spec => []TypeOK
<1>1. Init => TypeOK
  <2>1. Init => slot \in [pid : Sandbox \cup {NoPid}, cancel_requested : BOOLEAN, killed : BOOLEAN]
    BY DEF Init
  <2>2. Init => trip \in [Sandbox -> Trip]
    BY DEF Init, Trip
  <2> QED BY <2>1, <2>2 DEF Init, TypeOK
<1> QED BY <1>1, TypeStep, PTL DEF Spec

-----------------------------------------------------------------------------
(* The warm pool.                                                          *)

\* The invariant of PoolIsNeverKilled is inductive: a pid enters the slot only with
\* set_live of its own sandbox, and clear takes it out before the sandbox is pooled.
LEMMA PoolStep == TypeOK /\ PoolIsNeverKilled /\ [Next]_vars => PoolIsNeverKilled'
<1> SUFFICES ASSUME TypeOK, PoolIsNeverKilled, [Next]_vars
             PROVE  PoolIsNeverKilled'
  OBVIOUS
<1> USE SlotAssumption DEF TypeOK, PoolIsNeverKilled
<1>1. CASE Register \/ JobReturns \/ Unregister
  BY <1>1 DEF Register, JobReturns, Unregister
<1>2. CASE Deadline
  <2>1. \A k \in killed' : k[2] # "pooled"
    BY <1>2 DEF Deadline
  <2>2. slot' = slot /\ \A s \in Sandbox : trip'[s] \in {"over", trip[s]}
    BY <1>2 DEF Deadline
  <2> QED BY <2>1, <2>2
<1>3. ASSUME NEW s \in Sandbox, Spawn(s) \/ Answer(s) \/ Clear(s) \/ ColdFails(s)
      PROVE  PoolIsNeverKilled'
  BY <1>3 DEF Spawn, Answer, Clear, ColdFails
<1>4. ASSUME NEW s \in Sandbox, SetLive(s)
      PROVE  PoolIsNeverKilled'
  BY <1>4 DEF SetLive
<1>5. CASE CancelRow \/ LookUpSlot \/ AwaitKill
  BY <1>5 DEF CancelRow, LookUpSlot, AwaitKill
<1>6. CASE RequestCancel
  <2>1. slot'.pid = slot.pid /\ trip' = trip
    BY <1>6 DEF RequestCancel
  <2>2. \A s \in {slot.pid} \cap alive : trip[s] # "pooled"
    OBVIOUS
  <2>3. \A k \in killed' : k[2] # "pooled"
    BY <1>6, <2>2 DEF RequestCancel
  <2> QED BY <2>1, <2>3
<1>7. CASE Terminated \/ UNCHANGED vars
  BY <1>7 DEF Terminated, vars
<1> QED
  BY <1>1, <1>2, <1>3, <1>4, <1>5, <1>6, <1>7 DEF Next, TaskStep, CancelStep

\* CancelSlot::clear before the sandbox is offered back: neither a cancel nor a deadline
\* ever kills a pooled sandbox, also when nested and parallel calls share the slot.
THEOREM PoolIsSafe == Spec => []PoolIsNeverKilled
<1>1. Init => PoolIsNeverKilled
  BY SlotAssumption DEF Init, PoolIsNeverKilled
<1> QED BY <1>1, PoolStep, TypeCorrect, PTL DEF Spec

-----------------------------------------------------------------------------
(* The sandbox in flight, without nested calls.                            *)

\* With one round trip at a time, the slot names the sandbox that serves; a call past
\* its request has left the flag in the slot, and what the flag killed stays dead.
SoloInv ==
    /\ \A s, t \in InFlight : s = t
    /\ \A s \in Sandbox : trip[s] = "serving" => slot.pid = s
    /\ call \in {"waiting", "killed", "not_killed"} => slot.cancel_requested
    /\ slot.cancel_requested => \A s \in Sandbox : ~(trip[s] = "serving" /\ s \in alive)

\* Every step preserves the invariant of a run with one round trip at a time.
LEMMA SoloStep ==
    ASSUME ~Overlap
    PROVE  TypeOK /\ SoloInv /\ [Next]_vars => SoloInv'
<1> SUFFICES ASSUME TypeOK, SoloInv, [Next]_vars
             PROVE  SoloInv'
  OBVIOUS
<1> USE SlotAssumption DEF TypeOK, SoloInv, InFlight
<1>1. CASE Register \/ JobReturns \/ Unregister
  BY <1>1 DEF Register, JobReturns, Unregister
<1>2. CASE Deadline
  <2>1. /\ slot' = slot /\ alive' \subseteq alive /\ call' = call
        /\ \A s \in Sandbox : trip'[s] \notin {"spawned", "serving", "answered"}
    BY <1>2 DEF Deadline
  <2> QED BY <2>1
<1>3. ASSUME NEW s \in Sandbox, Spawn(s) \/ Answer(s) \/ Clear(s) \/ ColdFails(s)
      PROVE  SoloInv'
  <2>1. CASE Spawn(s)
    BY <2>1 DEF Spawn
  <2>2. CASE Answer(s)
    BY <2>2 DEF Answer
  <2>3. CASE Clear(s)
    BY <2>3 DEF Clear
  <2>4. CASE ColdFails(s)
    BY <2>4 DEF ColdFails
  <2> QED BY <1>3, <2>1, <2>2, <2>3, <2>4
<1>4. ASSUME NEW s \in Sandbox, SetLive(s)
      PROVE  SoloInv'
  BY <1>4 DEF SetLive
<1>5. CASE CancelRow \/ LookUpSlot \/ AwaitKill
  BY <1>5 DEF CancelRow, LookUpSlot, AwaitKill
<1>6. CASE RequestCancel
  BY <1>6 DEF RequestCancel
<1>7. CASE Terminated \/ UNCHANGED vars
  BY <1>7 DEF Terminated, vars
<1> QED
  BY <1>1, <1>2, <1>3, <1>4, <1>5, <1>6, <1>7 DEF Next, TaskStep, CancelStep

\* CancelSlot::set_live and request_cancel: a run whose tool calls no other one has no
\* sandbox serving once its cancel has asked the slot, whichever of the two came first.
THEOREM CancelIsEffective ==
    ASSUME ~Overlap
    PROVE  Spec => []CancelReachesInFlight
<1>1. Init => SoloInv
  BY DEF Init, SoloInv, InFlight
<1>2. SoloInv => CancelReachesInFlight
  BY DEF SoloInv, CancelReachesInFlight
<1>3. TypeOK /\ SoloInv /\ [Next]_vars => SoloInv'
  BY SoloStep
<1> QED BY <1>1, <1>2, <1>3, TypeCorrect, PTL DEF Spec
=============================================================================
