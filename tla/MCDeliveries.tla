---------------------------- MODULE MCDeliveries ----------------------------
(* Instances of module Deliveries for TLC.                                 *)
EXTENDS Deliveries

By(r, k) == [route |-> r, key |-> k]

Mix(x, y, z) ==
    [a \in {"a1", "a2", "a3"} |-> CASE a = "a1" -> x [] a = "a2" -> y [] a = "a3" -> z]

\* A delivery and its retry, beside a replay or a delivery of another key.
MCTraffic ==
    {Mix(By("event", "k"), By("event", "k"), By("replay", "k")),
     Mix(By("event", "k"), By("event", "k"), By("replay_run", "k")),
     Mix(By("event", "k"), By("event", "k"), By("event", "l")),
     Mix(By("webhook", "k"), By("webhook", "k"), By("event", "l")),
     Mix(By("webhook", "k"), By("webhook", "k"), By("replay_row", "k"))}
=============================================================================
