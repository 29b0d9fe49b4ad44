---------------------------- MODULE MCToolCalls -----------------------------
(* Instances of module ToolCalls for TLC.                                  *)
EXTENDS ToolCalls

Asks(a, t, k) == [args |-> a, token |-> t, keyed |-> k]

\* Three requests under the key, one of them with other arguments, and a request
\* without a key that carries the same token.
MCRequests ==
    {[c \in {"c1", "c2", "c3"} |->
        CASE c = "c1" -> Asks("a", "t", TRUE)
          [] c = "c2" -> Asks("a", "t", TRUE)
          [] c = "c3" -> last] :
       last \in {Asks("a", "t", TRUE), Asks("b", "none", TRUE), Asks("a", "t", FALSE)}}
=============================================================================
