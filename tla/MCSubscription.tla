---------------------------- MODULE MCSubscription ----------------------------
(* Subscription for TLC: three papers, of which one has no delay. *)
EXTENDS Subscription

MCPapers == 1 .. 3
MCTypes == {"queue", "quote"}
MCWanted == [p \in MCPapers |-> IF p = 1 THEN {"quote"} ELSE MCTypes]
MCMinDelay == [p \in MCPapers |-> p - 1]
=============================================================================
