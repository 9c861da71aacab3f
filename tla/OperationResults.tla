--------------------------- MODULE OperationResults ---------------------------
(***************************************************************************)
(* What the order operations promise to whoever waits for them, without    *)
(* the orders: operations are made one after the other, and each of them   *)
(* gets at most one result, which it keeps.                                *)
(***************************************************************************)
EXTENDS Naturals

CONSTANT MaxRequests   \* bound: operations made

VARIABLES
    made,     \* operations 1 .. made exist
    result    \* what waitForOperationResult would return, if anything

Init ==
    /\ made = 0
    /\ result = [r \in 1 .. MaxRequests |-> "Unknown"]

Make ==
    /\ made < MaxRequests
    /\ made' = made + 1
    /\ UNCHANGED result

Resolve(r) ==
    /\ r <= made
    /\ result[r] = "Unknown"
    /\ \E res \in {"Success", "Error"} : result' = [result EXCEPT ![r] = res]
    /\ UNCHANGED made

Next == Make \/ \E r \in 1 .. MaxRequests : Resolve(r)

Spec == Init /\ [][Next]_<<made, result>>
=============================================================================
