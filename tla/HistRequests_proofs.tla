-------------------------- MODULE HistRequests_proofs --------------------------
(***************************************************************************)
(* The safety of the historical requests, for any threads and any number   *)
(* of requests.                                                            *)
(***************************************************************************)
EXTENDS HistRequests, TLAPS

\* A number is in one place at most, and only numbers counted so far are
\* anywhere, so that a new number is in none.
Places ==
    /\ \A r \in requests : r <= reqId /\ r # taken /\ state[r] = "Unknown"
    /\ taken # NoRequest => taken <= reqId /\ state[taken] = "Unknown"
    /\ \A r \in Ids : state[r] = "Completed" => r <= reqId

\* What a thread asks about is somewhere; it is completed once the thread was
\* woken, and not completed while it sleeps.
Handles ==
    \A t \in Threads :
        /\ handle[t] # NoRequest =>
                \/ handle[t] \in requests
                \/ handle[t] = taken
                \/ state[handle[t]] = "Completed"
        /\ waiter[t] # "out" => handle[t] # NoRequest
        /\ waiter[t] \in {"asleep", "timed"} => state[handle[t]] = "Unknown"
        /\ waiter[t] = "woken" => state[handle[t]] = "Completed"

HistInvariant == TypeOK /\ Places /\ Handles

LEMMA InitInvariant == Init => HistInvariant
BY HistAssumption DEF Init, HistInvariant, TypeOK, Places, Handles, Ids, NoRequest

LEMMA RequestKeeps ==
    ASSUME HistInvariant, NEW t \in Threads, RequestHistoricalQuotes(t)
    PROVE  HistInvariant'
<1> USE HistAssumption DEF HistInvariant, Ids, NoRequest
<1>1. /\ reqId \in Nat /\ reqId' = reqId + 1 /\ reqId' \in Ids
      /\ requests' = requests \cup {reqId'}
      /\ handle' = [handle EXCEPT ![t] = reqId']
      /\ waiter' = [waiter EXCEPT ![t] = "sending"]
      /\ UNCHANGED <<state, queued, received, taken, told>>
  BY DEF RequestHistoricalQuotes, wire, TypeOK
<1>2. TypeOK'
  BY <1>1 DEF TypeOK
<1>3. state[reqId'] = "Unknown" /\ reqId' # taken /\ reqId' # 0
  BY <1>1 DEF Places, TypeOK
<1>4. Places'
  BY <1>1, <1>3 DEF Places, TypeOK
<1>5. Handles'
  BY <1>1, <1>3 DEF Handles, TypeOK
<1> QED BY <1>2, <1>4, <1>5

LEMMA AnswerKeeps ==
    ASSUME HistInvariant, NEW r \in Ids, Answer(r)
    PROVE  HistInvariant'
<1> USE HistAssumption DEF HistInvariant, Ids, NoRequest
<1>1. /\ taken = 0 /\ r \in requests /\ taken' = r
      /\ requests' = requests \ {r}
      /\ UNCHANGED <<reqId, state, queued, received, handle, waiter, told>>
  BY DEF Answer, wire, waits
<1>2. TypeOK'
  BY <1>1 DEF TypeOK
<1>3. Places' /\ Handles'
  BY <1>1 DEF Places, Handles, TypeOK
<1> QED BY <1>2, <1>3

LEMMA CompleteKeeps ==
    ASSUME HistInvariant, Complete
    PROVE  HistInvariant'
<1> USE HistAssumption DEF HistInvariant, Ids, NoRequest
<1>1. /\ taken \in Ids
      /\ state' = [state EXCEPT ![taken] = "Completed"]
      /\ waiter' = [t \in Threads |->
                      IF handle[t] = taken /\ waiter[t] \in {"asleep", "timed"}
                      THEN "woken" ELSE waiter[t]]
      /\ taken' = 0
      /\ UNCHANGED <<reqId, requests, queued, received, handle, told>>
  BY DEF Complete, wire, TypeOK
<1>2. TypeOK'
  <2>1. state' \in [Ids -> {"Unknown", "Completed"}]
    BY <1>1 DEF TypeOK
  <2>2. waiter' \in [Threads -> {"out", "sending", "asleep", "timed", "woken", "late"}]
    BY <1>1 DEF TypeOK
  <2> QED BY <1>1, <2>1, <2>2 DEF TypeOK
<1>3. Places'
  BY <1>1 DEF Places, TypeOK
<1>4. Handles'
  <2> SUFFICES ASSUME NEW t \in Threads
               PROVE  /\ handle[t] # 0 =>
                            \/ handle[t] \in requests
                            \/ state'[handle[t]] = "Completed"
                      /\ waiter'[t] # "out" => handle[t] # 0
                      /\ waiter'[t] \in {"asleep", "timed"}
                            => state'[handle[t]] = "Unknown"
                      /\ waiter'[t] = "woken" => state'[handle[t]] = "Completed"
    BY <1>1 DEF Handles
  <2>1. handle[t] \in Ids \cup {0}
    BY DEF TypeOK
  <2>2. CASE handle[t] = taken
    BY <1>1, <2>1, <2>2 DEF Handles, TypeOK
  <2>3. CASE handle[t] # taken
    BY <1>1, <2>1, <2>3 DEF Handles, TypeOK
  <2> QED BY <2>2, <2>3
<1> QED BY <1>2, <1>3, <1>4

LEMMA NextInvariant == HistInvariant /\ [Next]_vars => HistInvariant'
<1> SUFFICES ASSUME HistInvariant, [Next]_vars PROVE HistInvariant'
  OBVIOUS
<1> USE HistAssumption DEF Ids, NoRequest
<1>1. CASE \E t \in Threads : RequestHistoricalQuotes(t)
  BY <1>1, RequestKeeps
<1>2. CASE \E t \in Threads : WriteToSock(t)
  <2>1. PICK t \in Threads : WriteToSock(t)
    BY <1>2
  <2>2. /\ queued' = queued \cup {handle[t]} /\ handle[t] # 0
        /\ waiter' = [waiter EXCEPT ![t] = "out"]
        /\ UNCHANGED <<reqId, requests, state, received, taken, handle, told>>
    BY <2>1 DEF WriteToSock, HistInvariant, Handles
  <2>3. TypeOK'
    BY <2>2 DEF HistInvariant, TypeOK
  <2>4. Places' /\ Handles'
    BY <2>2 DEF HistInvariant, TypeOK, Places, Handles
  <2> QED BY <2>3, <2>4 DEF HistInvariant
<1>3. CASE \E t, u \in Threads : Share(t, u)
  <2>1. PICK t \in Threads, u \in Threads : Share(t, u)
    BY <1>3
  <2>2. /\ waiter[u] = "out" /\ handle' = [handle EXCEPT ![u] = handle[t]]
        /\ UNCHANGED <<reqId, requests, state, queued, received, taken,
                       waiter, told>>
    BY <2>1 DEF Share, wire
  <2> QED BY <2>2 DEF HistInvariant, TypeOK, Places, Handles
<1>4. CASE \E t \in Threads, how \in {"asleep", "timed"} : Wait(t, how)
  <2>1. PICK t \in Threads, how \in {"asleep", "timed"} : Wait(t, how)
    BY <1>4
  <2>2. /\ handle[t] # 0
        /\ UNCHANGED <<reqId, requests, state, queued, received, taken, handle>>
    BY <2>1 DEF Wait, wire
  <2>3. handle[t] \in Ids
    BY <2>2 DEF HistInvariant, TypeOK
  <2>4. CASE state[handle[t]] # "Unknown"
    BY <2>1, <2>2, <2>4 DEF Wait, HistInvariant, TypeOK, Places, Handles
  <2>5. CASE state[handle[t]] = "Unknown"
    BY <2>1, <2>2, <2>5 DEF Wait, HistInvariant, TypeOK, Places, Handles
  <2> QED BY <2>4, <2>5
<1>5. CASE \E t \in Threads : TimeIsUp(t)
  BY <1>5 DEF TimeIsUp, wire, HistInvariant, TypeOK, Places, Handles
<1>6. CASE \E t \in Threads : Return(t)
  BY <1>6 DEF Return, wire, HistInvariant, TypeOK, Places, Handles
<1>7. CASE OrderRequest
  BY <1>7 DEF OrderRequest, wire, waits, HistInvariant, TypeOK, Places, Handles
<1>8. CASE \E r \in Ids : Written(r) \/ WriteFails(r)
  <2>1. /\ queued' \subseteq queued
        /\ received' \subseteq received \cup queued
        /\ UNCHANGED <<reqId, requests, state, taken, handle, waiter, told>>
    BY <1>8 DEF Written, WriteFails, waits
  <2>2. TypeOK'
    BY <2>1 DEF HistInvariant, TypeOK
  <2>3. Places' /\ Handles'
    BY <2>1 DEF HistInvariant, Places, Handles
  <2> QED BY <2>2, <2>3 DEF HistInvariant
<1>9. CASE \E r \in Ids : Answer(r)
  BY <1>9, AnswerKeeps
<1>10. CASE Complete
  BY <1>10, CompleteKeeps
<1>11. CASE UNCHANGED vars
  BY <1>11 DEF vars, HistInvariant, TypeOK, Places, Handles
<1> QED
  BY <1>1, <1>2, <1>3, <1>4, <1>5, <1>6, <1>7, <1>8, <1>9, <1>10, <1>11
     DEF Next, ThreadStep, NetworkStep

LEMMA InvariantHolds == Spec => []HistInvariant
BY InitInvariant, NextInvariant, PTL DEF Spec

-----------------------------------------------------------------------------
\* The variables keep their types.
THEOREM TypeCorrect == Spec => []TypeOK
BY InvariantHolds, PTL DEF HistInvariant

\* The request behind a handle is never lost and never answered twice: it is
\* in the hash, in the hands of the network thread, or completed.
THEOREM RequestsAccounted == Spec => []InOnePlace
<1>1. HistInvariant => InOnePlace
  <2> SUFFICES ASSUME HistInvariant, NEW t \in Threads, handle[t] # NoRequest
               PROVE  LET r == handle[t]
                      IN  \/ r \in requests /\ r # taken /\ state[r] = "Unknown"
                          \/ r \notin requests /\ r = taken /\ state[r] = "Unknown"
                          \/ r \notin requests /\ r # taken /\ state[r] = "Completed"
    BY DEF InOnePlace
  <2> QED BY DEF HistInvariant, TypeOK, Places, Handles
<1> QED BY <1>1, InvariantHolds, PTL

\* No thread sleeps on a completed request.
THEOREM NoWakeupLost == Spec => []NobodySleepsOn
<1>1. HistInvariant => NobodySleepsOn
  BY DEF HistInvariant, Handles, NobodySleepsOn
<1> QED BY <1>1, InvariantHolds, PTL

\* wait returns true for completed requests only.
THEOREM WaitIsTruthful == Spec => TrueIsCompleted
<1>1. ASSUME HistInvariant, [Next]_vars
      PROVE  [\A t \in Threads : told'[t] = "true" /\ told'[t] # told[t]
                => state[handle[t]] = "Completed"]_vars
  <2> SUFFICES ASSUME NEW t \in Threads, told'[t] = "true", told'[t] # told[t]
               PROVE  state[handle[t]] = "Completed"
    OBVIOUS
  <2>1. told # told'
    OBVIOUS
  <2>2. \E u \in Threads : (\E how \in {"asleep", "timed"} : Wait(u, how)) \/ Return(u)
    BY <1>1, <2>1 DEF Next, ThreadStep, NetworkStep, vars, wire, waits,
       RequestHistoricalQuotes, WriteToSock, Share, TimeIsUp, OrderRequest,
       Written, WriteFails, Answer, Complete
  <2>3. PICK u \in Threads : (\E how \in {"asleep", "timed"} : Wait(u, how)) \/ Return(u)
    BY <2>2
  <2>4. told \in [Threads -> {"none", "true", "false"}]
    BY <1>1 DEF HistInvariant, TypeOK
  <2>5. CASE \E how \in {"asleep", "timed"} : Wait(u, how)
    <3>1. state[handle[u]] # "Unknown" /\ handle[u] # NoRequest
          /\ told' = [told EXCEPT ![u] = "true"]
      BY <2>1, <2>5 DEF Wait
    <3>2. u = t
      BY <2>4, <3>1
    <3> QED BY <1>1, <3>1, <3>2 DEF HistInvariant, TypeOK, NoRequest
  <2>6. CASE Return(u)
    <3>1. told' = [told EXCEPT ![u] = IF waiter[u] = "woken" THEN "true" ELSE "false"]
      BY <2>6 DEF Return
    <3>2. u = t /\ waiter[t] = "woken"
      BY <2>4, <3>1
    <3> QED BY <1>1, <3>2 DEF HistInvariant, Handles
  <2> QED BY <2>3, <2>5, <2>6
<1> QED BY <1>1, InvariantHolds, PTL DEF Spec, TrueIsCompleted
=============================================================================
