---------------------------- MODULE OperationWait ----------------------------
(***************************************************************************)
(* Waiting for the result of one order operation: the mutex, the condition *)
(* variable and the result of an ADOrderOperationPrivate.  User threads    *)
(* wait with or without a timeout; any number of handlers end the          *)
(* operation, of which the first one counts.                               *)
(*                                                                         *)
(* QWaitCondition is external: wakeAll wakes every sleeper, a thread wakes *)
(* only by wakeAll or because its time is up, and a thread whose time is   *)
(* up has still to get the mutex before it returns.                        *)
(***************************************************************************)
CONSTANT Threads   \* user threads

Unknown == "Unknown"
Ends == {"Success", "Error"}

VARIABLES
    result,  \* m_result
    waiter,  \* where each thread is in waitForOperationResult
    timed,   \* the threads that wait with a timeout
    got      \* what the last call of each thread returned, "none" before

vars == <<result, waiter, timed, got>>

Init ==
    /\ result = Unknown
    /\ waiter = [t \in Threads |-> "out"]
    /\ timed = {}
    /\ got = [t \in Threads |-> "none"]

\* Mutant: the thread sleeps without a look at the result.
WaitUnseen(t, in) ==
    /\ waiter[t] = "out"
    /\ waiter' = [waiter EXCEPT ![t] = "asleep"]
    /\ timed' = IF in THEN timed \cup {t} ELSE timed \ {t}
    /\ UNCHANGED <<result, got>>

\* waitForOperationResult: returns a result that is there, or sleeps.
WaitForOperationResult(t, in) ==
    /\ waiter[t] = "out"
    /\ IF result # Unknown
       THEN /\ got' = [got EXCEPT ![t] = result]
            /\ UNCHANGED <<waiter, timed>>
       ELSE /\ waiter' = [waiter EXCEPT ![t] = "asleep"]
            /\ timed' = IF in THEN timed \cup {t} ELSE timed \ {t}
            /\ UNCHANGED got
    /\ UNCHANGED result

\* Mutant: wakeOne.
WokenOne ==
    [t \in Threads |->
        IF waiter[t] = "asleep" /\ t = CHOOSE u \in Threads : waiter[u] = "asleep"
        THEN "woken" ELSE waiter[t]]

\* wakeAll.
Woken == [t \in Threads |-> IF waiter[t] = "asleep" THEN "woken" ELSE waiter[t]]

\* wakeUpAll: only the first result is kept.
WakeUpAll(r) ==
    /\ result = Unknown
    /\ result' = r
    /\ waiter' = Woken
    /\ UNCHANGED <<timed, got>>

\* External: the timeout of a sleeping thread.
TimeIsUp(t) ==
    /\ waiter[t] = "asleep"
    /\ t \in timed
    /\ waiter' = [waiter EXCEPT ![t] = "late"]
    /\ UNCHANGED <<result, timed, got>>

\* Mutant: what QWaitCondition::wait returns is not looked at.
ReturnResult(t) ==
    /\ waiter[t] \in {"woken", "late"}
    /\ waiter' = [waiter EXCEPT ![t] = "out"]
    /\ got' = [got EXCEPT ![t] = result]
    /\ UNCHANGED <<result, timed>>

\* The thread has the mutex again.
Return(t) ==
    /\ waiter[t] \in {"woken", "late"}
    /\ waiter' = [waiter EXCEPT ![t] = "out"]
    /\ got' = [got EXCEPT ![t] = IF waiter[t] = "late" THEN "Timeout" ELSE result]
    /\ UNCHANGED <<result, timed>>

ThreadStep(t) ==
    \/ \E in \in BOOLEAN : WaitForOperationResult(t, in)
    \/ TimeIsUp(t)
    \/ Return(t)

Next == (\E t \in Threads : ThreadStep(t)) \/ (\E r \in Ends : WakeUpAll(r))

\* Threads get the mutex in the end, and timeouts run out.
Fairness == \A t \in Threads : WF_vars(Return(t)) /\ WF_vars(TimeIsUp(t))

Spec == Init /\ [][Next]_vars /\ Fairness

-----------------------------------------------------------------------------
TypeOK ==
    /\ result \in {Unknown} \cup Ends
    /\ waiter \in [Threads -> {"out", "asleep", "woken", "late"}]
    /\ timed \subseteq Threads
    /\ got \in [Threads -> {"none", "Timeout"} \cup Ends]

\* No wakeup is lost: nobody sleeps on an operation that has its result,
\* because result and sleep are decided under one mutex.
NobodySleepsOn ==
    result # Unknown => \A t \in Threads : waiter[t] # "asleep"

\* All threads that were told a result were told the same one, which is the
\* result of the operation; a thread is never told Unknown.
OneAnswer == \A t \in Threads : got[t] \in {"none", "Timeout", result}

\* Only a thread that asked for a timeout is told of one, however the end of
\* the operation races the end of the time.
TimeoutWasAskedFor ==
    [][\A t \in Threads :
        got'[t] = "Timeout" /\ got[t] # "Timeout" => t \in timed]_vars

\* Every thread comes back, unless it waits without a timeout for an operation
\* that nobody ends.
Returns ==
    \A t \in Threads :
        waiter[t] # "out" /\ (t \in timed \/ result # Unknown)
            ~> waiter[t] = "out"
=============================================================================
