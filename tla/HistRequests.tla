----------------------------- MODULE HistRequests -----------------------------
(***************************************************************************)
(* Requests for historical quotes.  A user thread registers its request    *)
(* under m_rwLock and queues the write; the network thread writes, takes   *)
(* the request of an answer from the hash and completes it after the lock  *)
(* is released.  Threads wait for a request, with or without a timeout, in *)
(* RequestDataPrivate::wait.                                               *)
(*                                                                         *)
(* External: the server, which answers what it received and may answer     *)
(* again; the socket, on which a write may fail; QWaitCondition.           *)
(***************************************************************************)
EXTENDS Naturals

CONSTANTS
    Threads,     \* user threads
    MaxRequests  \* bound: requests made, those for orders included

ASSUME HistAssumption == MaxRequests \in Nat

Ids == 1 .. MaxRequests
NoRequest == 0

VARIABLES
    reqId,    \* m_reqId, which the orders count as well
    requests, \* the keys of m_requests
    state,    \* m_state of each request
    queued,   \* writes queued for the network thread
    received, \* external: requests the server has received
    taken,    \* the request the network thread has taken and not completed
    handle,   \* per thread: the request it asks about
    waiter,   \* per thread: where it is in wait
    told      \* per thread: what its last wait returned

vars == <<reqId, requests, state, queued, received, taken, handle,
          waiter, told>>
waits == <<handle, waiter, told>>
wire == <<queued, received>>

Init ==
    /\ reqId = 0
    /\ requests = {}
    /\ state = [r \in Ids |-> "Unknown"]
    /\ queued = {}
    /\ received = {}
    /\ taken = NoRequest
    /\ handle = [t \in Threads |-> NoRequest]
    /\ waiter = [t \in Threads |-> "out"]
    /\ told = [t \in Threads |-> "none"]

-----------------------------------------------------------------------------
(* User threads.                                                           *)

\* requestHistoricalQuotes, the part under the lock.
RequestHistoricalQuotes(t) ==
    /\ waiter[t] = "out"
    /\ reqId < MaxRequests
    /\ reqId' = reqId + 1
    /\ requests' = requests \cup {reqId'}
    /\ handle' = [handle EXCEPT ![t] = reqId']
    /\ waiter' = [waiter EXCEPT ![t] = "sending"]
    /\ UNCHANGED <<state, wire, taken, told>>

\* Its rest: writeToSock queues the write and is always content.
WriteToSock(t) ==
    /\ waiter[t] = "sending"
    /\ queued' = queued \cup {handle[t]}
    /\ waiter' = [waiter EXCEPT ![t] = "out"]
    /\ UNCHANGED <<reqId, requests, state, received, taken, handle, told>>

\* An order operation takes the next number.
OrderRequest ==
    /\ reqId < MaxRequests
    /\ reqId' = reqId + 1
    /\ UNCHANGED <<requests, state, wire, taken, waits>>

\* A handle is copied to another thread.
Share(t, u) ==
    /\ waiter[t] = "out" /\ waiter[u] = "out"
    /\ handle[t] # NoRequest
    /\ handle' = [handle EXCEPT ![u] = handle[t]]
    /\ UNCHANGED <<reqId, requests, state, wire, taken, waiter, told>>

\* Mutant: the thread sleeps without a look at the state.
WaitUnseen(t, how) ==
    /\ waiter[t] = "out"
    /\ handle[t] # NoRequest
    /\ waiter' = [waiter EXCEPT ![t] = how]
    /\ UNCHANGED <<reqId, requests, state, wire, taken, handle, told>>

\* RequestDataPrivate::wait, without a timeout or with one.
Wait(t, how) ==
    /\ waiter[t] = "out"
    /\ handle[t] # NoRequest
    /\ IF state[handle[t]] # "Unknown"
       THEN told' = [told EXCEPT ![t] = "true"] /\ UNCHANGED waiter
       ELSE waiter' = [waiter EXCEPT ![t] = how] /\ UNCHANGED told
    /\ UNCHANGED <<reqId, requests, state, wire, taken, handle>>

\* External: the time of a sleeping thread is up.
TimeIsUp(t) ==
    /\ waiter[t] = "timed"
    /\ waiter' = [waiter EXCEPT ![t] = "late"]
    /\ UNCHANGED <<reqId, requests, state, wire, taken, handle, told>>

\* The thread has the mutex again.
Return(t) ==
    /\ waiter[t] \in {"woken", "late"}
    /\ waiter' = [waiter EXCEPT ![t] = "out"]
    /\ told' = [told EXCEPT ![t] = IF waiter[t] = "woken" THEN "true" ELSE "false"]
    /\ UNCHANGED <<reqId, requests, state, wire, taken, handle>>

-----------------------------------------------------------------------------
(* Network thread.                                                         *)

\* tcpWriteToSock, when all goes well and when the socket is closed, the
\* encoding fails or the socket takes less: no caller hears of a failure.
Written(r) ==
    /\ taken = NoRequest
    /\ r \in queued
    /\ queued' = queued \ {r}
    /\ received' = received \cup {r}
    /\ UNCHANGED <<reqId, requests, state, taken, waits>>

WriteFails(r) ==
    /\ taken = NoRequest
    /\ r \in queued
    /\ queued' = queued \ {r}
    /\ UNCHANGED <<reqId, requests, state, received, taken, waits>>

\* Mutant: the request is looked up and left in the hash.
AnswerLeaving(r) ==
    /\ taken = NoRequest
    /\ r \in received \cap requests
    /\ taken' = r
    /\ UNCHANGED <<reqId, requests, state, wire, waits>>

\* HIST_QUOTES with a known request id; any other answer is skipped.
Answer(r) ==
    /\ taken = NoRequest
    /\ r \in received \cap requests
    /\ taken' = r
    /\ requests' = requests \ {r}
    /\ UNCHANGED <<reqId, state, wire, waits>>

\* Mutant: only threads with a timeout are woken.
CompleteTimed ==
    /\ taken # NoRequest
    /\ state' = [state EXCEPT ![taken] = "Completed"]
    /\ waiter' = [t \in Threads |->
                    IF handle[t] = taken /\ waiter[t] = "timed"
                    THEN "woken" ELSE waiter[t]]
    /\ taken' = NoRequest
    /\ UNCHANGED <<reqId, requests, wire, handle, told>>

\* setState( RequestCompleted ), after the lines of the answer were parsed.
Complete ==
    /\ taken # NoRequest
    /\ state' = [state EXCEPT ![taken] = "Completed"]
    /\ waiter' = [t \in Threads |->
                    IF handle[t] = taken /\ waiter[t] \in {"asleep", "timed"}
                    THEN "woken" ELSE waiter[t]]
    /\ taken' = NoRequest
    /\ UNCHANGED <<reqId, requests, wire, handle, told>>

-----------------------------------------------------------------------------
ThreadStep(t) ==
    \/ RequestHistoricalQuotes(t)
    \/ WriteToSock(t)
    \/ \E u \in Threads : Share(t, u)
    \/ \E how \in {"asleep", "timed"} : Wait(t, how)
    \/ TimeIsUp(t)
    \/ Return(t)

NetworkStep ==
    \/ \E r \in Ids : Written(r) \/ WriteFails(r) \/ Answer(r)
    \/ Complete

Next == (\E t \in Threads : ThreadStep(t)) \/ OrderRequest \/ NetworkStep

\* Threads and the event loop run, timeouts run out, and the server answers
\* what it received.  Nothing makes a write succeed.
Fairness ==
    /\ \A t \in Threads : WF_vars(WriteToSock(t)) /\ WF_vars(Return(t))
                            /\ WF_vars(TimeIsUp(t))
    /\ \A r \in Ids : WF_vars(Written(r) \/ WriteFails(r)) /\ WF_vars(Answer(r))
    /\ WF_vars(Complete)

Spec == Init /\ [][Next]_vars

FairSpec == Spec /\ Fairness

-----------------------------------------------------------------------------
TypeOK ==
    /\ reqId \in 0 .. MaxRequests
    /\ requests \subseteq Ids
    /\ state \in [Ids -> {"Unknown", "Completed"}]
    /\ queued \subseteq Ids /\ received \subseteq Ids
    /\ taken \in Ids \cup {NoRequest}
    /\ handle \in [Threads -> Ids \cup {NoRequest}]
    /\ waiter \in [Threads -> {"out", "sending", "asleep", "timed", "woken", "late"}]
    /\ told \in [Threads -> {"none", "true", "false"}]

\* Whoever holds a handle holds a request that is in exactly one place: still
\* in the hash, in the hands of the network thread, or completed.
InOnePlace ==
    \A t \in Threads :
        LET r == handle[t]
        IN  r # NoRequest =>
                \/ r \in requests /\ r # taken /\ state[r] = "Unknown"
                \/ r \notin requests /\ r = taken /\ state[r] = "Unknown"
                \/ r \notin requests /\ r # taken /\ state[r] = "Completed"

\* No wakeup is lost: the state is set under the mutex of the sleepers, but
\* after the request left the hash and m_rwLock was released.
NobodySleepsOn ==
    \A t \in Threads :
        waiter[t] \in {"asleep", "timed"} => state[handle[t]] = "Unknown"

\* wait returns true only for a request that was answered.
TrueIsCompleted ==
    [][\A t \in Threads :
        told'[t] = "true" /\ told'[t] # told[t]
            => state[handle[t]] = "Completed"]_vars

\* Whoever waits for a request the server received comes back, even without a
\* timeout.
ReceivedReturns ==
    \A t \in Threads :
        waiter[t] = "asleep" /\ handle[t] \in received ~> waiter[t] = "out"

=============================================================================
