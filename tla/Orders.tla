-------------------------------- MODULE Orders --------------------------------
(***************************************************************************)
(* The order registry of ADConnection: user threads create, change and     *)
(* cancel orders; the network thread sends the requests and applies what   *)
(* the server says.  Three unsynchronised streams arrive over one socket:  *)
(* the broker's responses to requests (MSG_ID blocks), status lines of the *)
(* account's orders (MY_ORDERS) and trade lines (MY_TRADES).               *)
(*                                                                         *)
(* Every handler of the code holds m_rwLock for writing from its first     *)
(* look at the hashes to its last change, so that each is one action.      *)
(* What the exchange and the broker do is external; it is constrained to   *)
(* answer requests in phases, to report each deal in one trade line, and   *)
(* to report an order closed only after it was closed.  Status lines may   *)
(* be late and repeated (the race described at ADConnection.h:543).        *)
(***************************************************************************)
EXTENDS OrderArithmetic

CONSTANTS
    Threads,      \* user threads
    Objects,      \* order objects (ADOrderPrivate) that can be allocated
    Ids,          \* order ids the exchange hands out
    NoId,         \* m_orderId(0): the object has no exchange id yet
    None,         \* no object: the hash has no such key
    MaxRequests,  \* bound: requests made by the user threads
    Lot,          \* bound: quantity of every order, at least 1
    Kinds,        \* operations the users call
    Forms,        \* texts of acceptance the server uses: "demo", "real"
    SignMayFail   \* whether makeSignature may fail

ASSUME OrdersAssumption ==
    /\ NoId \notin Ids
    /\ None \notin Objects
    /\ MaxRequests \in Nat
    /\ Lot \in 1 .. Word - 1
    /\ Kinds \subseteq {"create", "change", "cancel"}
    /\ Forms \subseteq {"demo", "real"}
    /\ SignMayFail \in BOOLEAN

Requests == 1 .. MaxRequests
NoRequest == 0

States == {"Unknown", "Accepting", "Accepted", "Executed",
           "Cancelling", "Cancelled", "Changing"}
Results == {"Unknown", "Success", "Error"}

VARIABLES
    order,     \* objects; state Unknown: not allocated
    active,    \* m_activeOrders: Ids -> object or None
    inactive,  \* the keys of m_inactiveOrders
    op,        \* operation objects (ADOrderOperationPrivate) and their phase
    pending,   \* the keys of m_ordersOperations
    reqId,     \* m_reqId
    calling,   \* per user thread: the request it is calling, and the state it
               \* has still to announce ("Unknown": announced, slot queued)
    sent,      \* requests written to the socket
    market,    \* external: the exchange's orders
    told       \* external: per id, lots already reported by trade lines

registry == <<order, active, inactive, op, pending>>
vars == <<registry, reqId, calling, sent, market, told>>

Order == [id: Ids \cup {NoId}, state: States, qty: U32, rest: U32, trades: U32]
Operation == [kind: {"none", "create", "change", "cancel"},
              object: Objects \cup {None}, id: Ids \cup {NoId},
              phase: 0 .. 2, result: Results]
MarketOrder == [status: {"none", "live", "filled", "dropped"},
                done: 0 .. Lot, by: Requests \cup {NoRequest}]

NewOrder(i, state) ==
    [id |-> i, state |-> state, qty |-> Lot, rest |-> Lot, trades |-> 0]

FreeOrder == [NewOrder(NoId, "Unknown") EXCEPT !.qty = 0, !.rest = 0]

Init ==
    /\ order = [o \in Objects |-> FreeOrder]
    /\ active = [i \in Ids |-> None]
    /\ inactive = {}
    /\ op = [r \in Requests |-> [kind |-> "none", object |-> None, id |-> NoId,
                                 phase |-> 0, result |-> "Unknown"]]
    /\ pending = {}
    /\ reqId = 0
    /\ calling = [t \in Threads |-> [req |-> NoRequest, says |-> "Unknown"]]
    /\ sent = {}
    /\ market = [i \in Ids |->
                    [status |-> "none", done |-> 0, by |-> NoRequest]]
    /\ told = [i \in Ids |-> 0]

-----------------------------------------------------------------------------
(* Helpers of the handlers.                                                *)

Allocated(o) == order[o].state # "Unknown"

\* _findOperationsByOrderId, for the given contents of the order objects.
OperationsOn(orders, i) ==
    {r \in pending : orders[op[r].object].id = i}

\* Mutant: the last result wins.
WokenAgain(r, result) == [op[r] EXCEPT !.result = result]

\* wakeUpAll: the first result stays.
Woken(r, result) ==
    IF op[r].result = "Unknown" THEN [op[r] EXCEPT !.result = result] ELSE op[r]

WakeUp(requests, result) ==
    op' = [r \in Requests |->
              IF r \in requests THEN Woken(r, result[r]) ELSE op[r]]

\* Mutant: the operation stays in the hash.
SettleLeavingKey(r, result, state) ==
    /\ UNCHANGED pending
    /\ op' = [op EXCEPT ![r] = Woken(r, result)]
    /\ order' = [order EXCEPT ![op[r].object].state = state]

\* The common end of one operation: taken from the hash, result set, and the
\* object put in the given state.
Settle(r, result, state) ==
    /\ pending' = pending \ {r}
    /\ op' = [op EXCEPT ![r] = Woken(r, result)]
    /\ order' = [order EXCEPT ![op[r].object].state = state]

\* Where an operation that failed leaves its order.
StateAfterError(kind) == IF kind = "create" THEN "Cancelled" ELSE "Accepted"

-----------------------------------------------------------------------------
(* User threads.  The locked part of a call inserts the operation; then the *)
(* thread announces the new state and queues the slot of the network thread,*)
(* and is blocked until the slot has run (BlockingQueuedConnection).        *)

Begin(t, kind, o, state, says) ==
    LET r == reqId + 1
    IN  /\ calling[t].req = NoRequest
        /\ kind \in Kinds
        /\ reqId < MaxRequests
        /\ reqId' = r
        /\ op' = [op EXCEPT ![r] = [kind |-> kind, object |-> o,
                                    id |-> order[o].id, phase |-> 0,
                                    result |-> "Unknown"]]
        /\ pending' = pending \cup {r}
        /\ calling' = [calling EXCEPT ![t] = [req |-> r, says |-> says]]
        /\ UNCHANGED <<active, inactive, sent, market, told>>

TradePaper(t) ==
    \E o \in Objects :
        /\ ~Allocated(o)
        /\ order' = [order EXCEPT ![o] = NewOrder(NoId, "Accepting")]
        /\ Begin(t, "create", o, "Accepting", "Accepting")

\* Mutant: the pending operation is looked for by the object, not by the id.
MayOperateOnObject(o) ==
    /\ Allocated(o)
    /\ order[o].id \in Ids
    /\ active[order[o].id] # None
    /\ {r \in pending : op[r].object = o} = {}

\* The guard of changeOrder and cancelOrder: "Check active orders" and no
\* pending operation.
MayOperateOn(o) ==
    /\ Allocated(o)
    /\ order[o].id \in Ids
    /\ active[order[o].id] # None
    /\ OperationsOn(order, order[o].id) = {}

CancelOrder(t) ==
    \E o \in Objects :
        /\ MayOperateOn(o)
        /\ order' = [order EXCEPT ![o].state = "Cancelling"]
        /\ Begin(t, "cancel", o, "Cancelling", "Cancelling")

\* The announced state is the one the code announces.
ChangeOrder(t) ==
    \E o \in Objects :
        /\ MayOperateOn(o)
        /\ order' = [order EXCEPT ![o].state = "Changing"]
        /\ Begin(t, "change", o, "Changing", "Cancelling")

\* emit onOrderStateChanged, after the unlock, then the slot is queued.
Announce(t) ==
    /\ calling[t].req # NoRequest
    /\ calling[t].says # "Unknown"
    /\ calling' = [calling EXCEPT ![t].says = "Unknown"]
    /\ UNCHANGED <<registry, reqId, sent, market, told>>

SlotQueued(t) == calling[t].req # NoRequest /\ calling[t].says = "Unknown"

Return(t) ==
    calling' = [calling EXCEPT ![t] = [req |-> NoRequest, says |-> "Unknown"]]

-----------------------------------------------------------------------------
(* Network thread: the slots tradePaper, changeOrder and cancelOrder.      *)

\* The order a request names: the slot asks the object when it runs, not when
\* the user called.
RequestedId(r) == order[op[r].object].id

\* The request is signed and written to the socket.
SlotSends(t) ==
    LET r == calling[t].req
    IN  /\ SlotQueued(t)
        /\ sent' = sent \cup {r}
        /\ op' = [op EXCEPT ![r].id = RequestedId(r)]
        /\ Return(t)
        /\ UNCHANGED <<order, active, inactive, pending, reqId, market, told>>

\* The signature (or, for a create, a lookup in the database) fails.
SlotFails(t) ==
    LET r == calling[t].req
    IN  /\ SignMayFail
        /\ SlotQueued(t)
        /\ Settle(r, "Error", StateAfterError(op[r].kind))
        /\ Return(t)
        /\ UNCHANGED <<active, inactive, reqId, sent, market, told>>

-----------------------------------------------------------------------------
(* Network thread: responses to requests.  A response whose id is not in    *)
(* m_ordersOperations is skipped.                                           *)

Answerable(r) == r \in pending /\ r \in sent

\* "OK" in phase 0, "accepted for execution" (change, removal) in phase 1.
Progress(r) ==
    /\ Answerable(r)
    /\ op[r].phase < 2
    /\ op' = [op EXCEPT ![r].phase = @ + 1]
    /\ UNCHANGED <<order, active, inactive, pending, reqId, calling, sent,
                   market, told>>

\* The exchange accepted order i for request r; the text is that of a demo
\* order, which carries the id where the handler looks for it.
CreateAccepted(r, i) ==
    LET o == op[r].object
    IN  /\ Answerable(r)
        /\ op[r].kind = "create" /\ op[r].phase = 2
        /\ market[i].status # "none" /\ market[i].by = r
        /\ "demo" \in Forms
        /\ pending' = pending \ {r}
        /\ op' = [op EXCEPT ![r] = Woken(r, "Success")]
        /\ IF active[i] = None
           THEN /\ active' = [active EXCEPT ![i] = o]
                /\ order' = [order EXCEPT ![o].state = "Accepted", ![o].id = i]
           ELSE UNCHANGED <<active, order>>
        /\ UNCHANGED <<inactive, reqId, calling, sent, market, told>>

\* The same for a real order.  captureCount() counts the groups of the
\* expression, never 0, and cap(1) is empty: the handler ends in its error
\* branch.
RealCreateAccepted(r, i) ==
    /\ Answerable(r)
    /\ op[r].kind = "create" /\ op[r].phase = 2
    /\ market[i].status # "none" /\ market[i].by = r
    /\ "real" \in Forms
    /\ Settle(r, "Error", StateAfterError("create"))
    /\ UNCHANGED <<active, inactive, reqId, calling, sent, market, told>>

\* Mutant: the object is filed under its new id, and not removed from the old.
ChangeFiledTwice(r, n) ==
    LET o == op[r].object
    IN  /\ Answerable(r)
        /\ op[r].kind = "change" /\ op[r].phase = 2
        /\ market[n].status # "none" /\ market[n].by = r
        /\ active[n] = None
        /\ pending' = pending \ {r}
        /\ op' = [op EXCEPT ![r] = Woken(r, "Success")]
        /\ active' = [active EXCEPT ![n] = o]
        /\ order' = [order EXCEPT ![o].state = "Accepted", ![o].id = n]
        /\ UNCHANGED <<inactive, reqId, calling, sent, market, told>>

\* Order op[r].id was replaced by order n.  m_preQty was never set, so that
\* the quantity saved is 0; the hash keeps the old key.
ChangeDone(r, n) ==
    LET o == op[r].object
    IN  /\ Answerable(r)
        /\ op[r].kind = "change" /\ op[r].phase = 2
        /\ market[n].status # "none" /\ market[n].by = r
        /\ IF active[n] = None
           THEN /\ pending' = pending \ {r}
                /\ op' = [op EXCEPT ![r] = Woken(r, "Success")]
                /\ order' = [order EXCEPT ![o].state = "Accepted", ![o].id = n,
                                          ![o].qty = 0, ![o].rest = 0]
           ELSE Settle(r, "Error", "Accepted")
        /\ UNCHANGED <<active, inactive, reqId, calling, sent, market, told>>

\* "marked for removal" or "already removed": the response names the order.
CancelDone(r) ==
    LET i == op[r].id
    IN  /\ Answerable(r)
        /\ op[r].kind = "cancel" /\ op[r].phase = 2
        /\ i \in Ids /\ market[i].status = "dropped"
        /\ IF active[i] # None
           THEN /\ active' = [active EXCEPT ![i] = None]
                /\ inactive' = inactive \cup {i}
                /\ Settle(r, "Success", "Cancelled")
           ELSE /\ Settle(r, "Error", "Accepted")
                /\ UNCHANGED <<active, inactive>>
        /\ UNCHANGED <<reqId, calling, sent, market, told>>

\* Any other text, in any phase, is taken for an error.  The server sends one
\* only for what it did not do.
Refused(r) ==
    /\ Answerable(r)
    /\ \A i \in Ids : market[i].by # r
    /\ Settle(r, "Error", StateAfterError(op[r].kind))
    /\ UNCHANGED <<active, inactive, reqId, calling, sent, market, told>>

-----------------------------------------------------------------------------
(* Network thread: status and trade lines.                                 *)

\* Mutant: retired ids are not looked for.
OpenLineOfRetired(i, rest) ==
    /\ market[i].status # "none"
    /\ Lot - rest <= market[i].done
    /\ active[i] = None
    /\ \E o \in Objects :
        /\ ~Allocated(o)
        /\ active' = [active EXCEPT ![i] = o]
        /\ order' = [order EXCEPT
                        ![o] = UpdateRestQty(NewOrder(i, "Accepted"), rest)]
    /\ UNCHANGED <<inactive, op, pending, reqId, calling, sent, market, told>>

\* Status O, X or N with a rest written at some moment up to now.  For a
\* retired id the line is ignored.
OpenLine(i, rest) ==
    /\ market[i].status # "none"
    /\ Lot - rest <= market[i].done
    /\ i \notin inactive
    /\ \/ /\ active[i] = None
          /\ \E o \in Objects :
                /\ ~Allocated(o)
                /\ active' = [active EXCEPT ![i] = o]
                /\ order' = [order EXCEPT
                                ![o] = UpdateRestQty(NewOrder(i, "Accepted"),
                                                     rest)]
       \/ /\ active[i] # None
          /\ order' = [order EXCEPT ![active[i]] = UpdateRestQty(@, rest)]
          /\ UNCHANGED active
    /\ UNCHANGED <<inactive, op, pending, reqId, calling, sent, market, told>>

\* Mutant: the operations on the id are left pending.
CloseLineOnly(i, final, result) ==
    LET o == active[i]
    IN  /\ order' = IF o = None THEN order ELSE [order EXCEPT ![o] = final]
        /\ active' = [active EXCEPT ![i] = None]
        /\ inactive' = IF o = None THEN inactive ELSE inactive \cup {i}
        /\ UNCHANGED <<op, pending, reqId, calling, sent, market, told>>

\* What the lines M and W have in common: the object leaves the active hash
\* with its final contents, and every operation on the id ends.
CloseLine(i, final, result) ==
    LET o == active[i]
        orders == IF o = None THEN order ELSE [order EXCEPT ![o] = final]
        ended == OperationsOn(orders, i)
    IN  /\ order' = orders
        /\ active' = [active EXCEPT ![i] = None]
        /\ inactive' = IF o = None THEN inactive ELSE inactive \cup {i}
        /\ pending' = pending \ ended
        /\ WakeUp(ended, result)
        /\ UNCHANGED <<reqId, calling, sent, market, told>>

\* Mutant: a removal succeeds whatever closed the order.
RemovalAnyway ==
    [r \in Requests |-> IF op[r].kind = "cancel" THEN "Success" ELSE "Error"]

AllErrors == [r \in Requests |-> "Error"]
RemovalResults ==
    [r \in Requests |-> IF op[r].kind = "cancel" THEN "Success" ELSE "Error"]

\* Status M: the order is executed.
ExecutedLine(i) ==
    /\ market[i].status = "filled"
    /\ CloseLine(i, [UpdateRestQty(order[active[i]], 0)
                       EXCEPT !.state = "Executed", !.id = i], AllErrors)

\* Status W: the order is dropped.
DroppedLine(i) ==
    /\ market[i].status = "dropped"
    /\ CloseLine(i, [order[active[i]] EXCEPT !.state = "Cancelled", !.id = i],
                 RemovalResults)

\* A trade of x lots ends every operation on the id with an error.  A fully
\* executed order is retired, yet stays in the active hash.
TradeLine(i, x) ==
    LET o == active[i]
        ended == OperationsOn(order, i)
        traded == UpdateTradesQty(order[o], x)
    IN  /\ told[i] + x <= market[i].done
        /\ told' = [told EXCEPT ![i] = @ + x]
        /\ pending' = pending \ ended
        /\ WakeUp(ended, AllErrors)
        /\ IF o = None
           THEN UNCHANGED <<order, inactive>>
           ELSE IF IsExecutedQty(traded)
           THEN /\ order' = [order EXCEPT
                    ![o] = [traded EXCEPT !.state = "Executed", !.id = i]]
                /\ inactive' = inactive \cup {i}
           ELSE /\ order' = [order EXCEPT ![o] = traded]
                /\ UNCHANGED inactive
        /\ UNCHANGED <<active, reqId, calling, sent, market>>

-----------------------------------------------------------------------------
(* External: the exchange.                                                 *)

External == UNCHANGED <<registry, reqId, calling, sent, told>>

Listed(by) == [status |-> "live", done |-> 0, by |-> by]

\* A create request reaches the exchange.
Execute(r, i) ==
    /\ Answerable(r)
    /\ op[r].kind = "create"
    /\ market[i].status = "none"
    /\ \A j \in Ids : market[j].by # r
    /\ market' = [market EXCEPT ![i] = Listed(r)]
    /\ External

\* A change request reaches the exchange: a new order replaces the old one.
Replace(r, n) ==
    LET i == op[r].id
    IN  /\ r \in sent
        /\ op[r].kind = "change"
        /\ i \in Ids /\ market[i].status = "live"
        /\ market[n].status = "none"
        /\ \A j \in Ids : market[j].by # r
        /\ market' = [market EXCEPT ![i].status = "dropped", ![n] = Listed(r)]
        /\ External

\* The same account trades from another terminal.
ListElsewhere(i) ==
    /\ market[i].status = "none"
    /\ market' = [market EXCEPT ![i] = Listed(NoRequest)]
    /\ External

Deal(i, x) ==
    /\ market[i].status = "live"
    /\ market[i].done + x <= Lot
    /\ market' = [market EXCEPT
                    ![i].done = @ + x,
                    ![i].status = IF market[i].done + x = Lot
                                  THEN "filled" ELSE "live"]
    /\ External

\* A cancel request, a change from elsewhere or the end of the order's term.
Drop(i) ==
    /\ market[i].status = "live"
    /\ market' = [market EXCEPT ![i].status = "dropped"]
    /\ External

-----------------------------------------------------------------------------
UserStep(t) == TradePaper(t) \/ ChangeOrder(t) \/ CancelOrder(t) \/ Announce(t)

SlotStep(t) == SlotSends(t) \/ SlotFails(t)

ResponseStep(r) ==
    \/ Progress(r)
    \/ \E i \in Ids : CreateAccepted(r, i)
    \/ \E i \in Ids : RealCreateAccepted(r, i)
    \/ \E i \in Ids : ChangeDone(r, i)
    \/ CancelDone(r)
    \/ Refused(r)

LineStep(i) ==
    \/ \E rest \in 0 .. Lot : OpenLine(i, rest)
    \/ ExecutedLine(i)
    \/ DroppedLine(i)
    \/ \E x \in 1 .. Lot : TradeLine(i, x)

ExchangeStep ==
    \/ \E r \in Requests, i \in Ids : Execute(r, i)
    \/ \E r \in Requests, i \in Ids : Replace(r, i)
    \/ \E i \in Ids : ListElsewhere(i)
    \/ \E i \in Ids, x \in 1 .. Lot : Deal(i, x)
    \/ \E i \in Ids : Drop(i)

Next ==
    \/ \E t \in Threads : UserStep(t)
    \/ \E t \in Threads : SlotStep(t)
    \/ \E r \in Requests : ResponseStep(r)
    \/ \E i \in Ids : LineStep(i)
    \/ ExchangeStep

Spec == Init /\ [][Next]_vars

-----------------------------------------------------------------------------
TypeOK ==
    /\ order \in [Objects -> Order]
    /\ active \in [Ids -> Objects \cup {None}]
    /\ inactive \subseteq Ids
    /\ op \in [Requests -> Operation]
    /\ pending \subseteq Requests
    /\ reqId \in 0 .. MaxRequests
    /\ calling \in [Threads -> [req: Requests \cup {NoRequest}, says: States]]
    /\ sent \subseteq Requests
    /\ market \in [Ids -> MarketOrder]
    /\ told \in [Ids -> 0 .. Lot]

\* The requests made so far.
Made == 1 .. reqId

\* An operation is in m_ordersOperations exactly as long as it has no result:
\* nobody waits for an operation that no handler can find any more, and no
\* finished operation is left behind to block its order for ever.
PendingIffUnresolved ==
    \A r \in Requests :
        r \in pending <=> r \in Made /\ op[r].result = "Unknown"

\* A pending change or removal is about an order that is still active: each
\* way out of the active hash ends the operations on the id in the same
\* critical section.
PendingIsOnActive ==
    \A r \in pending :
        op[r].kind # "create" =>
            /\ order[op[r].object].id \in Ids
            /\ active[order[op[r].object].id] # None

\* Of two racing calls on one order only one gets through, even if they use
\* two objects that carry the same id.
OnePendingPerOrder ==
    \A r, s \in pending :
        /\ op[r].kind # "create"
        /\ order[op[r].object].id = order[op[s].object].id
        => r = s

\* An object is filed under at most one id, so that a closing line retires
\* the only entry of its object.
OneKeyPerObject ==
    \A i, j \in Ids : active[i] # None /\ active[i] = active[j] => i = j

\* Success of a removal is never a false promise: whether it comes from the
\* response or from the status line, the exchange no longer has the order.
RemovalIsReal ==
    \A r \in Requests :
        op[r].kind = "cancel" /\ op[r].result = "Success"
            => op[r].id \in Ids /\ market[op[r].id].status = "dropped"

\* No object believes more lots executed than the exchange dealt, although
\* the deals are reported twice and an id may change its object.
NoPhantomDeals ==
    \A i \in Ids :
        active[i] # None => ExecutedQty(order[active[i]]) <= market[i].done

Removed(r) == op[r].kind = "cancel" /\ op[r].result = "Success"

\* The id of request r is filed, with the object of a create request that was
\* answered since.
RefiledByResponse(r) ==
    \E c \in Requests :
        /\ op[c].kind = "create" /\ op[c].result = "Success"
        /\ op[c].object = active[op[r].id]
        /\ op[c].object # op[r].object

\* A removal that succeeded is final, be it by the response or by the line W:
\* no line of the order that comes later or again, in whatever order, makes it
\* active, so that no user can operate on it: the race described at
\* ADConnection.h:543.  Only the response to the create request, if it is later
\* still, files the id once more.
CancelledStaysClosed ==
    \A r \in Requests :
        Removed(r) => active[op[r].id] = None \/ RefiledByResponse(r)

-----------------------------------------------------------------------------
(* Liveness.  User threads and the event loop keep running; the server       *)
(* reports the closing of every order, and answers every create request the *)
(* exchange executed.  It need not answer anything else.                    *)

Fairness ==
    /\ \A t \in Threads : WF_vars(Announce(t)) /\ WF_vars(SlotSends(t))
    /\ \A i \in Ids : WF_vars(ExecutedLine(i)) /\ WF_vars(DroppedLine(i))
    /\ \A r \in Requests :
        /\ WF_vars(op[r].kind = "create" /\ Progress(r))
        /\ \A i \in Ids : WF_vars(CreateAccepted(r, i))

FairSpec == Spec /\ Fairness

\* No waiter is orphaned: once the order of a change or removal is closed on
\* the exchange, or the order of a create is listed, the operation gets its
\* result, whichever of response, status and trade line comes first.
Decided(r) ==
    \/ op[r].kind # "create" /\ op[r].id \in Ids
            /\ market[op[r].id].status \in {"filled", "dropped"}
    \/ op[r].kind = "create" /\ \E i \in Ids : market[i].by = r

DecidedResolves ==
    \A r \in Requests :
        r \in Made /\ Decided(r) ~> op[r].result # "Unknown"

-----------------------------------------------------------------------------
(* The promise the operations give to their waiters.                        *)

Promise == INSTANCE OperationResults
            WITH made <- reqId,
                 result <- [r \in Requests |-> op[r].result]

\* Requests are made one at a time, and each gets one result, once: a result
\* already read by a waiter is never replaced, and one line or response ends
\* at most one operation.
PromiseSpec == Promise!Spec

=============================================================================
