---------------------------- MODULE Orders_proofs ----------------------------
(***************************************************************************)
(* Proofs about Orders and OrderSessions, for every set of threads, objects*)
(* and ids, every number of requests and every quantity.  The module has a *)
(* part for each invariant: the registry, its keys, removals, the promise to*)
(* the waiters, deals, and the registry over several sessions.             *)
(***************************************************************************)
EXTENDS OrderSessions, TLAPS

USE DEF NoRequest

(***************************************************************************)
(* Requests are made in order; a made request names an object, and only    *)
(* made requests are pending, called or sent.                              *)
(***************************************************************************)
MadeRequests ==
    /\ Made \subseteq Requests
    /\ \A r \in Made : op[r].kind # "none" /\ op[r].object \in Objects
    /\ \A r \in Requests \ Made : op[r].result = "Unknown"
    /\ pending \subseteq Made
    /\ sent \subseteq Made
    /\ \A t \in Threads : calling[t].req \in Made \cup {NoRequest}

RegistryInv == TypeOK /\ MadeRequests /\ PendingIffUnresolved

-----------------------------------------------------------------------------
(* Types of what the handlers put together.                                *)

LEMMA LotInWord == Lot \in U32 /\ 0 \in U32
BY OrdersAssumption, WordAssumption DEF U32

LEMMA NewOrderType ==
    ASSUME NEW i \in Ids \cup {NoId}, NEW s \in States
    PROVE  NewOrder(i, s) \in Order
BY LotInWord DEF NewOrder, Order

LEMMA UpdateRestType ==
    ASSUME NEW rec \in Order, NEW n \in U32
    PROVE  UpdateRestQty(rec, n) \in Order
BY DEF UpdateRestQty, Order

LEMMA UpdateTradesType ==
    ASSUME NEW rec \in Order, NEW x \in U32
    PROVE  UpdateTradesQty(rec, x) \in Order
<1>1. (rec.trades + x) % Word \in U32
  BY WordAssumption DEF U32, Order
<1>. QED
  BY <1>1 DEF UpdateTradesQty, Order

LEMMA WokenType ==
    ASSUME TypeOK, NEW r \in Requests, NEW res \in {"Success", "Error"}
    PROVE  /\ Woken(r, res) \in Operation
           /\ Woken(r, res).result # "Unknown"
           /\ Woken(r, res).kind = op[r].kind
           /\ Woken(r, res).object = op[r].object
           /\ Woken(r, res).id = op[r].id
BY DEF TypeOK, Woken, Operation, Results

LEMMA RequestsAreNumbers ==
    /\ Requests \subseteq Nat \ {0}
    /\ NoRequest \notin Requests
    /\ \A r \in Requests : r <= MaxRequests
BY OrdersAssumption DEF Requests

-----------------------------------------------------------------------------
LEMMA InitRegistry == Init => RegistryInv
<1> SUFFICES ASSUME Init PROVE RegistryInv
  OBVIOUS
<1>1. FreeOrder \in Order
  BY LotInWord DEF FreeOrder, NewOrder, Order, States
<1>2. TypeOK
  BY <1>1, LotInWord, OrdersAssumption
  DEF Init, TypeOK, Operation, Results, States, MarketOrder
<1>3. Made = {}
  BY DEF Init, Made
<1>4. MadeRequests
  BY <1>3 DEF Init, MadeRequests
<1>5. PendingIffUnresolved
  BY <1>3 DEF Init, PendingIffUnresolved
<1>. QED
  BY <1>2, <1>4, <1>5 DEF RegistryInv

\* The locked part of a call of a user thread.
LEMMA BeginRegistry ==
    ASSUME RegistryInv, NEW t \in Threads, NEW o \in Objects,
           NEW kind \in {"create", "change", "cancel"},
           NEW state \in States, NEW says \in States,
           Begin(t, kind, o, state, says), order' \in [Objects -> Order]
    PROVE  RegistryInv'
<1> DEFINE r == reqId + 1
<1>1. /\ r \in Requests /\ reqId' = r
      /\ op' = [op EXCEPT ![r] = [kind |-> kind, object |-> o,
                                  id |-> order[o].id, phase |-> 0,
                                  result |-> "Unknown"]]
      /\ pending' = pending \cup {r}
      /\ calling' = [calling EXCEPT ![t] = [req |-> r, says |-> says]]
      /\ UNCHANGED <<active, inactive, sent, market, told>>
  BY OrdersAssumption DEF Begin, RegistryInv, TypeOK, Requests
<1>2. /\ reqId' \in 0 .. MaxRequests
      /\ Made' = Made \cup {r}
      /\ r \notin Made
  BY <1>1, OrdersAssumption DEF Made, Requests, RegistryInv, TypeOK
<1> HIDE DEF r
<1>3. TypeOK'
  <2>1. order[o].id \in Ids \cup {NoId}
    BY DEF RegistryInv, TypeOK, Order
  <2>2. op' \in [Requests -> Operation]
    BY <1>1, <2>1 DEF RegistryInv, TypeOK, Operation, Results
  <2>. QED
    BY <1>1, <1>2, <2>2 DEF RegistryInv, TypeOK
<1>4. \A s \in Requests :
         op'[s] = IF s = r THEN [kind |-> kind, object |-> o,
                                 id |-> order[o].id, phase |-> 0,
                                 result |-> "Unknown"]
                           ELSE op[s]
  BY <1>1 DEF RegistryInv, TypeOK
<1>5. MadeRequests'
  BY <1>1, <1>2, <1>4 DEF RegistryInv, MadeRequests, TypeOK
<1>6. PendingIffUnresolved'
  <2> SUFFICES ASSUME NEW s \in Requests
               PROVE  s \in pending' <=> s \in Made' /\ op'[s].result = "Unknown"
    BY DEF PendingIffUnresolved
  <2>1. CASE s = r
    BY <1>1, <1>2, <1>4, <2>1
  <2>2. CASE s # r
    BY <1>1, <1>2, <1>4, <2>2 DEF PendingIffUnresolved, RegistryInv
  <2>. QED
    BY <2>1, <2>2
<1>. QED
  BY <1>3, <1>5, <1>6 DEF RegistryInv

\* A step that makes no request: it ends the operations of a set E.
LEMMA EndRegistry ==
    ASSUME RegistryInv, TypeOK', NEW E \in SUBSET Made,
           pending' = pending \ E, reqId' = reqId, sent' \subseteq Made,
           \A t \in Threads : calling'[t].req \in Made \cup {NoRequest},
           \A r \in Requests :
               /\ op'[r].kind = op[r].kind
               /\ op'[r].object = op[r].object
               /\ r \in E => op'[r].result # "Unknown"
               /\ r \notin E => op'[r].result = op[r].result
    PROVE  RegistryInv'
<1>1. Made' = Made
  BY DEF Made
<1>2. MadeRequests'
  BY <1>1 DEF RegistryInv, MadeRequests
<1>3. PendingIffUnresolved'
  BY <1>1 DEF RegistryInv, PendingIffUnresolved, MadeRequests
<1>. QED
  BY <1>2, <1>3 DEF RegistryInv

\* What the end of one operation does to the operations.
LEMMA OneEnds ==
    ASSUME RegistryInv, NEW r \in Made, NEW res \in {"Success", "Error"},
           op' = [op EXCEPT ![r] = Woken(r, res)]
    PROVE  /\ op' \in [Requests -> Operation]
           /\ op'[r] = Woken(r, res)
           /\ op'[r].result # "Unknown"
           /\ \A s \in Requests :
                /\ op'[s].kind = op[s].kind
                /\ op'[s].object = op[s].object
                /\ op'[s].id = op[s].id
                /\ s # r => op'[s].result = op[s].result
<1>1. r \in Requests /\ TypeOK
  BY DEF RegistryInv, MadeRequests
<1>2. /\ Woken(r, res) \in Operation
      /\ Woken(r, res).result # "Unknown"
      /\ Woken(r, res).kind = op[r].kind
      /\ Woken(r, res).object = op[r].object
      /\ Woken(r, res).id = op[r].id
  BY <1>1, WokenType
<1>3. /\ op' \in [Requests -> Operation]
      /\ op'[r] = Woken(r, res)
      /\ \A s \in Requests : s # r => op'[s] = op[s]
  BY <1>1, <1>2 DEF TypeOK
<1>. QED
  BY <1>1, <1>2, <1>3

\* The types of what Settle changes.
LEMMA SettleType ==
    ASSUME RegistryInv, NEW r \in Made, NEW res \in {"Success", "Error"},
           NEW state \in States, Settle(r, res, state)
    PROVE  /\ op' \in [Requests -> Operation]
           /\ order' \in [Objects -> Order]
           /\ pending' \subseteq Requests
<1>1. op[r].object \in Objects /\ TypeOK
  BY DEF RegistryInv, MadeRequests
<1>2. order' \in [Objects -> Order]
  BY <1>1 DEF Settle, TypeOK, Order
<1>. QED
  BY <1>1, <1>2, OneEnds DEF Settle, TypeOK

\* The two commonest cases: no operation ends, or one does.
LEMMA KeepRegistry ==
    ASSUME RegistryInv, TypeOK',
           pending' = pending, reqId' = reqId, sent' \subseteq Made,
           \A t \in Threads : calling'[t].req \in Made \cup {NoRequest},
           \A r \in Requests :
               /\ op'[r].kind = op[r].kind
               /\ op'[r].object = op[r].object
               /\ op'[r].result = op[r].result
    PROVE  RegistryInv'
<1>1. pending' = pending \ {} /\ {} \in SUBSET Made
  OBVIOUS
<1>. QED
  BY <1>1, EndRegistry

LEMMA OneRegistry ==
    ASSUME RegistryInv, NEW r \in Made, NEW res \in {"Success", "Error"},
           op' = [op EXCEPT ![r] = Woken(r, res)], pending' = pending \ {r},
           TypeOK', reqId' = reqId, sent' = sent,
           \A t \in Threads : calling'[t].req \in Made \cup {NoRequest}
    PROVE  RegistryInv'
<1> DEFINE E == {r}
<1>1. E \in SUBSET Made /\ pending' = pending \ E /\ sent' \subseteq Made
  BY DEF RegistryInv, MadeRequests
<1>2. \A s \in Requests :
         /\ op'[s].kind = op[s].kind
         /\ op'[s].object = op[s].object
         /\ s \in E => op'[s].result # "Unknown"
         /\ s \notin E => op'[s].result = op[s].result
  BY OneEnds
<1> HIDE DEF E
<1>. QED
  BY <1>1, <1>2, EndRegistry

\* What WakeUp does to the operations.
LEMMA WakeUpEnds ==
    ASSUME RegistryInv, NEW E \in SUBSET Made,
           NEW res \in [Requests -> {"Success", "Error"}], WakeUp(E, res)
    PROVE  /\ op' \in [Requests -> Operation]
           /\ \A s \in Requests :
                /\ op'[s].kind = op[s].kind
                /\ op'[s].object = op[s].object
                /\ op'[s].id = op[s].id
                /\ s \in E => op'[s].result # "Unknown"
                /\ s \notin E => op'[s].result = op[s].result
<1>1. \A s \in Requests :
        /\ Woken(s, res[s]) \in Operation
        /\ Woken(s, res[s]).result # "Unknown"
        /\ Woken(s, res[s]).kind = op[s].kind
        /\ Woken(s, res[s]).object = op[s].object
        /\ Woken(s, res[s]).id = op[s].id
  BY WokenType DEF RegistryInv
<1>2. /\ op' = [s \in Requests |-> IF s \in E THEN Woken(s, res[s]) ELSE op[s]]
      /\ op \in [Requests -> Operation]
  BY DEF WakeUp, RegistryInv, TypeOK
<1>. QED
  BY <1>1, <1>2

-----------------------------------------------------------------------------
LEMMA UserRegistry ==
    ASSUME RegistryInv, NEW t \in Threads, UserStep(t)
    PROVE  RegistryInv'
<1>1. ASSUME TradePaper(t) PROVE RegistryInv'
  <2>1. PICK o \in Objects :
          /\ order' = [order EXCEPT ![o] = NewOrder(NoId, "Accepting")]
          /\ Begin(t, "create", o, "Accepting", "Accepting")
    BY <1>1 DEF TradePaper
  <2>2. order' \in [Objects -> Order]
    BY <2>1, NewOrderType DEF RegistryInv, TypeOK, States
  <2>. QED
    BY <2>1, <2>2, BeginRegistry DEF States
<1>2. ASSUME CancelOrder(t) PROVE RegistryInv'
  <2>1. PICK o \in Objects :
          /\ order' = [order EXCEPT ![o].state = "Cancelling"]
          /\ Begin(t, "cancel", o, "Cancelling", "Cancelling")
    BY <1>2 DEF CancelOrder
  <2>2. order' \in [Objects -> Order]
    BY <2>1 DEF RegistryInv, TypeOK, Order, States
  <2>. QED
    BY <2>1, <2>2, BeginRegistry DEF States
<1>3. ASSUME ChangeOrder(t) PROVE RegistryInv'
  <2>1. PICK o \in Objects :
          /\ order' = [order EXCEPT ![o].state = "Changing"]
          /\ Begin(t, "change", o, "Changing", "Cancelling")
    BY <1>3 DEF ChangeOrder
  <2>2. order' \in [Objects -> Order]
    BY <2>1 DEF RegistryInv, TypeOK, Order, States
  <2>. QED
    BY <2>1, <2>2, BeginRegistry DEF States
<1>4. ASSUME Announce(t) PROVE RegistryInv'
  <2>1. /\ \A u \in Threads : calling'[u].req = calling[u].req
        /\ calling' \in [Threads ->
                            [req: Requests \cup {NoRequest}, says: States]]
    BY <1>4 DEF Announce, RegistryInv, TypeOK, States
  <2>2. TypeOK'
    BY <1>4, <2>1 DEF Announce, registry, RegistryInv, TypeOK
  <2>. QED
    BY <1>4, <2>1, <2>2, KeepRegistry
    DEF Announce, registry, RegistryInv, MadeRequests
<1>. QED
  BY <1>1, <1>2, <1>3, <1>4 DEF UserStep

LEMMA ReturnType ==
    ASSUME RegistryInv, NEW t \in Threads, Return(t)
    PROVE  /\ calling' \in [Threads ->
                              [req: Requests \cup {NoRequest}, says: States]]
           /\ \A u \in Threads : calling'[u].req \in Made \cup {NoRequest}
BY DEF Return, RegistryInv, MadeRequests, TypeOK, States

LEMMA SlotRegistry ==
    ASSUME RegistryInv, NEW t \in Threads, SlotStep(t)
    PROVE  RegistryInv'
<1> DEFINE r == calling[t].req
<1>1. ASSUME SlotQueued(t) PROVE r \in Made /\ r \in Requests
  BY <1>1 DEF SlotQueued, RegistryInv, MadeRequests
<1>2. ASSUME SlotSends(t) PROVE RegistryInv'
  <2>1. /\ r \in Requests /\ r \in Made /\ op[r].object \in Objects
    BY <1>1, <1>2 DEF SlotSends, RegistryInv, MadeRequests
  <2>2. /\ op' = [op EXCEPT ![r].id = order[op[r].object].id]
        /\ sent' = sent \cup {r} /\ Return(t)
        /\ UNCHANGED <<order, active, inactive, pending, reqId, market, told>>
    BY <1>2 DEF SlotSends, RequestedId
  <2> HIDE DEF r
  <2>3. op' \in [Requests -> Operation]
    BY <2>1, <2>2 DEF RegistryInv, TypeOK, Operation, Order
  <2>4. \A s \in Requests : /\ op'[s].kind = op[s].kind
                            /\ op'[s].object = op[s].object
                            /\ op'[s].result = op[s].result
    BY <2>1, <2>2 DEF RegistryInv, TypeOK, Operation
  <2>5. TypeOK'
    BY <2>1, <2>2, <2>3, ReturnType DEF RegistryInv, TypeOK
  <2>. QED
    BY <2>1, <2>2, <2>4, <2>5, ReturnType, KeepRegistry
    DEF RegistryInv, MadeRequests
<1>3. ASSUME SlotFails(t) PROVE RegistryInv'
  <2>1. /\ r \in Made
        /\ Settle(r, "Error", StateAfterError(op[r].kind)) /\ Return(t)
        /\ UNCHANGED <<active, inactive, reqId, sent, market, told>>
    BY <1>1, <1>3 DEF SlotFails
  <2>2. StateAfterError(op[r].kind) \in States
    BY DEF StateAfterError, States
  <2> HIDE DEF r
  <2>3. TypeOK'
    BY <2>1, <2>2, SettleType, ReturnType DEF RegistryInv, TypeOK
  <2>4. \A u \in Threads : calling'[u].req \in Made \cup {NoRequest}
    BY <2>1, ReturnType
  <2>. QED
    BY <2>1, <2>3, <2>4, OneRegistry DEF Settle
<1>. QED
  BY <1>2, <1>3 DEF SlotStep

\* A request that has a kind is made.
LEMMA AnswerableMade ==
    ASSUME RegistryInv, NEW r \in Requests, Answerable(r)
    PROVE  r \in Made /\ op[r].object \in Objects
BY DEF Answerable, RegistryInv, MadeRequests

LEMMA ResponseRegistry ==
    ASSUME RegistryInv, NEW r \in Requests, ResponseStep(r)
    PROVE  RegistryInv'
<1> DEFINE o == op[r].object
<1> USE DEF RegistryInv
<1>1. Answerable(r) => r \in Made /\ o \in Objects
  BY AnswerableMade
<1>2. \A t \in Threads : calling[t].req \in Made \cup {NoRequest}
  BY DEF MadeRequests
<1>3. ASSUME Progress(r) PROVE RegistryInv'
  <2>1. /\ op' = [op EXCEPT ![r].phase = @ + 1] /\ op[r].phase \in 0 .. 1
        /\ UNCHANGED <<order, active, inactive, pending, reqId, calling, sent,
                       market, told>>
    BY <1>3 DEF Progress, TypeOK, Operation
  <2>2. op' \in [Requests -> Operation]
    <3>1. op[r].phase + 1 \in 0 .. 2
      BY <2>1
    <3>2. [op[r] EXCEPT !.phase = @ + 1] \in Operation
      BY <3>1 DEF TypeOK, Operation
    <3>. QED
      BY <2>1, <3>2 DEF TypeOK
  <2>3. \A s \in Requests : /\ op'[s].kind = op[s].kind
                            /\ op'[s].object = op[s].object
                            /\ op'[s].result = op[s].result
    BY <2>1 DEF TypeOK, Operation
  <2>4. TypeOK'
    BY <2>1, <2>2 DEF TypeOK
  <2>. QED
    BY <1>2, <2>1, <2>3, <2>4, KeepRegistry DEF MadeRequests
<1>4. ASSUME NEW res \in {"Success", "Error"}, NEW state \in States,
             Answerable(r), Settle(r, res, state),
             active' \in [Ids -> Objects \cup {None}], inactive' \subseteq Ids,
             UNCHANGED <<reqId, calling, sent, market, told>>
      PROVE  RegistryInv'
  <2>1. TypeOK'
    BY <1>1, <1>4, SettleType DEF TypeOK
  <2>. QED
    BY <1>1, <1>2, <1>4, <2>1, OneRegistry DEF Settle
<1>5. ASSUME Answerable(r), op' = [op EXCEPT ![r] = Woken(r, "Success")],
             pending' = pending \ {r}, order' \in [Objects -> Order],
             active' \in [Ids -> Objects \cup {None}],
             UNCHANGED <<inactive, reqId, calling, sent, market, told>>
      PROVE  RegistryInv'
  <2>1. op' \in [Requests -> Operation]
    BY <1>1, <1>5, OneEnds
  <2>2. TypeOK'
    BY <1>5, <2>1 DEF TypeOK
  <2>. QED
    BY <1>1, <1>2, <1>5, <2>2, OneRegistry
<1>6. ASSUME NEW i \in Ids, CreateAccepted(r, i) PROVE RegistryInv'
  <2>1. order' \in [Objects -> Order] /\ active' \in [Ids -> Objects \cup {None}]
    <3>1. o \in Objects
      BY <1>1, <1>6 DEF CreateAccepted
    <3>2. [order[o] EXCEPT !.state = "Accepted", !.id = i] \in Order
      <4>1. order[o] \in Order
        BY <3>1 DEF TypeOK
      <4> HIDE DEF o
      <4>. QED
        BY <4>1 DEF Order, States
    <3>3. CASE active[i] = None
      <4>1. /\ active' = [active EXCEPT ![i] = o]
            /\ order' = [order EXCEPT ![o].state = "Accepted", ![o].id = i]
        BY <1>6, <3>3 DEF CreateAccepted
      <4>2. order' = [order EXCEPT
                        ![o] = [order[o] EXCEPT !.state = "Accepted", !.id = i]]
        BY <3>1, <4>1 DEF TypeOK
      <4>. QED
        BY <3>1, <3>2, <4>1, <4>2 DEF TypeOK
    <3>4. CASE active[i] # None
      BY <1>6, <3>4 DEF CreateAccepted, TypeOK
    <3>. QED
      BY <3>3, <3>4
  <2>. QED
    BY <1>5, <1>6, <2>1 DEF CreateAccepted
<1>7. ASSUME NEW i \in Ids, RealCreateAccepted(r, i) PROVE RegistryInv'
  BY <1>4, <1>7 DEF RealCreateAccepted, StateAfterError, States, TypeOK
<1>8. ASSUME NEW n \in Ids, ChangeDone(r, n) PROVE RegistryInv'
  <2>1. CASE active[n] = None
    <3>1. order' \in [Objects -> Order]
      BY <1>1, <1>8, <2>1, LotInWord DEF ChangeDone, TypeOK, Order, States
    <3>. QED
      BY <1>5, <1>8, <2>1, <3>1 DEF ChangeDone, TypeOK
  <2>2. CASE active[n] # None
    BY <1>4, <1>8, <2>2 DEF ChangeDone, TypeOK, States
  <2>. QED
    BY <2>1, <2>2
<1>9. ASSUME CancelDone(r) PROVE RegistryInv'
  <2>1. CASE active[op[r].id] # None
    BY <1>4, <1>9, <2>1 DEF CancelDone, TypeOK, States
  <2>2. CASE active[op[r].id] = None
    BY <1>4, <1>9, <2>2 DEF CancelDone, TypeOK, States
  <2>. QED
    BY <2>1, <2>2
<1>10. ASSUME Refused(r) PROVE RegistryInv'
  <2>1. StateAfterError(op[r].kind) \in States
    BY DEF StateAfterError, States
  <2>. QED
    BY <1>4, <1>10, <2>1 DEF Refused, TypeOK
<1>. QED
  BY <1>3, <1>6, <1>7, <1>8, <1>9, <1>10 DEF ResponseStep

-----------------------------------------------------------------------------
LEMMA ExecutedOnMade ==
    ASSUME RegistryInv, NEW orders, NEW i
    PROVE  OperationsOn(orders, i) \in SUBSET Made
BY DEF OperationsOn, RegistryInv, MadeRequests

\* The lines that end the operations on an id.
LEMMA WakeUpRegistry ==
    ASSUME RegistryInv, NEW E \in SUBSET Made,
           NEW res \in [Requests -> {"Success", "Error"}], WakeUp(E, res),
           pending' = pending \ E,
           order' \in [Objects -> Order],
           active' \in [Ids -> Objects \cup {None}], inactive' \subseteq Ids,
           told' \in [Ids -> 0 .. Lot],
           UNCHANGED <<reqId, calling, sent, market>>
    PROVE  RegistryInv'
<1>1. op' \in [Requests -> Operation]
  BY WakeUpEnds
<1>2. TypeOK'
  BY <1>1 DEF RegistryInv, TypeOK
<1>3. \A s \in Requests :
         /\ op'[s].kind = op[s].kind
         /\ op'[s].object = op[s].object
         /\ s \in E => op'[s].result # "Unknown"
         /\ s \notin E => op'[s].result = op[s].result
  BY WakeUpEnds
<1>. QED
  BY <1>2, <1>3, EndRegistry DEF RegistryInv, MadeRequests

LEMMA CloseLineRegistry ==
    ASSUME RegistryInv, NEW i \in Ids, NEW final,
           active[i] # None => final \in Order,
           NEW res \in [Requests -> {"Success", "Error"}],
           CloseLine(i, final, res)
    PROVE  RegistryInv'
<1> DEFINE orders == IF active[i] = None THEN order
                     ELSE [order EXCEPT ![active[i]] = final]
           ended == OperationsOn(orders, i)
<1>1. ended \in SUBSET Made
  BY ExecutedOnMade
<1>2. orders \in [Objects -> Order]
  BY DEF RegistryInv, TypeOK
<1>3. /\ order' = orders
      /\ active' \in [Ids -> Objects \cup {None}]
      /\ inactive' \subseteq Ids
      /\ pending' = pending \ ended
      /\ WakeUp(ended, res)
      /\ UNCHANGED <<reqId, calling, sent, market, told>>
  BY DEF CloseLine, RegistryInv, TypeOK
<1> HIDE DEF orders, ended
<1>. QED
  BY <1>1, <1>2, <1>3, WakeUpRegistry DEF RegistryInv, TypeOK

LEMMA LineRegistry ==
    ASSUME RegistryInv, NEW i \in Ids, LineStep(i)
    PROVE  RegistryInv'
<1> USE DEF RegistryInv
<1>1. ASSUME NEW rest \in 0 .. Lot, OpenLine(i, rest) PROVE RegistryInv'
  <2>1. rest \in U32
    BY OrdersAssumption, WordAssumption DEF U32
  <2>2. /\ active' \in [Ids -> Objects \cup {None}]
        /\ order' \in [Objects -> Order]
    <3>1. CASE active[i] = None
      <4>1. UpdateRestQty(NewOrder(i, "Accepted"), rest) \in Order
        BY <2>1, NewOrderType, UpdateRestType DEF States
      <4>. QED
        BY <1>1, <3>1, <4>1 DEF OpenLine, TypeOK
    <3>2. CASE active[i] # None
      <4>1. UpdateRestQty(order[active[i]], rest) \in Order
        BY <2>1, <3>2, UpdateRestType DEF TypeOK
      <4>. QED
        BY <1>1, <3>2, <4>1 DEF OpenLine, TypeOK
    <3>. QED
      BY <3>1, <3>2
  <2>3. TypeOK'
    BY <1>1, <2>2 DEF OpenLine, TypeOK
  <2>. QED
    BY <1>1, <2>3, KeepRegistry DEF OpenLine, MadeRequests
<1>2. ASSUME ExecutedLine(i) PROVE RegistryInv'
  <2>1. active[i] # None => UpdateRestQty(order[active[i]], 0) \in Order
    BY LotInWord, UpdateRestType DEF TypeOK
  <2>2. active[i] # None =>
          [UpdateRestQty(order[active[i]], 0)
             EXCEPT !.state = "Executed", !.id = i] \in Order
    BY <2>1 DEF Order, States
  <2>3. AllErrors \in [Requests -> {"Success", "Error"}]
    BY DEF AllErrors
  <2>. QED
    BY <1>2, <2>2, <2>3, CloseLineRegistry DEF ExecutedLine
<1>3. ASSUME DroppedLine(i) PROVE RegistryInv'
  <2>1. active[i] # None =>
          [order[active[i]] EXCEPT !.state = "Cancelled", !.id = i] \in Order
    <3>1. active[i] # None => order[active[i]] \in Order
      BY DEF TypeOK
    <3>. QED
      BY <3>1 DEF Order, States
  <2>2. RemovalResults \in [Requests -> {"Success", "Error"}]
    BY DEF RemovalResults
  <2>. QED
    BY <1>3, <2>1, <2>2, CloseLineRegistry DEF DroppedLine
<1>4. ASSUME NEW x \in 1 .. Lot, TradeLine(i, x) PROVE RegistryInv'
  <2> DEFINE ended == OperationsOn(order, i)
             traded == UpdateTradesQty(order[active[i]], x)
  <2>1. ended \in SUBSET Made
    BY ExecutedOnMade
  <2>2. x \in U32
    BY OrdersAssumption, WordAssumption DEF U32
  <2>3. active[i] # None => traded \in Order
    BY <2>2, UpdateTradesType DEF TypeOK
  <2>4. active[i] # None =>
          [traded EXCEPT !.state = "Executed", !.id = i] \in Order
    BY <2>3 DEF Order, States
  <2>5. order' \in [Objects -> Order] /\ inactive' \subseteq Ids
    <3> HIDE DEF traded
    <3>1. CASE active[i] = None
      BY <1>4, <3>1 DEF TradeLine, TypeOK
    <3>2. CASE active[i] # None
      BY <1>4, <2>3, <2>4, <3>2 DEF TradeLine, TypeOK, traded
    <3>. QED
      BY <3>1, <3>2
  <2>6. told' \in [Ids -> 0 .. Lot]
    <3>1. /\ told[i] \in 0 .. Lot /\ market[i].done \in 0 .. Lot
          /\ told[i] + x <= market[i].done
      BY <1>4 DEF TradeLine, TypeOK, MarketOrder
    <3>2. told[i] + x \in 0 .. Lot
      BY <3>1, OrdersAssumption, WordAssumption
    <3>. QED
      BY <1>4, <3>2 DEF TradeLine, TypeOK
  <2>7. AllErrors \in [Requests -> {"Success", "Error"}]
    BY DEF AllErrors
  <2>8. /\ pending' = pending \ ended /\ WakeUp(ended, AllErrors)
        /\ UNCHANGED <<active, reqId, calling, sent, market>>
    BY <1>4 DEF TradeLine
  <2> HIDE DEF ended, traded
  <2>. QED
    BY <2>1, <2>5, <2>6, <2>7, <2>8, WakeUpRegistry DEF TypeOK
<1>. QED
  BY <1>1, <1>2, <1>3, <1>4 DEF LineStep

LEMMA ExchangeRegistry ==
    ASSUME RegistryInv, ExchangeStep
    PROVE  RegistryInv'
<1>1. market' \in [Ids -> MarketOrder] /\ External
  <2> USE DEF RegistryInv, TypeOK
  <2>1. ASSUME NEW r \in Requests, NEW i \in Ids, Execute(r, i)
        PROVE  market' \in [Ids -> MarketOrder] /\ External
    BY <2>1, OrdersAssumption DEF Execute, MarketOrder, Listed
  <2>2. ASSUME NEW r \in Requests, NEW n \in Ids, Replace(r, n)
        PROVE  market' \in [Ids -> MarketOrder] /\ External
    BY <2>2, OrdersAssumption DEF Replace, MarketOrder, Listed
  <2>3. ASSUME NEW i \in Ids, ListElsewhere(i)
        PROVE  market' \in [Ids -> MarketOrder] /\ External
    BY <2>3, OrdersAssumption DEF ListElsewhere, MarketOrder, Listed
  <2>4. ASSUME NEW i \in Ids, NEW x \in 1 .. Lot, Deal(i, x)
        PROVE  market' \in [Ids -> MarketOrder] /\ External
    <3>1. market[i].done + x \in 0 .. Lot
      BY <2>4, OrdersAssumption, WordAssumption DEF Deal, MarketOrder
    <3>. QED
      BY <2>4, <3>1 DEF Deal, MarketOrder
  <2>5. ASSUME NEW i \in Ids, Drop(i)
        PROVE  market' \in [Ids -> MarketOrder] /\ External
    BY <2>5 DEF Drop, MarketOrder
  <2>. QED
    BY <2>1, <2>2, <2>3, <2>4, <2>5 DEF ExchangeStep
<1>2. TypeOK'
  BY <1>1 DEF External, registry, RegistryInv, TypeOK
<1>. QED
  BY <1>1, <1>2, KeepRegistry DEF External, registry, RegistryInv, MadeRequests

LEMMA StutterRegistry ==
    ASSUME RegistryInv, UNCHANGED vars
    PROVE  RegistryInv'
BY DEF vars, registry, RegistryInv, TypeOK, MadeRequests, Made,
       PendingIffUnresolved

\* RegistryInv is inductive.
THEOREM RegistryInvariant == Spec => []RegistryInv
<1>1. RegistryInv /\ [Next]_vars => RegistryInv'
  BY UserRegistry, SlotRegistry, ResponseRegistry, LineRegistry,
     ExchangeRegistry, StutterRegistry DEF Next
<1>. QED
  BY InitRegistry, <1>1, PTL DEF Spec

(***************************************************************************)
(* Every variable keeps its type: the quantities of the objects stay in    *)
(* their word, and each pending or sent request has its operation object.  *)
(***************************************************************************)
THEOREM TypeCorrect == Spec => []TypeOK
BY RegistryInvariant, PTL DEF RegistryInv

(***************************************************************************)
(* An operation leaves m_ordersOperations in the critical section that     *)
(* sets its result, and only then, on all of the ten ways an operation     *)
(* ends.                                                                   *)
(***************************************************************************)
THEOREM PendingExactlyUnresolved == Spec => []PendingIffUnresolved
BY RegistryInvariant, PTL DEF RegistryInv

-----------------------------------------------------------------------------
(***************************************************************************)
(* The keys of the hashes: which object is filed under which id, and which *)
(* objects the pending operations are about.                               *)
(***************************************************************************)
(***************************************************************************)
(* Filed objects and objects of operations are allocated; the object of a  *)
(* pending create is filed nowhere and is that of no other create.         *)
(***************************************************************************)
KeysInv ==
    /\ \A i \in Ids : active[i] # None => Allocated(active[i])
    /\ \A r \in Made : Allocated(op[r].object)
    /\ \A r \in pending : op[r].kind = "create" =>
                            \A i \in Ids : active[i] # op[r].object
    /\ \A r, s \in pending :
            op[r].kind = "create" /\ op[s].kind = "create"
                /\ op[r].object = op[s].object => r = s
    /\ OneKeyPerObject

LEMMA InitKeys == Init => KeysInv
BY DEF Init, KeysInv, Made, OneKeyPerObject

\* A step that files no object and creates none.
LEMMA KeepKeys ==
    ASSUME RegistryInv, RegistryInv', KeysInv,
           \A i \in Ids : active'[i] = active[i] \/ active'[i] = None,
           \A r \in pending' : op'[r].kind = "create" =>
                /\ r \in pending /\ op[r].kind = "create"
                /\ op'[r].object = op[r].object,
           \A r \in Made' : Allocated(op'[r].object),
           \A o \in Objects : Allocated(o) => order'[o].state # "Unknown"
    PROVE  KeysInv'
<1>1. \A i \in Ids : active[i] # None => active[i] \in Objects
  BY DEF RegistryInv, TypeOK
<1>2. \A r \in Made' : op'[r].object \in Objects
  BY DEF RegistryInv, MadeRequests
<1>3. \A i \in Ids : active'[i] # None => order'[active'[i]].state # "Unknown"
  BY <1>1 DEF KeysInv
<1>4. \A r \in Made' : order'[op'[r].object].state # "Unknown"
  BY <1>2
<1>5. \A r \in pending : op[r].object \in Objects
  BY DEF RegistryInv, MadeRequests
<1>6. \A r \in pending' : op'[r].kind = "create" =>
                            \A i \in Ids : active'[i] # op'[r].object
  BY <1>5, OrdersAssumption DEF KeysInv
<1>7. \A r, s \in pending' :
            op'[r].kind = "create" /\ op'[s].kind = "create"
                /\ op'[r].object = op'[s].object => r = s
  BY DEF KeysInv
<1>8. OneKeyPerObject'
  BY DEF KeysInv, OneKeyPerObject
<1>. QED
  BY <1>3, <1>4, <1>6, <1>7, <1>8 DEF KeysInv, Allocated

\* A new object is filed under i.
LEMMA FileKeys ==
    ASSUME RegistryInv, RegistryInv', KeysInv,
           NEW i \in Ids, NEW o \in Objects,
           \A j \in Ids : active[j] # o,
           active' = [active EXCEPT ![i] = o],
           \A r \in pending' : op'[r].kind = "create" =>
                /\ r \in pending /\ op[r].object # o,
           reqId' = reqId,
           \A r \in Requests : /\ op'[r].kind = op[r].kind
                               /\ op'[r].object = op[r].object,
           \A p \in Objects : p = o \/ Allocated(p) => order'[p].state # "Unknown"
    PROVE  KeysInv'
<1>1. /\ Made' = Made
      /\ \A r \in Made : r \in Requests /\ op[r].object \in Objects
      /\ \A r \in pending' : r \in Requests
      /\ \A r \in pending : r \in Requests /\ op[r].object \in Objects
  BY DEF Made, RegistryInv, MadeRequests
<1>2. \A j \in Ids : /\ active[j] # None => active[j] \in Objects
                     /\ active'[j] = IF j = i THEN o ELSE active[j]
  BY DEF RegistryInv, TypeOK
<1>3. \A j \in Ids : active'[j] # None => order'[active'[j]].state # "Unknown"
  BY <1>2 DEF KeysInv
<1>4. \A r \in Made' : order'[op'[r].object].state # "Unknown"
  BY <1>1 DEF KeysInv
<1>5. \A r \in pending' : op'[r].kind = "create" =>
                            \A j \in Ids : active'[j] # op'[r].object
  BY <1>1, <1>2 DEF KeysInv
<1>6. \A r, s \in pending' :
            op'[r].kind = "create" /\ op'[s].kind = "create"
                /\ op'[r].object = op'[s].object => r = s
  BY <1>1 DEF KeysInv
<1>7. OneKeyPerObject'
  BY <1>2 DEF KeysInv, OneKeyPerObject
<1>. QED
  BY <1>3, <1>4, <1>5, <1>6, <1>7 DEF KeysInv, Allocated

-----------------------------------------------------------------------------
\* What a call of a user thread leaves alone, and what it adds.
LEMMA BeginAdds ==
    ASSUME RegistryInv, NEW t \in Threads, NEW o \in Objects,
           NEW kind \in {"create", "change", "cancel"},
           NEW state \in States, NEW says \in States,
           Begin(t, kind, o, state, says)
    PROVE  /\ reqId + 1 \in Requests \ Made
           /\ Made' = Made \cup {reqId + 1}
           /\ pending' = pending \cup {reqId + 1}
           /\ op'[reqId + 1].kind = kind
           /\ op'[reqId + 1].object = o
           /\ op'[reqId + 1].id = order[o].id
           /\ op'[reqId + 1].result = "Unknown"
           /\ \A r \in Requests : r # reqId + 1 => op'[r] = op[r]
           /\ kind \in Kinds
           /\ UNCHANGED <<active, inactive, market>>
<1>1. reqId \in Nat /\ reqId + 1 \in Requests /\ reqId' = reqId + 1
  BY OrdersAssumption DEF Begin, RegistryInv, TypeOK, Requests
<1>2. reqId + 1 \notin Made /\ Made' = Made \cup {reqId + 1}
  BY <1>1 DEF Made
<1>3. /\ pending' = pending \cup {reqId + 1}
      /\ op' = [op EXCEPT ![reqId + 1] = [kind |-> kind, object |-> o,
                                         id |-> order[o].id, phase |-> 0,
                                         result |-> "Unknown"]]
      /\ kind \in Kinds
      /\ UNCHANGED <<active, inactive, market>>
  BY DEF Begin
<1>4. op \in [Requests -> Operation]
  BY DEF RegistryInv, TypeOK
<1>. QED
  BY <1>1, <1>2, <1>3, <1>4

LEMMA CallKeys ==
    ASSUME RegistryInv, RegistryInv', KeysInv, NEW t \in Threads,
           NEW o \in Objects, Allocated(o),
           NEW kind \in {"change", "cancel"}, NEW state \in States \ {"Unknown"},
           NEW says \in States, order' = [order EXCEPT ![o].state = state],
           Begin(t, kind, o, state, says)
    PROVE  KeysInv'
<1>1. \A p \in Objects : Allocated(p) => order'[p].state # "Unknown"
  BY DEF Allocated, RegistryInv, TypeOK, Order
<1>2. pending \subseteq Made /\ Made \subseteq Requests
  BY DEF RegistryInv, MadeRequests
<1>6. /\ Made' = Made \cup {reqId + 1} /\ pending' = pending \cup {reqId + 1}
      /\ reqId + 1 \in Requests \ Made
      /\ op'[reqId + 1].kind = kind /\ op'[reqId + 1].object = o
      /\ \A r \in Requests : r # reqId + 1 => op'[r] = op[r]
      /\ active' = active
  BY BeginAdds
<1>3. \A r \in pending' : op'[r].kind = "create" =>
                /\ r \in pending /\ op[r].kind = "create"
                /\ op'[r].object = op[r].object
  BY <1>2, <1>6
<1>4. \A r \in Made' : Allocated(op'[r].object)
  BY <1>2, <1>6 DEF KeysInv
<1>5. \A i \in Ids : active'[i] = active[i] \/ active'[i] = None
  BY <1>6
<1>. QED
  BY <1>1, <1>3, <1>4, <1>5, KeepKeys

LEMMA TradePaperKeys ==
    ASSUME RegistryInv, RegistryInv', KeysInv, NEW t \in Threads, TradePaper(t)
    PROVE  KeysInv'
<1>1. PICK o \in Objects :
        /\ ~Allocated(o)
        /\ order' = [order EXCEPT ![o] = NewOrder(NoId, "Accepting")]
        /\ Begin(t, "create", o, "Accepting", "Accepting")
  BY DEF TradePaper
<1> DEFINE n == reqId + 1
<1>2. /\ n \in Requests \ Made /\ Made' = Made \cup {n}
      /\ pending' = pending \cup {n}
      /\ op'[n].kind = "create" /\ op'[n].object = o
      /\ \A r \in Requests : r # n => op'[r] = op[r]
      /\ active' = active
  BY <1>1, BeginAdds DEF States
<1> HIDE DEF n
<1>3. \A p \in Objects : p = o \/ Allocated(p) => order'[p].state # "Unknown"
  BY <1>1 DEF Allocated, NewOrder, RegistryInv, TypeOK
<1>4. /\ \A r \in Made : r \in Requests /\ op[r].object \in Objects
      /\ pending \subseteq Made
      /\ \A i \in Ids : active[i] # None => active[i] \in Objects
  BY DEF RegistryInv, MadeRequests, TypeOK
<1>5. \A i \in Ids : active[i] # o
  BY <1>1, OrdersAssumption DEF KeysInv
<1>6. \A r \in Made : op[r].object # o
  BY <1>1 DEF KeysInv
<1>7. \A i \in Ids : active'[i] # None => order'[active'[i]].state # "Unknown"
  BY <1>2, <1>3, <1>4 DEF KeysInv
<1>8. \A r \in Made' : order'[op'[r].object].state # "Unknown"
  BY <1>2, <1>3, <1>4 DEF KeysInv
<1>9. \A r \in pending' : op'[r].kind = "create" =>
                            \A i \in Ids : active'[i] # op'[r].object
  BY <1>2, <1>4, <1>5 DEF KeysInv
<1>10. \A r, s \in pending' :
            op'[r].kind = "create" /\ op'[s].kind = "create"
                /\ op'[r].object = op'[s].object => r = s
  BY <1>2, <1>4, <1>6 DEF KeysInv
<1>11. OneKeyPerObject'
  BY <1>2 DEF KeysInv, OneKeyPerObject
<1>. QED
  BY <1>7, <1>8, <1>9, <1>10, <1>11 DEF KeysInv, Allocated

LEMMA UserKeys ==
    ASSUME RegistryInv, KeysInv, NEW t \in Threads, UserStep(t)
    PROVE  KeysInv'
<1>1. RegistryInv'
  BY UserRegistry
<1>2. ASSUME CancelOrder(t) PROVE KeysInv'
  <2>1. PICK o \in Objects :
          /\ Allocated(o)
          /\ order' = [order EXCEPT ![o].state = "Cancelling"]
          /\ Begin(t, "cancel", o, "Cancelling", "Cancelling")
    BY <1>2 DEF CancelOrder, MayOperateOn
  <2>. QED
    BY <1>1, <2>1, CallKeys DEF States
<1>3. ASSUME ChangeOrder(t) PROVE KeysInv'
  <2>1. PICK o \in Objects :
          /\ Allocated(o)
          /\ order' = [order EXCEPT ![o].state = "Changing"]
          /\ Begin(t, "change", o, "Changing", "Cancelling")
    BY <1>3 DEF ChangeOrder, MayOperateOn
  <2>. QED
    BY <1>1, <2>1, CallKeys DEF States
<1>4. ASSUME Announce(t) PROVE KeysInv'
  BY <1>4 DEF Announce, registry, KeysInv, Made, Allocated, OneKeyPerObject
<1>. QED
  BY <1>1, <1>2, <1>3, <1>4, TradePaperKeys DEF UserStep

\* What every step but the calls of the users keeps.
KeepsRequests ==
    /\ reqId' = reqId
    /\ pending' \subseteq pending
    /\ \A r \in Requests : /\ op'[r].kind = op[r].kind
                           /\ op'[r].object = op[r].object

\* A step that may end operations and take objects out of the active hash.
LEMMA RetireKeys ==
    ASSUME RegistryInv, RegistryInv', KeysInv, KeepsRequests,
           \A i \in Ids : active'[i] = active[i] \/ active'[i] = None,
           \A o \in Objects : Allocated(o) => order'[o].state # "Unknown"
    PROVE  KeysInv'
<1>1. /\ pending' \subseteq pending /\ pending \subseteq Requests
      /\ Made' = Made /\ Made \subseteq Requests
  BY DEF KeepsRequests, Made, RegistryInv, MadeRequests
<1>2. \A r \in pending' : op'[r].kind = "create" =>
                /\ r \in pending /\ op[r].kind = "create"
                /\ op'[r].object = op[r].object
  BY <1>1 DEF KeepsRequests
<1>3. \A r \in Made' : Allocated(op'[r].object)
  BY <1>1 DEF KeepsRequests, KeysInv
<1>. QED
  BY <1>2, <1>3, KeepKeys

LEMMA OneKeepsRequests ==
    ASSUME RegistryInv, NEW r \in Made, NEW res \in {"Success", "Error"},
           op' = [op EXCEPT ![r] = Woken(r, res)], pending' = pending \ {r},
           reqId' = reqId
    PROVE  KeepsRequests
BY OneEnds DEF KeepsRequests

LEMMA WakeUpKeepsRequests ==
    ASSUME RegistryInv, NEW E \in SUBSET Made,
           NEW res \in [Requests -> {"Success", "Error"}], WakeUp(E, res),
           pending' = pending \ E, reqId' = reqId
    PROVE  KeepsRequests
<1>1. \A s \in Requests : /\ op'[s].kind = op[s].kind
                          /\ op'[s].object = op[s].object
  BY WakeUpEnds
<1>. QED
  BY <1>1 DEF KeepsRequests

\* Every way of setting the state of an object keeps it allocated.
LEMMA StateKept ==
    ASSUME RegistryInv, NEW o \in Objects, NEW state \in States \ {"Unknown"},
           order' = [order EXCEPT ![o].state = state]
    PROVE  \A p \in Objects : Allocated(p) => order'[p].state # "Unknown"
BY DEF Allocated, RegistryInv, TypeOK, Order

LEMMA SettleKeys ==
    ASSUME RegistryInv, RegistryInv', KeysInv,
           NEW r \in Made, NEW res \in {"Success", "Error"},
           NEW state \in States \ {"Unknown"}, Settle(r, res, state),
           reqId' = reqId,
           \A i \in Ids : active'[i] = active[i] \/ active'[i] = None
    PROVE  KeysInv'
<1>1. op[r].object \in Objects
  BY DEF RegistryInv, MadeRequests
<1>2. \A p \in Objects : Allocated(p) => order'[p].state # "Unknown"
  BY <1>1, StateKept DEF Settle
<1>3. KeepsRequests
  BY OneKeepsRequests DEF Settle
<1>. QED
  BY <1>2, <1>3, RetireKeys

LEMMA SlotKeys ==
    ASSUME RegistryInv, KeysInv, NEW t \in Threads, SlotStep(t)
    PROVE  KeysInv'
<1> DEFINE r == calling[t].req
<1>1. RegistryInv'
  BY SlotRegistry
<1>2. SlotQueued(t) => r \in Made
  BY DEF SlotQueued, RegistryInv, MadeRequests
<1>3. ASSUME SlotSends(t) PROVE KeysInv'
  <2>1. KeepsRequests
    BY <1>2, <1>3 DEF SlotSends, KeepsRequests, RegistryInv, TypeOK, Operation
  <2>. QED
    BY <1>1, <1>3, <2>1, RetireKeys DEF SlotSends, Allocated
<1>4. ASSUME SlotFails(t) PROVE KeysInv'
  <2>1. StateAfterError(op[r].kind) \in States \ {"Unknown"}
    BY DEF StateAfterError, States
  <2>. QED
    BY <1>1, <1>2, <1>4, <2>1, SettleKeys DEF SlotFails
<1>. QED
  BY <1>3, <1>4 DEF SlotStep

LEMMA CreateAcceptedKeys ==
    ASSUME RegistryInv, RegistryInv', KeysInv,
           NEW r \in Requests, NEW i \in Ids, CreateAccepted(r, i)
    PROVE  KeysInv'
<1> DEFINE o == op[r].object
<1>1. r \in Made /\ r \in pending /\ o \in Objects
  BY AnswerableMade DEF CreateAccepted, Answerable
<1>2. /\ op[r].kind = "create" /\ pending' = pending \ {r}
      /\ op' = [op EXCEPT ![r] = Woken(r, "Success")] /\ reqId' = reqId
  BY DEF CreateAccepted
<1>3. KeepsRequests
  BY <1>1, <1>2, OneKeepsRequests
<1>4. CASE active[i] # None
  BY <1>3, <1>4, RetireKeys DEF CreateAccepted, Allocated
<1>5. CASE active[i] = None
  <2>1. /\ active' = [active EXCEPT ![i] = o]
        /\ order' = [order EXCEPT ![o].state = "Accepted", ![o].id = i]
    BY <1>5 DEF CreateAccepted
  <2>2. \A j \in Ids : active[j] # o
    BY <1>1, <1>2 DEF KeysInv
  <2>3. \A s \in pending' : op'[s].kind = "create" =>
                /\ s \in pending /\ op[s].object # o
    BY <1>1, <1>2, <1>3 DEF KeysInv, KeepsRequests, RegistryInv, MadeRequests
  <2>4. \A p \in Objects : p = o \/ Allocated(p) => order'[p].state # "Unknown"
    <3> HIDE DEF o
    <3>. QED
      BY <1>1, <2>1 DEF Allocated, RegistryInv, TypeOK, Order
  <2> HIDE DEF o
  <2>. QED
    BY <1>1, <1>3, <1>5, <2>1, <2>2, <2>3, <2>4, FileKeys DEF KeepsRequests
<1>. QED
  BY <1>4, <1>5

LEMMA ResponseKeys ==
    ASSUME RegistryInv, KeysInv, NEW r \in Requests, ResponseStep(r)
    PROVE  KeysInv'
<1>1. RegistryInv'
  BY ResponseRegistry
<1>2. Answerable(r) => r \in Made /\ op[r].object \in Objects
  BY AnswerableMade
<1>3. ASSUME Progress(r) PROVE KeysInv'
  <2>1. KeepsRequests
    BY <1>3 DEF Progress, KeepsRequests, RegistryInv, TypeOK, Operation
  <2>. QED
    BY <1>1, <1>3, <2>1, RetireKeys DEF Progress, Allocated
<1>4. ASSUME NEW i \in Ids, CreateAccepted(r, i) PROVE KeysInv'
  BY <1>1, <1>4, CreateAcceptedKeys
<1>5. ASSUME NEW i \in Ids, RealCreateAccepted(r, i) PROVE KeysInv'
  <2>1. StateAfterError("create") \in States \ {"Unknown"}
    BY DEF StateAfterError, States
  <2>. QED
    BY <1>1, <1>2, <1>5, <2>1, SettleKeys DEF RealCreateAccepted
<1>6. ASSUME NEW n \in Ids, ChangeDone(r, n) PROVE KeysInv'
  <2>1. CASE active[n] # None
    BY <1>1, <1>2, <1>6, <2>1, SettleKeys DEF ChangeDone, States
  <2>2. CASE active[n] = None
    <3>1. KeepsRequests
      BY <1>2, <1>6, <2>2, OneKeepsRequests DEF ChangeDone
    <3>2. \A p \in Objects : Allocated(p) => order'[p].state # "Unknown"
      BY <1>2, <1>6, <2>2 DEF ChangeDone, Allocated, RegistryInv, TypeOK, Order
    <3>. QED
      BY <1>1, <1>6, <3>1, <3>2, RetireKeys DEF ChangeDone
  <2>. QED
    BY <2>1, <2>2
<1>7. ASSUME CancelDone(r) PROVE KeysInv'
  <2>1. CASE active[op[r].id] # None
    <3>1. \A i \in Ids : active'[i] = active[i] \/ active'[i] = None
      BY <1>7, <2>1 DEF CancelDone, RegistryInv, TypeOK
    <3>. QED
      BY <1>1, <1>2, <1>7, <2>1, <3>1, SettleKeys DEF CancelDone, States
  <2>2. CASE active[op[r].id] = None
    BY <1>1, <1>2, <1>7, <2>2, SettleKeys DEF CancelDone, States
  <2>. QED
    BY <2>1, <2>2
<1>8. ASSUME Refused(r) PROVE KeysInv'
  <2>1. StateAfterError(op[r].kind) \in States \ {"Unknown"}
    BY DEF StateAfterError, States
  <2>. QED
    BY <1>1, <1>2, <1>8, <2>1, SettleKeys DEF Refused
<1>. QED
  BY <1>3, <1>4, <1>5, <1>6, <1>7, <1>8 DEF ResponseStep

LEMMA UpdatesKeepFields ==
    ASSUME NEW rec \in Order, NEW x \in U32
    PROVE  /\ UpdateRestQty(rec, x).state = rec.state
           /\ UpdateRestQty(rec, x).id = rec.id
           /\ UpdateTradesQty(rec, x).state = rec.state
           /\ UpdateTradesQty(rec, x).id = rec.id
BY DEF UpdateRestQty, UpdateTradesQty, Order

LEMMA OpenLineKeys ==
    ASSUME RegistryInv, RegistryInv', KeysInv,
           NEW i \in Ids, NEW rest \in 0 .. Lot, OpenLine(i, rest)
    PROVE  KeysInv'
<1>1. rest \in U32
  BY OrdersAssumption, WordAssumption DEF U32
<1>2. UNCHANGED <<op, pending, reqId>>
  BY DEF OpenLine
<1>3. CASE active[i] # None
  <2>1. active[i] \in Objects /\ order[active[i]] \in Order
    BY <1>3 DEF RegistryInv, TypeOK
  <2>2. /\ order' = [order EXCEPT ![active[i]] = UpdateRestQty(@, rest)]
        /\ active' = active
    BY <1>3 DEF OpenLine
  <2>3. UpdateRestQty(order[active[i]], rest).state = order[active[i]].state
    BY <1>1, <2>1, UpdatesKeepFields
  <2>4. \A p \in Objects : Allocated(p) => order'[p].state # "Unknown"
    BY <2>1, <2>2, <2>3 DEF Allocated, RegistryInv, TypeOK
  <2>5. KeepsRequests
    BY <1>2 DEF KeepsRequests
  <2>. QED
    BY <2>2, <2>4, <2>5, RetireKeys
<1>4. CASE active[i] = None
  <2>1. PICK o \in Objects :
          /\ ~Allocated(o)
          /\ active' = [active EXCEPT ![i] = o]
          /\ order' = [order EXCEPT ![o] = UpdateRestQty(NewOrder(i, "Accepted"),
                                                         rest)]
    BY <1>4 DEF OpenLine
  <2>2. UpdateRestQty(NewOrder(i, "Accepted"), rest).state = "Accepted"
    <3>1. NewOrder(i, "Accepted") \in Order
      BY NewOrderType DEF States
    <3>. QED
      BY <1>1, <3>1, UpdatesKeepFields DEF NewOrder
  <2>3. \A p \in Objects : p = o \/ Allocated(p) => order'[p].state # "Unknown"
    BY <2>1, <2>2 DEF Allocated, RegistryInv, TypeOK
  <2>4. \A j \in Ids : active[j] # o
    BY <2>1, OrdersAssumption DEF KeysInv
  <2>5. \A r \in pending' : op'[r].kind = "create" =>
                /\ r \in pending /\ op[r].object # o
    BY <1>2, <2>1 DEF KeysInv, RegistryInv, MadeRequests
  <2>. QED
    BY <1>2, <1>4, <2>1, <2>3, <2>4, <2>5, FileKeys
<1>. QED
  BY <1>3, <1>4

LEMMA CloseLineKeys ==
    ASSUME RegistryInv, RegistryInv', KeysInv, NEW i \in Ids, NEW final,
           active[i] # None => final.state # "Unknown",
           NEW res \in [Requests -> {"Success", "Error"}],
           CloseLine(i, final, res)
    PROVE  KeysInv'
<1> DEFINE orders == IF active[i] = None THEN order
                     ELSE [order EXCEPT ![active[i]] = final]
           ended == OperationsOn(orders, i)
<1>1. ended \in SUBSET Made
  BY ExecutedOnMade
<1>2. \A p \in Objects : Allocated(p) => orders[p].state # "Unknown"
  BY DEF Allocated, RegistryInv, TypeOK
<1>3. /\ order' = orders
      /\ \A j \in Ids : active'[j] = active[j] \/ active'[j] = None
      /\ pending' = pending \ ended
      /\ WakeUp(ended, res)
      /\ reqId' = reqId
  BY DEF CloseLine, RegistryInv, TypeOK
<1> HIDE DEF orders, ended
<1>4. KeepsRequests
  BY <1>1, <1>3, WakeUpKeepsRequests
<1>. QED
  BY <1>2, <1>3, <1>4, RetireKeys

LEMMA LineKeys ==
    ASSUME RegistryInv, KeysInv, NEW i \in Ids, LineStep(i)
    PROVE  KeysInv'
<1>1. RegistryInv'
  BY LineRegistry
<1>2. ASSUME NEW rest \in 0 .. Lot, OpenLine(i, rest) PROVE KeysInv'
  BY <1>1, <1>2, OpenLineKeys
<1>3. ASSUME ExecutedLine(i) PROVE KeysInv'
  <2>1. active[i] # None => UpdateRestQty(order[active[i]], 0) \in Order
    BY LotInWord, UpdateRestType DEF RegistryInv, TypeOK
  <2>2. active[i] # None =>
          [UpdateRestQty(order[active[i]], 0)
             EXCEPT !.state = "Executed", !.id = i].state # "Unknown"
    BY <2>1 DEF Order
  <2>3. AllErrors \in [Requests -> {"Success", "Error"}]
    BY DEF AllErrors
  <2>. QED
    BY <1>1, <1>3, <2>2, <2>3, CloseLineKeys DEF ExecutedLine
<1>4. ASSUME DroppedLine(i) PROVE KeysInv'
  <2>1. active[i] # None => order[active[i]] \in Order
    BY DEF RegistryInv, TypeOK
  <2>2. active[i] # None =>
          [order[active[i]] EXCEPT !.state = "Cancelled", !.id = i].state
            # "Unknown"
    BY <2>1 DEF Order
  <2>3. RemovalResults \in [Requests -> {"Success", "Error"}]
    BY DEF RemovalResults
  <2>. QED
    BY <1>1, <1>4, <2>2, <2>3, CloseLineKeys DEF DroppedLine
<1>5. ASSUME NEW x \in 1 .. Lot, TradeLine(i, x) PROVE KeysInv'
  <2> DEFINE ended == OperationsOn(order, i)
             traded == UpdateTradesQty(order[active[i]], x)
  <2>1. ended \in SUBSET Made
    BY ExecutedOnMade
  <2>2. AllErrors \in [Requests -> {"Success", "Error"}]
    BY DEF AllErrors
  <2>3. /\ pending' = pending \ ended /\ WakeUp(ended, AllErrors)
        /\ UNCHANGED <<active, reqId>>
    BY <1>5 DEF TradeLine
  <2>4. active[i] # None =>
            /\ active[i] \in Objects
            /\ traded \in Order
            /\ traded.state = order[active[i]].state
    <3>1. x \in U32
      BY OrdersAssumption, WordAssumption DEF U32
    <3>2. active[i] # None => active[i] \in Objects /\ order[active[i]] \in Order
      BY DEF RegistryInv, TypeOK
    <3>. QED
      BY <3>1, <3>2, UpdateTradesType, UpdatesKeepFields
  <2>5. \/ order' = order
        \/ /\ active[i] # None
           /\ \/ order' = [order EXCEPT ![active[i]] = traded]
              \/ order' = [order EXCEPT
                    ![active[i]] = [traded EXCEPT !.state = "Executed", !.id = i]]
    <3> HIDE DEF traded
    <3>. QED
      BY <1>5 DEF TradeLine, traded
  <2> HIDE DEF ended, traded
  <2>6. active[i] # None =>
            [traded EXCEPT !.state = "Executed", !.id = i].state = "Executed"
    BY <2>4 DEF Order
  <2>7. \A p \in Objects : Allocated(p) => order'[p].state # "Unknown"
    BY <2>4, <2>5, <2>6 DEF Allocated, RegistryInv, TypeOK
  <2>8. KeepsRequests
    BY <2>1, <2>2, <2>3, WakeUpKeepsRequests
  <2>. QED
    BY <1>1, <2>3, <2>7, <2>8, RetireKeys
<1>. QED
  BY <1>2, <1>3, <1>4, <1>5 DEF LineStep

LEMMA ExchangeKeys ==
    ASSUME RegistryInv, KeysInv, ExchangeStep
    PROVE  KeysInv'
<1>1. External
  BY DEF ExchangeStep, Execute, Replace, ListElsewhere, Deal, Drop
<1>. QED
  BY <1>1 DEF External, registry, KeysInv, Made, Allocated, OneKeyPerObject

LEMMA StutterKeys ==
    ASSUME KeysInv, UNCHANGED vars
    PROVE  KeysInv'
BY DEF vars, registry, KeysInv, Made, Allocated, OneKeyPerObject

\* KeysInv is inductive relative to RegistryInv.
THEOREM KeysInvariant == Spec => []KeysInv
<1>1. RegistryInv /\ KeysInv /\ [Next]_vars => KeysInv'
  BY UserKeys, SlotKeys, ResponseKeys, LineKeys, ExchangeKeys, StutterKeys
  DEF Next
<1>. QED
  BY InitKeys, RegistryInvariant, <1>1, PTL DEF Spec

(***************************************************************************)
(* No object is filed under two ids, although three handlers file objects, *)
(* one renames them, and status lines may file an order before the         *)
(* response to its create request does.                                    *)
(***************************************************************************)
THEOREM OneKeyForEachObject == Spec => []OneKeyPerObject
BY KeysInvariant, PTL DEF KeysInv

-----------------------------------------------------------------------------
(***************************************************************************)
(* Orders as long as the users change no order (a successful change leaves *)
(* the object filed under its old id): which orders the pending operations *)
(* are about, and what the success of a removal means.                     *)
(***************************************************************************)
(***************************************************************************)
(* Objects are filed under their own ids; a removal is about the id of its *)
(* object, which never changes; the object of a pending create has none.   *)
(***************************************************************************)
RemovalInv ==
    /\ \A r \in Requests : op[r].kind # "change"
    /\ \A i \in Ids : active[i] # None => order[active[i]].id = i
    /\ \A r \in Made : op[r].kind = "cancel" =>
            op[r].id \in Ids /\ op[r].id = order[op[r].object].id
    /\ \A r \in pending : op[r].kind = "create" => order[op[r].object].id = NoId
    /\ PendingIsOnActive
    /\ OnePendingPerOrder
    /\ RemovalIsReal

AllInv == RegistryInv /\ KeysInv /\ RemovalInv

LEMMA InitRemoval == Init => RemovalInv
BY DEF Init, RemovalInv, Made, PendingIsOnActive, OnePendingPerOrder,
       RemovalIsReal

\* A step that changes no id: it may end operations, and take an object out of
\* the active hash when it ends the operations on its id.
LEMMA KeepRemoval ==
    ASSUME AllInv, RegistryInv', KeepsRequests,
           \A o \in Objects : order'[o].id = order[o].id,
           \A r \in Made : op[r].kind = "cancel" => op'[r].id = op[r].id,
           \A i \in Ids :
               \/ active'[i] = active[i]
               \/ /\ active'[i] = None
                  /\ \A r \in pending' : order[op[r].object].id # i,
           \A r \in Made :
               op[r].kind = "cancel" /\ op'[r].result = "Success"
                   => \/ op[r].result = "Success"
                      \/ market[op[r].id].status = "dropped",
           \A i \in Ids :
               market[i].status = "dropped" => market'[i].status = "dropped"
    PROVE  RemovalInv'
<1>1. /\ Made' = Made /\ pending' \subseteq pending /\ pending \subseteq Made
      /\ Made \subseteq Requests
      /\ \A r \in Made : op[r].object \in Objects
      /\ \A i \in Ids : active[i] # None => active[i] \in Objects
      /\ \A r \in Requests : /\ op'[r].kind = op[r].kind
                             /\ op'[r].object = op[r].object
  BY DEF AllInv, RegistryInv, MadeRequests, TypeOK, KeepsRequests, Made
<1>2. \A r \in Requests : op'[r].kind # "change"
  BY <1>1 DEF AllInv, RemovalInv
<1>3. \A i \in Ids : active'[i] # None => order'[active'[i]].id = i
  BY <1>1 DEF AllInv, RemovalInv
<1>4. \A r \in Made : op[r].kind = "cancel" =>
            op'[r].id \in Ids /\ op'[r].id = order'[op'[r].object].id
  BY <1>1 DEF AllInv, RemovalInv
<1>5. \A r \in pending' : op'[r].kind = "create" =>
                            order'[op'[r].object].id = NoId
  BY <1>1 DEF AllInv, RemovalInv
<1>6. PendingIsOnActive'
  BY <1>1 DEF AllInv, RemovalInv, PendingIsOnActive
<1>7. OnePendingPerOrder'
  BY <1>1 DEF AllInv, RemovalInv, OnePendingPerOrder
<1>8. RemovalIsReal'
  <2>1. \A r \in Requests : op'[r].result = "Success" => r \in Made
    BY <1>1 DEF RegistryInv, MadeRequests
  <2>. QED
    BY <1>1, <1>4, <2>1 DEF AllInv, RemovalInv, RemovalIsReal
<1>. QED
  BY <1>1, <1>2, <1>3, <1>4, <1>5, <1>6, <1>7, <1>8 DEF RemovalInv

-----------------------------------------------------------------------------
LEMMA TradePaperRemoval ==
    ASSUME AllInv, RegistryInv', NEW t \in Threads, TradePaper(t)
    PROVE  RemovalInv'
<1>1. PICK o \in Objects :
        /\ ~Allocated(o)
        /\ order' = [order EXCEPT ![o] = NewOrder(NoId, "Accepting")]
        /\ Begin(t, "create", o, "Accepting", "Accepting")
  BY DEF TradePaper
<1> DEFINE n == reqId + 1
<1>2. /\ n \in Requests \ Made /\ Made' = Made \cup {n}
      /\ pending' = pending \cup {n}
      /\ op'[n].kind = "create" /\ op'[n].object = o
      /\ op'[n].result = "Unknown"
      /\ \A r \in Requests : r # n => op'[r] = op[r]
      /\ UNCHANGED <<active, market>>
  BY <1>1, BeginAdds DEF States, AllInv
<1> HIDE DEF n
<1>3. /\ \A r \in Made : r \in Requests /\ op[r].object \in Objects
      /\ pending \subseteq Made
      /\ \A i \in Ids : active[i] # None => active[i] \in Objects
  BY DEF AllInv, RegistryInv, MadeRequests, TypeOK
<1>4. /\ \A i \in Ids : active[i] # o
      /\ \A r \in Made : op[r].object # o
  BY <1>1, OrdersAssumption DEF AllInv, KeysInv
<1>5. /\ \A p \in Objects : p # o => order'[p] = order[p]
      /\ order'[o].id = NoId
  BY <1>1 DEF NewOrder, AllInv, RegistryInv, TypeOK
<1>6. \A r \in Requests : op'[r].kind # "change"
  BY <1>2 DEF AllInv, RemovalInv
<1>7. \A i \in Ids : active'[i] # None => order'[active'[i]].id = i
  BY <1>2, <1>3, <1>4, <1>5 DEF AllInv, RemovalInv
<1>8. \A r \in Made' : op'[r].kind = "cancel" =>
            op'[r].id \in Ids /\ op'[r].id = order'[op'[r].object].id
  BY <1>2, <1>3, <1>4, <1>5 DEF AllInv, RemovalInv
<1>9. \A r \in pending' : op'[r].kind = "create" =>
                            order'[op'[r].object].id = NoId
  BY <1>2, <1>3, <1>4, <1>5 DEF AllInv, RemovalInv
<1>10. PendingIsOnActive'
  BY <1>2, <1>3, <1>4, <1>5 DEF AllInv, RemovalInv, PendingIsOnActive
<1>11. OnePendingPerOrder'
  <2> SUFFICES ASSUME NEW r \in pending', NEW s \in pending',
                      op'[r].kind # "create",
                      order'[op'[r].object].id = order'[op'[s].object].id
               PROVE  r = s
    BY DEF OnePendingPerOrder
  <2>1. r \in pending /\ order'[op'[r].object].id = order[op[r].object].id
    BY <1>2, <1>3, <1>4, <1>5
  <2>2. order[op[r].object].id # NoId
    BY <1>2, <1>3, <2>1, OrdersAssumption
    DEF AllInv, RemovalInv, PendingIsOnActive
  <2>3. s \in pending /\ order'[op'[s].object].id = order[op[s].object].id
    BY <1>2, <1>3, <1>4, <1>5, <2>1, <2>2
  <2>4. op[r].kind # "create"
    BY <1>2, <1>3, <2>1
  <2>. QED
    BY <2>1, <2>3, <2>4 DEF AllInv, RemovalInv, OnePendingPerOrder
<1>12. RemovalIsReal'
  BY <1>2, <1>3 DEF AllInv, RemovalInv, RemovalIsReal
<1>. QED
  BY <1>6, <1>7, <1>8, <1>9, <1>10, <1>11, <1>12 DEF RemovalInv

LEMMA CancelOrderRemoval ==
    ASSUME AllInv, RegistryInv', NEW t \in Threads, CancelOrder(t)
    PROVE  RemovalInv'
<1>1. PICK o \in Objects :
        /\ MayOperateOn(o)
        /\ order' = [order EXCEPT ![o].state = "Cancelling"]
        /\ Begin(t, "cancel", o, "Cancelling", "Cancelling")
  BY DEF CancelOrder
<1> DEFINE n == reqId + 1
<1>2. /\ n \in Requests \ Made /\ Made' = Made \cup {n}
      /\ pending' = pending \cup {n}
      /\ op'[n].kind = "cancel" /\ op'[n].object = o
      /\ op'[n].id = order[o].id
      /\ op'[n].result = "Unknown"
      /\ \A r \in Requests : r # n => op'[r] = op[r]
      /\ UNCHANGED <<active, market>>
  BY <1>1, BeginAdds DEF States, AllInv
<1> HIDE DEF n
<1>3. /\ \A r \in Made : r \in Requests /\ op[r].object \in Objects
      /\ pending \subseteq Made
      /\ \A i \in Ids : active[i] # None => active[i] \in Objects
  BY DEF AllInv, RegistryInv, MadeRequests, TypeOK
<1>4. /\ order[o].id \in Ids
      /\ active[order[o].id] # None
      /\ \A r \in pending : order[op[r].object].id # order[o].id
  BY <1>1 DEF MayOperateOn, OperationsOn
<1>5. \A p \in Objects : order'[p].id = order[p].id
  BY <1>1 DEF AllInv, RegistryInv, TypeOK, Order
<1>6. \A r \in Requests : op'[r].kind # "change"
  BY <1>2 DEF AllInv, RemovalInv
<1>7. \A i \in Ids : active'[i] # None => order'[active'[i]].id = i
  BY <1>2, <1>3, <1>5 DEF AllInv, RemovalInv
<1>8. \A r \in Made' : op'[r].kind = "cancel" =>
            op'[r].id \in Ids /\ op'[r].id = order'[op'[r].object].id
  BY <1>2, <1>3, <1>4, <1>5 DEF AllInv, RemovalInv
<1>9. \A r \in pending' : op'[r].kind = "create" =>
                            order'[op'[r].object].id = NoId
  BY <1>2, <1>3, <1>5 DEF AllInv, RemovalInv
<1>10. PendingIsOnActive'
  BY <1>2, <1>3, <1>4, <1>5 DEF AllInv, RemovalInv, PendingIsOnActive
<1>11. OnePendingPerOrder'
  BY <1>2, <1>3, <1>4, <1>5 DEF AllInv, RemovalInv, OnePendingPerOrder
<1>12. RemovalIsReal'
  BY <1>2, <1>3 DEF AllInv, RemovalInv, RemovalIsReal
<1>. QED
  BY <1>6, <1>7, <1>8, <1>9, <1>10, <1>11, <1>12 DEF RemovalInv

LEMMA UserRemoval ==
    ASSUME "change" \notin Kinds, AllInv, NEW t \in Threads, UserStep(t)
    PROVE  RemovalInv'
<1>1. RegistryInv'
  BY UserRegistry DEF AllInv
<1>2. ~ChangeOrder(t)
  BY DEF ChangeOrder, Begin
<1>3. ASSUME Announce(t) PROVE RemovalInv'
  BY <1>3 DEF Announce, registry, AllInv, RemovalInv, Made, PendingIsOnActive,
              OnePendingPerOrder, RemovalIsReal
<1>. QED
  BY <1>1, <1>2, <1>3, TradePaperRemoval, CancelOrderRemoval DEF UserStep

-----------------------------------------------------------------------------
\* The end of one operation that changes no id.
LEMMA OneRemoval ==
    ASSUME AllInv, RegistryInv', NEW r \in Made,
           NEW res \in {"Success", "Error"},
           op' = [op EXCEPT ![r] = Woken(r, res)], pending' = pending \ {r},
           op[r].kind = "cancel" /\ res = "Success"
               => market[op[r].id].status = "dropped",
           \A o \in Objects : order'[o].id = order[o].id,
           \A i \in Ids :
               \/ active'[i] = active[i]
               \/ /\ active'[i] = None
                  /\ \A s \in pending' : order[op[s].object].id # i,
           UNCHANGED <<reqId, market>>
    PROVE  RemovalInv'
<1>1. KeepsRequests
  BY OneKeepsRequests DEF AllInv
<1>2. \A s \in Made : op[s].kind = "cancel" => op'[s].id = op[s].id
  BY OneEnds DEF AllInv, RegistryInv, MadeRequests
<1>3. \A s \in Made :
          op[s].kind = "cancel" /\ op'[s].result = "Success"
              => \/ op[s].result = "Success"
                 \/ market[op[s].id].status = "dropped"
  <2>1. op'[r].result \in {res, op[r].result}
    BY OneEnds DEF Woken, AllInv, RegistryInv, TypeOK, Operation
  <2>. QED
    BY <2>1, OneEnds DEF AllInv, RegistryInv, MadeRequests
<1>. QED
  BY <1>1, <1>2, <1>3, KeepRemoval

LEMMA SettleKeepsIds ==
    ASSUME AllInv, NEW r \in Made, NEW res, NEW state, Settle(r, res, state)
    PROVE  \A o \in Objects : order'[o].id = order[o].id
<1>1. op[r].object \in Objects
  BY DEF AllInv, RegistryInv, MadeRequests
<1>. QED
  BY <1>1 DEF Settle, AllInv, RegistryInv, TypeOK, Order

LEMMA SlotRemoval ==
    ASSUME AllInv, NEW t \in Threads, SlotStep(t)
    PROVE  RemovalInv'
<1> DEFINE r == calling[t].req
<1>1. RegistryInv'
  BY SlotRegistry DEF AllInv
<1>2. SlotQueued(t) => r \in Made
  BY DEF SlotQueued, AllInv, RegistryInv, MadeRequests
<1>3. ASSUME SlotSends(t) PROVE RemovalInv'
  <2>1. /\ r \in Made /\ op' = [op EXCEPT ![r].id = order[op[r].object].id]
        /\ UNCHANGED <<order, active, pending, reqId, market>>
    BY <1>2, <1>3 DEF SlotSends, RequestedId
  <2> HIDE DEF r
  <2>2. Made \subseteq Requests /\ op \in [Requests -> Operation]
    BY DEF AllInv, RegistryInv, MadeRequests, TypeOK
  <2>3. \A s \in Requests : /\ op'[s].kind = op[s].kind
                            /\ op'[s].object = op[s].object
                            /\ op'[s].result = op[s].result
    BY <2>1, <2>2 DEF Operation
  <2>4. \A s \in Made : op[s].kind = "cancel" => op'[s].id = op[s].id
    BY <2>1, <2>2 DEF Operation, AllInv, RemovalInv
  <2>5. KeepsRequests
    BY <2>1, <2>3 DEF KeepsRequests
  <2>. QED
    BY <1>1, <2>1, <2>2, <2>3, <2>4, <2>5, KeepRemoval
<1>4. ASSUME SlotFails(t) PROVE RemovalInv'
  <2>1. /\ r \in Made /\ Settle(r, "Error", StateAfterError(op[r].kind))
        /\ UNCHANGED <<active, reqId, market>>
    BY <1>2, <1>4 DEF SlotFails
  <2> HIDE DEF r
  <2>2. \A o \in Objects : order'[o].id = order[o].id
    BY <2>1, SettleKeepsIds
  <2>. QED
    BY <1>1, <2>1, <2>2, OneRemoval DEF Settle
<1>. QED
  BY <1>3, <1>4 DEF SlotStep

LEMMA CreateAcceptedRemoval ==
    ASSUME AllInv, RegistryInv', NEW r \in Requests, NEW i \in Ids,
           CreateAccepted(r, i)
    PROVE  RemovalInv'
<1> DEFINE o == op[r].object
<1>1. r \in Made /\ r \in pending /\ o \in Objects
  BY AnswerableMade DEF CreateAccepted, Answerable, AllInv
<1>2. /\ op[r].kind = "create" /\ pending' = pending \ {r}
      /\ op' = [op EXCEPT ![r] = Woken(r, "Success")]
      /\ UNCHANGED <<reqId, market>>
  BY DEF CreateAccepted
<1>3. CASE active[i] # None
  <2>1. UNCHANGED <<active, order>>
    BY <1>3 DEF CreateAccepted
  <2>. QED
    BY <1>1, <1>2, <2>1, OneRemoval
<1>4. CASE active[i] = None
  <2>1. /\ active' = [active EXCEPT ![i] = o]
        /\ order' = [order EXCEPT ![o].state = "Accepted", ![o].id = i]
    BY <1>4 DEF CreateAccepted
  <2>2. order[o].id = NoId
    BY <1>1, <1>2 DEF AllInv, RemovalInv
  <2>3. \A j \in Ids : active[j] # o
    BY <1>1, <1>2 DEF AllInv, KeysInv
  <2> HIDE DEF o
  <2>4. /\ order'[o].id = i
        /\ \A p \in Objects : p # o => order'[p].id = order[p].id
    BY <1>1, <2>1 DEF AllInv, RegistryInv, TypeOK, Order
  <2>5. /\ \A s \in Made : s \in Requests /\ op[s].object \in Objects
        /\ pending \subseteq Made /\ Made' = Made
        /\ \A j \in Ids : active[j] # None => active[j] \in Objects
        /\ \A j \in Ids : active'[j] = IF j = i THEN o ELSE active[j]
    BY <1>2, <2>1 DEF AllInv, RegistryInv, MadeRequests, TypeOK, Made
  <2>6. \A s \in Requests : /\ op'[s].kind = op[s].kind
                            /\ op'[s].object = op[s].object
                            /\ op'[s].id = op[s].id
                            /\ s # r => op'[s].result = op[s].result
    BY <1>1, <1>2, OneEnds DEF AllInv
  <2>7. \A s \in Made : op[s].kind = "cancel" => op[s].object # o
    BY <2>2, OrdersAssumption DEF AllInv, RemovalInv
  <2>8. \A s \in pending' : op[s].object # o
    <3>1. ASSUME NEW s \in pending' PROVE op[s].object # o
      <4>1. s \in pending /\ s # r /\ op[s].kind \in {"create", "cancel"}
        BY <1>2, <2>5
        DEF AllInv, RemovalInv, RegistryInv, MadeRequests, TypeOK, Operation
      <4>2. CASE op[s].kind = "create"
        BY <1>1, <1>2, <4>1, <4>2 DEF o, AllInv, KeysInv
      <4>3. CASE op[s].kind = "cancel"
        BY <2>5, <2>7, <4>1, <4>3
      <4>. QED
        BY <4>1, <4>2, <4>3
    <3>. QED
      BY <3>1
  <2>9. \A s \in Requests : op'[s].kind # "change"
    BY <2>6 DEF AllInv, RemovalInv
  <2>10. \A j \in Ids : active'[j] # None => order'[active'[j]].id = j
    BY <2>3, <2>4, <2>5 DEF AllInv, RemovalInv
  <2>11. \A s \in Made' : op'[s].kind = "cancel" =>
            op'[s].id \in Ids /\ op'[s].id = order'[op'[s].object].id
    BY <2>4, <2>5, <2>6, <2>7 DEF AllInv, RemovalInv
  <2>12. /\ pending' \subseteq pending
         /\ \A s \in pending' :
              /\ op'[s].kind = op[s].kind /\ op'[s].object = op[s].object
              /\ order'[op'[s].object].id = order[op[s].object].id
    BY <1>2, <2>4, <2>5, <2>6, <2>8
  <2>13. \A s \in pending' : op'[s].kind = "create" =>
                              order'[op'[s].object].id = NoId
    BY <2>12 DEF AllInv, RemovalInv
  <2>14. PendingIsOnActive'
    BY <1>1, <2>5, <2>12, OrdersAssumption
    DEF AllInv, RemovalInv, PendingIsOnActive
  <2>15. OnePendingPerOrder'
    BY <2>12 DEF AllInv, RemovalInv, OnePendingPerOrder
  <2>16. RemovalIsReal'
    BY <1>2, <2>6 DEF AllInv, RemovalInv, RemovalIsReal
  <2>. QED
    BY <2>9, <2>10, <2>11, <2>13, <2>14, <2>15, <2>16 DEF RemovalInv
<1>. QED
  BY <1>3, <1>4

LEMMA CancelDoneRemoval ==
    ASSUME AllInv, RegistryInv', NEW r \in Requests, CancelDone(r)
    PROVE  RemovalInv'
<1> DEFINE i == op[r].id
<1>1. r \in Made /\ r \in pending /\ op[r].object \in Objects
  BY AnswerableMade DEF CancelDone, Answerable, AllInv
<1>2. /\ op[r].kind = "cancel" /\ i \in Ids
      /\ i = order[op[r].object].id
      /\ market[i].status = "dropped"
      /\ UNCHANGED <<reqId, market>>
  BY <1>1 DEF CancelDone, AllInv, RemovalInv
<1>3. CASE active[i] # None
  <2>1. Settle(r, "Success", "Cancelled") /\ active' = [active EXCEPT ![i] = None]
    BY <1>3 DEF CancelDone
  <2>2. \A o \in Objects : order'[o].id = order[o].id
    BY <1>1, <2>1, SettleKeepsIds
  <2>3. \A s \in pending' : order[op[s].object].id # i
    BY <1>1, <1>2, <2>1 DEF Settle, AllInv, RemovalInv, OnePendingPerOrder
  <2>4. \A j \in Ids :
            \/ active'[j] = active[j]
            \/ /\ active'[j] = None
               /\ \A s \in pending' : order[op[s].object].id # j
    BY <1>2, <2>1, <2>3 DEF AllInv, RegistryInv, TypeOK
  <2>. QED
    BY <1>1, <1>2, <2>1, <2>2, <2>4, OneRemoval DEF Settle
<1>4. CASE active[i] = None
  BY <1>1, <1>2, <1>4 DEF CancelDone, AllInv, RemovalInv, PendingIsOnActive
<1>. QED
  BY <1>3, <1>4

LEMMA ResponseRemoval ==
    ASSUME AllInv, NEW r \in Requests, ResponseStep(r)
    PROVE  RemovalInv'
<1>1. RegistryInv'
  BY ResponseRegistry DEF AllInv
<1>2. Answerable(r) => r \in Made
  BY AnswerableMade DEF AllInv
<1>3. ASSUME Progress(r) PROVE RemovalInv'
  <2>1. \A s \in Requests : /\ op'[s].kind = op[s].kind
                            /\ op'[s].object = op[s].object
                            /\ op'[s].id = op[s].id
                            /\ op'[s].result = op[s].result
    BY <1>3 DEF Progress, AllInv, RegistryInv, TypeOK, Operation
  <2>2. UNCHANGED <<order, active, pending, reqId, market>>
    BY <1>3 DEF Progress
  <2>3. KeepsRequests
    BY <2>1, <2>2 DEF KeepsRequests
  <2>4. Made \subseteq Requests
    BY DEF AllInv, RegistryInv, MadeRequests
  <2>. QED
    BY <1>1, <2>1, <2>2, <2>3, <2>4, KeepRemoval
<1>4. ASSUME NEW i \in Ids, CreateAccepted(r, i) PROVE RemovalInv'
  BY <1>1, <1>4, CreateAcceptedRemoval
<1>5. ASSUME NEW state, Answerable(r), Settle(r, "Error", state),
             UNCHANGED <<active, reqId, market>>
      PROVE  RemovalInv'
  <2>1. \A o \in Objects : order'[o].id = order[o].id
    BY <1>2, <1>5, SettleKeepsIds
  <2>. QED
    BY <1>1, <1>2, <1>5, <2>1, OneRemoval DEF Settle
<1>6. ASSUME NEW i \in Ids, RealCreateAccepted(r, i) PROVE RemovalInv'
  BY <1>5, <1>6 DEF RealCreateAccepted
<1>7. ASSUME NEW n \in Ids, ChangeDone(r, n) PROVE RemovalInv'
  BY <1>7 DEF ChangeDone, AllInv, RemovalInv
<1>8. ASSUME CancelDone(r) PROVE RemovalInv'
  BY <1>1, <1>8, CancelDoneRemoval
<1>9. ASSUME Refused(r) PROVE RemovalInv'
  BY <1>5, <1>9 DEF Refused
<1>. QED
  BY <1>3, <1>4, <1>6, <1>7, <1>8, <1>9 DEF ResponseStep

-----------------------------------------------------------------------------
\* A new object is filed under i, with that id: a line of an unknown order, or
\* a row of the database.
LEMMA FileRemoval ==
    ASSUME AllInv, NEW i \in Ids, NEW o \in Objects, ~Allocated(o),
           NEW rec, rec.id = i,
           active' = [active EXCEPT ![i] = o], order' = [order EXCEPT ![o] = rec],
           UNCHANGED <<op, pending, reqId, market>>
    PROVE  RemovalInv'
<1>1. /\ order'[o].id = i
      /\ \A p \in Objects : p # o => order'[p] = order[p]
      /\ \A j \in Ids : active'[j] = IF j = i THEN o ELSE active[j]
      /\ \A j \in Ids : active[j] # None => active[j] \in Objects
  BY DEF AllInv, RegistryInv, TypeOK
<1>2. /\ \A r \in Made : r \in Requests /\ op[r].object \in Objects
                                        /\ op[r].object # o
      /\ pending \subseteq Made /\ Made' = Made
  BY DEF AllInv, KeysInv, RegistryInv, MadeRequests, Made
<1>3. \A j \in Ids : active[j] # o
  BY OrdersAssumption DEF AllInv, KeysInv
<1>4. \A r \in Requests : op'[r].kind # "change"
  BY DEF AllInv, RemovalInv
<1>5. \A j \in Ids : active'[j] # None => order'[active'[j]].id = j
  BY <1>1, <1>3 DEF AllInv, RemovalInv
<1>6. \A r \in Made' : op'[r].kind = "cancel" =>
          op'[r].id \in Ids /\ op'[r].id = order'[op'[r].object].id
  BY <1>1, <1>2 DEF AllInv, RemovalInv
<1>7. \A r \in pending' : op'[r].kind = "create" =>
                          order'[op'[r].object].id = NoId
  BY <1>1, <1>2 DEF AllInv, RemovalInv
<1>8. PendingIsOnActive'
  BY <1>1, <1>2, OrdersAssumption DEF AllInv, RemovalInv, PendingIsOnActive
<1>9. OnePendingPerOrder'
  BY <1>1, <1>2 DEF AllInv, RemovalInv, OnePendingPerOrder
<1>10. RemovalIsReal'
  BY DEF AllInv, RemovalInv, RemovalIsReal
<1>. QED
  BY <1>4, <1>5, <1>6, <1>7, <1>8, <1>9, <1>10 DEF RemovalInv

LEMMA OpenLineRemoval ==
    ASSUME AllInv, RegistryInv', NEW i \in Ids, NEW rest \in 0 .. Lot,
           OpenLine(i, rest)
    PROVE  RemovalInv'
<1>1. rest \in U32
  BY OrdersAssumption, WordAssumption DEF U32
<1>2. UNCHANGED <<op, pending, reqId, market>>
  BY DEF OpenLine
<1>3. CASE active[i] # None
  <2>1. active[i] \in Objects /\ order[active[i]] \in Order
    BY <1>3 DEF AllInv, RegistryInv, TypeOK
  <2>2. /\ order' = [order EXCEPT ![active[i]] = UpdateRestQty(@, rest)]
        /\ active' = active
    BY <1>3 DEF OpenLine
  <2>3. UpdateRestQty(order[active[i]], rest).id = order[active[i]].id
    BY <1>1, <2>1, UpdatesKeepFields
  <2>4. \A o \in Objects : order'[o].id = order[o].id
    BY <2>1, <2>2, <2>3 DEF AllInv, RegistryInv, TypeOK
  <2>5. KeepsRequests
    BY <1>2 DEF KeepsRequests
  <2>. QED
    BY <1>2, <2>2, <2>4, <2>5, KeepRemoval
<1>4. CASE active[i] = None
  <2> DEFINE rec == UpdateRestQty(NewOrder(i, "Accepted"), rest)
  <2>1. PICK o \in Objects :
          /\ ~Allocated(o)
          /\ active' = [active EXCEPT ![i] = o]
          /\ order' = [order EXCEPT ![o] = rec]
    BY <1>4 DEF OpenLine
  <2>2. rec.id = i
    <3>1. NewOrder(i, "Accepted") \in Order
      BY NewOrderType DEF States
    <3>. QED
      BY <1>1, <3>1, UpdatesKeepFields DEF NewOrder
  <2> HIDE DEF rec
  <2>. QED
    BY <1>2, <2>1, <2>2, FileRemoval
<1>. QED
  BY <1>3, <1>4

\* The lines that end the operations on an id.
LEMMA WakeUpRemoval ==
    ASSUME AllInv, RegistryInv', NEW i \in Ids,
           NEW orders, \A o \in Objects : orders[o].id = order[o].id,
           NEW res \in [Requests -> {"Success", "Error"}],
           WakeUp(OperationsOn(orders, i), res),
           pending' = pending \ OperationsOn(orders, i),
           \A r \in OperationsOn(orders, i) :
               op[r].kind = "cancel" /\ res[r] = "Success"
                   => market[i].status = "dropped",
           \A o \in Objects : order'[o].id = order[o].id,
           active' \in {active, [active EXCEPT ![i] = None]},
           UNCHANGED <<reqId, market>>
    PROVE  RemovalInv'
<1> DEFINE E == OperationsOn(orders, i)
<1>1. E \in SUBSET Made
  BY ExecutedOnMade DEF AllInv
<1>2. /\ \A r \in Made : r \in Requests /\ op[r].object \in Objects
      /\ pending \subseteq Made
  BY DEF AllInv, RegistryInv, MadeRequests
<1>3. \A r \in pending : r \in E <=> order[op[r].object].id = i
  BY <1>2 DEF OperationsOn
<1>4. E \subseteq pending
  BY DEF OperationsOn
<1>5. \A r \in Requests : op'[r].id = op[r].id
  BY <1>1, WakeUpEnds DEF AllInv
<1>6. KeepsRequests
  BY <1>1, WakeUpKeepsRequests DEF AllInv
<1>7. \A r \in Made :
          op[r].kind = "cancel" /\ op'[r].result = "Success"
              => \/ op[r].result = "Success"
                 \/ market[op[r].id].status = "dropped"
  <2> SUFFICES ASSUME NEW r \in Made, op[r].kind = "cancel",
                      op'[r].result = "Success", op[r].result # "Success"
               PROVE  market[op[r].id].status = "dropped"
    OBVIOUS
  <2>1. r \in E
    BY <1>1, <1>2, WakeUpEnds DEF AllInv
  <2>2. op[r].id = i
    BY <1>3, <1>4, <2>1 DEF AllInv, RemovalInv
  <2>3. op'[r] = Woken(r, res[r])
    BY <1>2, <2>1 DEF WakeUp
  <2>4. res[r] = "Success"
    BY <1>2, <2>3 DEF Woken, AllInv, RegistryInv, TypeOK, Operation
  <2>. QED
    BY <2>1, <2>2, <2>4
<1>8. \A j \in Ids :
          \/ active'[j] = active[j]
          \/ /\ active'[j] = None
             /\ \A r \in pending' : order[op[r].object].id # j
  BY <1>3 DEF AllInv, RegistryInv, TypeOK
<1> HIDE DEF E
<1>. QED
  BY <1>2, <1>5, <1>6, <1>7, <1>8, KeepRemoval

LEMMA CloseLineRemoval ==
    ASSUME AllInv, RegistryInv', NEW i \in Ids, NEW final,
           active[i] # None => final.id = i,
           NEW res \in [Requests -> {"Success", "Error"}],
           \A r \in Requests :
               op[r].kind = "cancel" /\ res[r] = "Success"
                   => market[i].status = "dropped",
           CloseLine(i, final, res)
    PROVE  RemovalInv'
<1> DEFINE orders == IF active[i] = None THEN order
                     ELSE [order EXCEPT ![active[i]] = final]
<1>1. \A o \in Objects : orders[o].id = order[o].id
  BY DEF AllInv, RemovalInv, RegistryInv, TypeOK
<1>2. /\ order' = orders
      /\ active' = [active EXCEPT ![i] = None]
      /\ pending' = pending \ OperationsOn(orders, i)
      /\ WakeUp(OperationsOn(orders, i), res)
      /\ UNCHANGED <<reqId, market>>
  BY DEF CloseLine
<1>3. OperationsOn(orders, i) \subseteq Requests
  BY ExecutedOnMade DEF AllInv, RegistryInv, MadeRequests
<1> HIDE DEF orders
<1>. QED
  BY <1>1, <1>2, <1>3, WakeUpRemoval

LEMMA LineRemoval ==
    ASSUME AllInv, NEW i \in Ids, LineStep(i)
    PROVE  RemovalInv'
<1>1. RegistryInv'
  BY LineRegistry DEF AllInv
<1>2. ASSUME NEW rest \in 0 .. Lot, OpenLine(i, rest) PROVE RemovalInv'
  BY <1>1, <1>2, OpenLineRemoval
<1>3. ASSUME ExecutedLine(i) PROVE RemovalInv'
  <2>1. active[i] # None => UpdateRestQty(order[active[i]], 0) \in Order
    BY LotInWord, UpdateRestType DEF AllInv, RegistryInv, TypeOK
  <2>2. active[i] # None =>
          [UpdateRestQty(order[active[i]], 0)
             EXCEPT !.state = "Executed", !.id = i].id = i
    BY <2>1 DEF Order
  <2>3. AllErrors \in [Requests -> {"Success", "Error"}]
    BY DEF AllErrors
  <2>4. \A r \in Requests : AllErrors[r] # "Success"
    BY DEF AllErrors
  <2>. QED
    BY <1>1, <1>3, <2>2, <2>3, <2>4, CloseLineRemoval DEF ExecutedLine
<1>4. ASSUME DroppedLine(i) PROVE RemovalInv'
  <2>1. active[i] # None => order[active[i]] \in Order
    BY DEF AllInv, RegistryInv, TypeOK
  <2>2. active[i] # None =>
          [order[active[i]] EXCEPT !.state = "Cancelled", !.id = i].id = i
    BY <2>1 DEF Order
  <2>3. RemovalResults \in [Requests -> {"Success", "Error"}]
    BY DEF RemovalResults
  <2>. QED
    BY <1>1, <1>4, <2>2, <2>3, CloseLineRemoval DEF DroppedLine
<1>5. ASSUME NEW x \in 1 .. Lot, TradeLine(i, x) PROVE RemovalInv'
  <2> DEFINE traded == UpdateTradesQty(order[active[i]], x)
  <2>1. AllErrors \in [Requests -> {"Success", "Error"}]
    BY DEF AllErrors
  <2>2. \A r \in Requests : AllErrors[r] # "Success"
    BY DEF AllErrors
  <2>3. /\ pending' = pending \ OperationsOn(order, i)
        /\ WakeUp(OperationsOn(order, i), AllErrors)
        /\ UNCHANGED <<active, reqId, market>>
    BY <1>5 DEF TradeLine
  <2>4. active[i] # None =>
            active[i] \in Objects /\ traded \in Order /\ traded.id = i
    <3>1. x \in U32
      BY OrdersAssumption, WordAssumption DEF U32
    <3>2. active[i] # None => active[i] \in Objects /\ order[active[i]] \in Order
      BY DEF AllInv, RegistryInv, TypeOK
    <3>3. active[i] # None => order[active[i]].id = i
      BY DEF AllInv, RemovalInv
    <3>. QED
      BY <3>1, <3>2, <3>3, UpdateTradesType, UpdatesKeepFields
  <2>5. \/ order' = order
        \/ /\ active[i] # None
           /\ \/ order' = [order EXCEPT ![active[i]] = traded]
              \/ order' = [order EXCEPT
                    ![active[i]] = [traded EXCEPT !.state = "Executed", !.id = i]]
    <3> HIDE DEF traded
    <3>. QED
      BY <1>5 DEF TradeLine, traded
  <2> HIDE DEF traded
  <2>6. active[i] # None =>
            [traded EXCEPT !.state = "Executed", !.id = i].id = i
    BY <2>4 DEF Order
  <2>7. active[i] # None => order[active[i]].id = i
    BY DEF AllInv, RemovalInv
  <2>8. \A o \in Objects : order'[o].id = order[o].id
    BY <2>4, <2>5, <2>6, <2>7 DEF AllInv, RegistryInv, TypeOK
  <2>9. OperationsOn(order, i) \subseteq Requests
    BY ExecutedOnMade DEF AllInv, RegistryInv, MadeRequests
  <2>. QED
    BY <1>1, <2>1, <2>2, <2>3, <2>8, <2>9, WakeUpRemoval
<1>. QED
  BY <1>2, <1>3, <1>4, <1>5 DEF LineStep

LEMMA ExchangeRemoval ==
    ASSUME AllInv, ExchangeStep
    PROVE  RemovalInv'
<1>1. External
  BY DEF ExchangeStep, Execute, Replace, ListElsewhere, Deal, Drop
<1>2. \A i \in Ids : market[i].status = "dropped" => market'[i].status = "dropped"
  BY DEF ExchangeStep, Execute, Replace, ListElsewhere, Deal, Drop, Listed,
         AllInv, RegistryInv, TypeOK, MarketOrder
<1>3. RegistryInv'
  BY ExchangeRegistry DEF AllInv
<1>4. KeepsRequests
  BY <1>1 DEF External, registry, KeepsRequests
<1>. QED
  BY <1>1, <1>2, <1>3, <1>4, KeepRemoval DEF External, registry

LEMMA StutterRemoval ==
    ASSUME RemovalInv, UNCHANGED vars
    PROVE  RemovalInv'
BY DEF vars, registry, RemovalInv, Made, PendingIsOnActive, OnePendingPerOrder,
       RemovalIsReal

\* RemovalInv is inductive relative to the other two, as long as the users
\* change no order.
THEOREM RemovalInvariant ==
    ASSUME "change" \notin Kinds
    PROVE  Spec => []RemovalInv
<1>1. RegistryInv /\ KeysInv /\ RemovalInv /\ [Next]_vars => RemovalInv'
  BY UserRemoval, SlotRemoval, ResponseRemoval, LineRemoval, ExchangeRemoval,
     StutterRemoval DEF Next, AllInv
<1>. QED
  BY InitRemoval, RegistryInvariant, KeysInvariant, <1>1, PTL DEF Spec

(***************************************************************************)
(* A removal that is pending is about an active order: the response, the   *)
(* three status lines and the trade line all end the operations on an id   *)
(* before they take it out of the active hash.                             *)
(***************************************************************************)
THEOREM PendingOnActive ==
    ASSUME "change" \notin Kinds
    PROVE  Spec => []PendingIsOnActive
<1>1. RemovalInv => PendingIsOnActive
  BY DEF RemovalInv
<1>. QED
  BY <1>1, RemovalInvariant, PTL

(***************************************************************************)
(* Of any number of racing removals of one order one gets through.         *)
(***************************************************************************)
THEOREM OnePending ==
    ASSUME "change" \notin Kinds
    PROVE  Spec => []OnePendingPerOrder
<1>1. RemovalInv => OnePendingPerOrder
  BY DEF RemovalInv
<1>. QED
  BY <1>1, RemovalInvariant, PTL

(***************************************************************************)
(* A waiter that is told its removal succeeded can rely on it.             *)
(***************************************************************************)
THEOREM RemovalsAreReal ==
    ASSUME "change" \notin Kinds
    PROVE  Spec => []RemovalIsReal
<1>1. RemovalInv => RemovalIsReal
  BY DEF RemovalInv
<1>. QED
  BY <1>1, RemovalInvariant, PTL

-----------------------------------------------------------------------------
(***************************************************************************)
(* Removals are final.  That the id is not active says nothing of the lines *)
(* to come; what keeps them out is that it is in the inactive hash.        *)
(***************************************************************************)
ClosedInv ==
    \A r \in Requests :
        Removed(r) => /\ op[r].id \in inactive
                      /\ active[op[r].id] = None \/ RefiledByResponse(r)

\* A step that makes no request, files no retired id and retires the ids of the
\* removals that succeed by it.
LEMMA KeepClosed ==
    ASSUME ClosedInv, KeepsRequests, inactive \subseteq inactive',
           \A r \in Requests : op[r].result = "Success" =>
               op'[r].result = "Success" /\ (Removed(r) => op'[r].id = op[r].id),
           \A i \in inactive : active'[i] = active[i] \/ active'[i] = None,
           \A r \in Requests : Removed(r)' /\ ~Removed(r) =>
               op'[r].id \in inactive' /\ active'[op'[r].id] = None
    PROVE  ClosedInv'
<1> SUFFICES ASSUME NEW r \in Requests, Removed(r)'
             PROVE  /\ op'[r].id \in inactive'
                    /\ active'[op'[r].id] = None \/ RefiledByResponse(r)'
  BY DEF ClosedInv
<1>1. CASE ~Removed(r)
  BY <1>1
<1>2. CASE Removed(r)
  <2>1. op'[r].id = op[r].id /\ op[r].id \in inactive
    BY <1>2 DEF ClosedInv, Removed
  <2>2. CASE active'[op[r].id] = None
    BY <2>1, <2>2
  <2>3. CASE active'[op[r].id] # None
    <3>1. active'[op[r].id] = active[op[r].id] /\ RefiledByResponse(r)
      BY <1>2, <2>1, <2>3 DEF ClosedInv
    <3>2. RefiledByResponse(r)'
      BY <2>1, <3>1 DEF RefiledByResponse, KeepsRequests
    <3>. QED
      BY <2>1, <3>2
  <2>. QED
    BY <2>2, <2>3
<1>. QED
  BY <1>1, <1>2

\* A new operation has no result, and no part in the old ones.
LEMMA BeginClosed ==
    ASSUME ClosedInv, NEW n, \A r \in Requests : r # n => op'[r] = op[r],
           op'[n].result = "Unknown", op[n].result = "Unknown",
           UNCHANGED <<active, inactive>>
    PROVE  ClosedInv'
<1> SUFFICES ASSUME NEW r \in Requests, Removed(r)'
             PROVE  /\ op'[r].id \in inactive'
                    /\ active'[op'[r].id] = None \/ RefiledByResponse(r)'
  BY DEF ClosedInv
<1>1. op'[r] = op[r] /\ Removed(r)
  BY DEF Removed
<1>2. RefiledByResponse(r) => RefiledByResponse(r)'
  BY <1>1 DEF RefiledByResponse
<1>. QED
  BY <1>1, <1>2 DEF ClosedInv

LEMMA UserClosed ==
    ASSUME "change" \notin Kinds, AllInv, ClosedInv,
           NEW t \in Threads, UserStep(t)
    PROVE  ClosedInv'
<1>1. ASSUME NEW o \in Objects, NEW kind \in {"create", "cancel"},
             NEW state \in {"Accepting", "Cancelling"},
             Begin(t, kind, o, state, state)
      PROVE  ClosedInv'
  <2>1. /\ reqId + 1 \in Requests \ Made
        /\ op'[reqId + 1].result = "Unknown"
        /\ \A r \in Requests : r # reqId + 1 => op'[r] = op[r]
        /\ UNCHANGED <<active, inactive>>
    BY <1>1, BeginAdds DEF States, AllInv
  <2>2. op[reqId + 1].result = "Unknown"
    BY <2>1 DEF AllInv, RegistryInv, MadeRequests
  <2>. QED
    BY <2>1, <2>2, BeginClosed
<1>2. ~ChangeOrder(t)
  BY DEF ChangeOrder, Begin
<1>3. ASSUME Announce(t) PROVE ClosedInv'
  BY <1>3 DEF Announce, registry, ClosedInv, Removed, RefiledByResponse
<1>. QED
  BY <1>1, <1>2, <1>3 DEF UserStep, TradePaper, CancelOrder

-----------------------------------------------------------------------------
\* The end of one operation that is no successful removal.
LEMMA OneClosed ==
    ASSUME AllInv, ClosedInv, NEW r \in Made, NEW res \in {"Success", "Error"},
           op' = [op EXCEPT ![r] = Woken(r, res)], pending' = pending \ {r},
           op[r].kind = "cancel" => res = "Error",
           UNCHANGED <<active, inactive, reqId>>
    PROVE  ClosedInv'
<1>1. KeepsRequests
  BY OneKeepsRequests DEF AllInv
<1>2. /\ op'[r] = Woken(r, res)
      /\ \A s \in Requests : /\ op'[s].id = op[s].id
                             /\ op'[s].kind = op[s].kind
                             /\ s # r => op'[s].result = op[s].result
  BY OneEnds DEF AllInv
<1>3. op'[r].result = IF op[r].result = "Unknown" THEN res ELSE op[r].result
  BY <1>2 DEF Woken, AllInv, RegistryInv, MadeRequests, TypeOK, Operation
<1>4. \A s \in Requests : op[s].result = "Success" => op'[s].result = "Success"
  BY <1>2, <1>3
<1>5. \A s \in Requests : Removed(s)' => Removed(s)
  BY <1>2, <1>3 DEF Removed
<1>. QED
  BY <1>1, <1>2, <1>4, <1>5, KeepClosed

LEMMA SlotClosed ==
    ASSUME AllInv, ClosedInv, NEW t \in Threads, SlotStep(t)
    PROVE  ClosedInv'
<1> DEFINE r == calling[t].req
<1>1. SlotQueued(t) => r \in Made
  BY DEF SlotQueued, AllInv, RegistryInv, MadeRequests
<1>2. ASSUME SlotSends(t) PROVE ClosedInv'
  <2>1. /\ r \in Made /\ op' = [op EXCEPT ![r].id = order[op[r].object].id]
        /\ UNCHANGED <<active, inactive, pending, reqId>>
    BY <1>1, <1>2 DEF SlotSends, RequestedId
  <2> HIDE DEF r
  <2>2. Made \subseteq Requests /\ op \in [Requests -> Operation]
    BY DEF AllInv, RegistryInv, MadeRequests, TypeOK
  <2>3. \A s \in Requests : /\ op'[s].kind = op[s].kind
                            /\ op'[s].object = op[s].object
                            /\ op'[s].result = op[s].result
    BY <2>1, <2>2 DEF Operation
  <2>4. \A s \in Requests : Removed(s) => op'[s].id = op[s].id
    <3>1. \A s \in Requests : Removed(s) => s \in Made
      BY DEF Removed, AllInv, RegistryInv, MadeRequests
    <3>. QED
      BY <2>1, <2>2, <3>1 DEF Removed, Operation, AllInv, RemovalInv
  <2>5. KeepsRequests
    BY <2>1, <2>3 DEF KeepsRequests
  <2>6. \A s \in Requests : Removed(s)' => Removed(s)
    BY <2>3 DEF Removed
  <2>. QED
    BY <2>1, <2>3, <2>4, <2>5, <2>6, KeepClosed
<1>3. ASSUME SlotFails(t) PROVE ClosedInv'
  <2>1. /\ r \in Made /\ Settle(r, "Error", StateAfterError(op[r].kind))
        /\ UNCHANGED <<active, inactive, reqId>>
    BY <1>1, <1>3 DEF SlotFails
  <2> HIDE DEF r
  <2>. QED
    BY <2>1, OneClosed DEF Settle
<1>. QED
  BY <1>2, <1>3 DEF SlotStep

\* The one handler that may file a retired id: the object is that of its create.
LEMMA CreateAcceptedClosed ==
    ASSUME AllInv, ClosedInv, NEW r \in Requests, NEW i \in Ids,
           CreateAccepted(r, i)
    PROVE  ClosedInv'
<1> DEFINE o == op[r].object
<1>1. r \in Made /\ r \in pending /\ o \in Objects
  BY AnswerableMade DEF CreateAccepted, Answerable, AllInv
<1>2. /\ op[r].kind = "create" /\ pending' = pending \ {r}
      /\ op' = [op EXCEPT ![r] = Woken(r, "Success")]
      /\ UNCHANGED <<inactive, reqId>>
  BY DEF CreateAccepted
<1>3. CASE active[i] # None
  BY <1>1, <1>2, <1>3, OneClosed DEF CreateAccepted
<1>4. CASE active[i] = None
  <2>1. active' = [active EXCEPT ![i] = o]
    BY <1>4 DEF CreateAccepted
  <2>2. order[o].id = NoId
    BY <1>1, <1>2 DEF AllInv, RemovalInv
  <2> HIDE DEF o
  <2>3. \A s \in Requests : /\ op'[s].kind = op[s].kind
                            /\ op'[s].object = op[s].object
                            /\ op'[s].id = op[s].id
                            /\ s # r => op'[s].result = op[s].result
    BY <1>1, <1>2, OneEnds DEF AllInv
  <2>4. op[r].result = "Unknown" /\ op'[r].result = "Success"
    <3>1. op[r].result = "Unknown"
      BY <1>1 DEF AllInv, RegistryInv, PendingIffUnresolved
    <3>2. op'[r] = Woken(r, "Success") /\ op[r] \in Operation
      BY <1>1, <1>2, OneEnds DEF AllInv, RegistryInv, TypeOK
    <3>. QED
      BY <3>1, <3>2 DEF Woken, Operation
  <2>5. SUFFICES ASSUME NEW s \in Requests, Removed(s)'
                 PROVE  /\ op'[s].id \in inactive'
                        /\ active'[op'[s].id] = None \/ RefiledByResponse(s)'
    BY DEF ClosedInv
  <2>6. s # r /\ Removed(s) /\ op'[s].id = op[s].id
    BY <1>2, <2>3, <2>5 DEF Removed
  <2>7. op[s].id \in inactive
    BY <2>6 DEF ClosedInv
  <2>8. CASE op[s].id = i
    <3>1. active'[op[s].id] = o
      BY <2>1, <2>8 DEF AllInv, RegistryInv, TypeOK
    <3>2. s \in Made
      BY <2>6 DEF Removed, AllInv, RegistryInv, MadeRequests
    <3>3. op[s].object # o
      BY <2>2, <2>6, <3>2, OrdersAssumption DEF Removed, AllInv, RemovalInv
    <3>4. RefiledByResponse(s)'
      BY <1>2, <2>3, <2>4, <2>6, <3>1, <3>3 DEF o, RefiledByResponse
    <3>. QED
      BY <1>2, <2>6, <2>7, <3>4
  <2>9. CASE op[s].id # i
    <3>1. op[s].id \in Ids /\ active'[op[s].id] = active[op[s].id]
      BY <2>1, <2>7, <2>9 DEF AllInv, RegistryInv, TypeOK
    <3>2. RefiledByResponse(s) => RefiledByResponse(s)'
      BY <2>3, <2>4, <2>6, <3>1 DEF RefiledByResponse
    <3>. QED
      BY <1>2, <2>6, <2>7, <3>1, <3>2 DEF ClosedInv
  <2>. QED
    BY <2>8, <2>9
<1>. QED
  BY <1>3, <1>4

LEMMA CancelDoneClosed ==
    ASSUME AllInv, ClosedInv, NEW r \in Requests, CancelDone(r)
    PROVE  ClosedInv'
<1> DEFINE i == op[r].id
<1>1. r \in Made /\ r \in pending /\ op[r].object \in Objects
  BY AnswerableMade DEF CancelDone, Answerable, AllInv
<1>2. /\ op[r].kind = "cancel" /\ i \in Ids /\ active[i] # None
      /\ UNCHANGED reqId
  BY <1>1 DEF CancelDone, AllInv, RemovalInv, PendingIsOnActive
<1>3. /\ Settle(r, "Success", "Cancelled")
      /\ active' = [active EXCEPT ![i] = None]
      /\ inactive' = inactive \cup {i}
  BY <1>2 DEF CancelDone
<1> HIDE DEF i
<1>4. KeepsRequests
  BY <1>1, <1>2, <1>3, OneKeepsRequests DEF Settle, AllInv
<1>5. /\ op'[r] = Woken(r, "Success")
      /\ \A s \in Requests : /\ op'[s].id = op[s].id
                             /\ op'[s].kind = op[s].kind
                             /\ s # r => op'[s].result = op[s].result
  BY <1>1, <1>3, OneEnds DEF Settle, AllInv
<1>6. op[r].result = "Success" => op'[r].result = "Success"
  BY <1>5 DEF Woken
<1>7. active' \in [Ids -> Objects \cup {None}] /\ active'[i] = None
      /\ \A j \in Ids : active'[j] = active[j] \/ active'[j] = None
  BY <1>2, <1>3 DEF AllInv, RegistryInv, TypeOK
<1>8. \A s \in Requests : Removed(s)' /\ ~Removed(s) => s = r
  BY <1>5 DEF Removed
<1>9. inactive \subseteq Ids
  BY DEF AllInv, RegistryInv, TypeOK
<1>. QED
  BY <1>3, <1>4, <1>5, <1>6, <1>7, <1>8, <1>9, KeepClosed DEF i

LEMMA ResponseClosed ==
    ASSUME AllInv, ClosedInv, NEW r \in Requests, ResponseStep(r)
    PROVE  ClosedInv'
<1>1. Answerable(r) => r \in Made
  BY AnswerableMade DEF AllInv
<1>2. ASSUME Progress(r) PROVE ClosedInv'
  <2>1. \A s \in Requests : /\ op'[s].kind = op[s].kind
                            /\ op'[s].object = op[s].object
                            /\ op'[s].id = op[s].id
                            /\ op'[s].result = op[s].result
    BY <1>2 DEF Progress, AllInv, RegistryInv, TypeOK, Operation
  <2>. QED
    BY <1>2, <2>1 DEF Progress, ClosedInv, Removed, RefiledByResponse
<1>3. ASSUME NEW state, Answerable(r), Settle(r, "Error", state),
             UNCHANGED <<active, inactive, reqId>>
      PROVE  ClosedInv'
  BY <1>1, <1>3, OneClosed DEF Settle
<1>4. ASSUME NEW n \in Ids, ChangeDone(r, n) PROVE ClosedInv'
  BY <1>4 DEF ChangeDone, AllInv, RemovalInv
<1>5. ASSUME NEW i \in Ids, RealCreateAccepted(r, i) PROVE ClosedInv'
  BY <1>3, <1>5 DEF RealCreateAccepted
<1>6. ASSUME Refused(r) PROVE ClosedInv'
  BY <1>3, <1>6 DEF Refused
<1>. QED
  BY <1>2, <1>4, <1>5, <1>6, CreateAcceptedClosed, CancelDoneClosed
  DEF ResponseStep

-----------------------------------------------------------------------------
\* The lines that end the operations on an id: a removal that succeeds by one
\* finds its order active, and the line retires it.
LEMMA WakeUpClosed ==
    ASSUME AllInv, ClosedInv, NEW i \in Ids,
           NEW orders, \A o \in Objects : orders[o].id = order[o].id,
           NEW res \in [Requests -> {"Success", "Error"}],
           WakeUp(OperationsOn(orders, i), res),
           pending' = pending \ OperationsOn(orders, i),
           inactive \subseteq inactive',
           active' \in {active, [active EXCEPT ![i] = None]},
           (\E r \in Requests : res[r] = "Success") =>
               /\ active' = [active EXCEPT ![i] = None]
               /\ active[i] # None => i \in inactive',
           UNCHANGED reqId
    PROVE  ClosedInv'
<1> DEFINE E == OperationsOn(orders, i)
<1>1. E \in SUBSET Made
  BY ExecutedOnMade DEF AllInv
<1>2. /\ \A r \in Made : r \in Requests /\ op[r].object \in Objects
      /\ pending \subseteq Made /\ E \subseteq pending
  BY DEF AllInv, RegistryInv, MadeRequests, OperationsOn
<1>3. \A r \in E : order[op[r].object].id = i
  BY <1>2 DEF OperationsOn
<1>4. \A r \in Requests : /\ op'[r].id = op[r].id
                          /\ op'[r].kind = op[r].kind
                          /\ r \notin E => op'[r].result = op[r].result
  BY <1>1, WakeUpEnds DEF AllInv
<1>5. KeepsRequests
  BY <1>1, WakeUpKeepsRequests DEF AllInv
<1>6. \A r \in E : /\ r \in Requests /\ op[r].result = "Unknown"
                   /\ op'[r].result = res[r]
  <2> SUFFICES ASSUME NEW r \in E
               PROVE  /\ r \in Requests /\ op[r].result = "Unknown"
                      /\ op'[r].result = res[r]
    OBVIOUS
  <2>1. r \in Requests /\ op[r].result = "Unknown"
    BY <1>2 DEF AllInv, RegistryInv, PendingIffUnresolved
  <2>2. op'[r] = Woken(r, res[r]) /\ op[r] \in Operation
    BY <2>1 DEF WakeUp, AllInv, RegistryInv, TypeOK
  <2>. QED
    BY <2>1, <2>2 DEF Woken, Operation
<1> HIDE DEF E
<1>7. \A r \in Requests : op[r].result = "Success" => op'[r].result = "Success"
  BY <1>4, <1>6
<1>8. \A j \in inactive : active'[j] = active[j] \/ active'[j] = None
  BY DEF AllInv, RegistryInv, TypeOK
<1>9. ASSUME NEW r \in Requests, Removed(r)', ~Removed(r)
      PROVE  op'[r].id \in inactive' /\ active'[op'[r].id] = None
  <2>1. r \in E /\ op[r].kind = "cancel" /\ res[r] = "Success"
    BY <1>4, <1>6, <1>9 DEF Removed
  <2>2. op[r].id = i /\ active[i] # None
    BY <1>2, <1>3, <2>1 DEF AllInv, RemovalInv, PendingIsOnActive
  <2>3. i \in inactive' /\ active' = [active EXCEPT ![i] = None]
    BY <2>1, <2>2
  <2>. QED
    BY <1>4, <2>2, <2>3 DEF AllInv, RegistryInv, TypeOK
<1>. QED
  BY <1>4, <1>5, <1>7, <1>8, <1>9, KeepClosed

LEMMA CloseLineClosed ==
    ASSUME AllInv, ClosedInv, NEW i \in Ids, NEW final,
           active[i] # None => final.id = i,
           NEW res \in [Requests -> {"Success", "Error"}],
           CloseLine(i, final, res)
    PROVE  ClosedInv'
<1> DEFINE orders == IF active[i] = None THEN order
                     ELSE [order EXCEPT ![active[i]] = final]
<1>1. \A o \in Objects : orders[o].id = order[o].id
  BY DEF AllInv, RemovalInv, RegistryInv, TypeOK
<1>2. /\ active' = [active EXCEPT ![i] = None]
      /\ inactive \subseteq inactive' /\ (active[i] # None => i \in inactive')
      /\ pending' = pending \ OperationsOn(orders, i)
      /\ WakeUp(OperationsOn(orders, i), res)
      /\ UNCHANGED reqId
  BY DEF CloseLine
<1> HIDE DEF orders
<1>. QED
  BY <1>1, <1>2, WakeUpClosed

LEMMA LineClosed ==
    ASSUME AllInv, ClosedInv, NEW i \in Ids, LineStep(i)
    PROVE  ClosedInv'
<1>1. ASSUME NEW rest \in 0 .. Lot, OpenLine(i, rest) PROVE ClosedInv'
  <2>1. /\ UNCHANGED <<inactive, op, pending, reqId>> /\ i \notin inactive
        /\ \A j \in Ids : j # i => active'[j] = active[j]
    BY <1>1 DEF OpenLine, AllInv, RegistryInv, TypeOK
  <2>2. \A j \in inactive : active'[j] = active[j]
    BY <2>1 DEF AllInv, RegistryInv, TypeOK
  <2>3. KeepsRequests
    BY <2>1 DEF KeepsRequests
  <2>4. \A r \in Requests : Removed(r)' => Removed(r)
    BY <2>1 DEF Removed
  <2>. QED
    BY <2>1, <2>2, <2>3, <2>4, KeepClosed
<1>2. ASSUME ExecutedLine(i) PROVE ClosedInv'
  <2>1. active[i] # None => UpdateRestQty(order[active[i]], 0) \in Order
    BY LotInWord, UpdateRestType DEF AllInv, RegistryInv, TypeOK
  <2>2. active[i] # None =>
          [UpdateRestQty(order[active[i]], 0)
             EXCEPT !.state = "Executed", !.id = i].id = i
    BY <2>1 DEF Order
  <2>3. AllErrors \in [Requests -> {"Success", "Error"}]
    BY DEF AllErrors
  <2>. QED
    BY <1>2, <2>2, <2>3, CloseLineClosed DEF ExecutedLine
<1>3. ASSUME DroppedLine(i) PROVE ClosedInv'
  <2>1. active[i] # None => order[active[i]] \in Order
    BY DEF AllInv, RegistryInv, TypeOK
  <2>2. active[i] # None =>
          [order[active[i]] EXCEPT !.state = "Cancelled", !.id = i].id = i
    BY <2>1 DEF Order
  <2>3. RemovalResults \in [Requests -> {"Success", "Error"}]
    BY DEF RemovalResults
  <2>. QED
    BY <1>3, <2>2, <2>3, CloseLineClosed DEF DroppedLine
<1>4. ASSUME NEW x \in 1 .. Lot, TradeLine(i, x) PROVE ClosedInv'
  <2>1. AllErrors \in [Requests -> {"Success", "Error"}]
    BY DEF AllErrors
  <2>2. \A r \in Requests : AllErrors[r] # "Success"
    BY DEF AllErrors
  <2>3. /\ pending' = pending \ OperationsOn(order, i)
        /\ WakeUp(OperationsOn(order, i), AllErrors)
        /\ inactive \subseteq inactive'
        /\ UNCHANGED <<active, reqId>>
    BY <1>4 DEF TradeLine
  <2>. QED
    BY <2>1, <2>2, <2>3, WakeUpClosed
<1>. QED
  BY <1>1, <1>2, <1>3, <1>4 DEF LineStep

\* ClosedInv is inductive relative to AllInv.
THEOREM ClosedInvariant ==
    ASSUME "change" \notin Kinds
    PROVE  Spec => []ClosedInv
<1>1. Init => ClosedInv
  BY DEF Init, ClosedInv, Removed
<1>2. RegistryInv /\ KeysInv /\ RemovalInv /\ ClosedInv /\ [Next]_vars
        => ClosedInv'
  <2> SUFFICES ASSUME AllInv, ClosedInv, [Next]_vars PROVE ClosedInv'
    BY DEF AllInv
  <2>1. ASSUME ExchangeStep PROVE ClosedInv'
    <3>1. UNCHANGED <<active, inactive, op>>
      BY <2>1 DEF ExchangeStep, Execute, Replace, ListElsewhere, Deal, Drop,
                  External, registry
    <3>. QED
      BY <3>1 DEF ClosedInv, Removed, RefiledByResponse
  <2>2. CASE UNCHANGED vars
    BY <2>2 DEF vars, registry, ClosedInv, Removed, RefiledByResponse
  <2>. QED
    BY <2>1, <2>2, UserClosed, SlotClosed, ResponseClosed, LineClosed DEF Next
<1>. QED
  BY <1>1, <1>2, RegistryInvariant, KeysInvariant, RemovalInvariant, PTL
  DEF Spec

(***************************************************************************)
(* After a successful removal no status or trade line, however late or     *)
(* often it comes, makes the order active: the race of ADConnection.h:543. *)
(***************************************************************************)
THEOREM RemovalsAreFinal ==
    ASSUME "change" \notin Kinds
    PROVE  Spec => []CancelledStaysClosed
<1>1. ClosedInv => CancelledStaysClosed
  BY DEF ClosedInv, CancelledStaysClosed
<1>. QED
  BY <1>1, ClosedInvariant, PTL

-----------------------------------------------------------------------------
(***************************************************************************)
(* The registry implements OperationResults, and the steps that lead there.*)
(***************************************************************************)
Outcomes == [r \in Requests |-> op[r].result]

PromiseStep == Promise!Next \/ UNCHANGED <<reqId, Outcomes>>

LEMMA SameOutcomes ==
    ASSUME reqId' = reqId, \A r \in Requests : op'[r].result = op[r].result
    PROVE  PromiseStep
<1>1. Outcomes' = Outcomes
  BY DEF Outcomes
<1>. QED
  BY <1>1 DEF PromiseStep

LEMMA BeginMakes ==
    ASSUME AllInv, NEW t \in Threads, NEW o \in Objects,
           NEW kind \in {"create", "change", "cancel"},
           NEW state \in States, NEW says \in States,
           Begin(t, kind, o, state, says)
    PROVE  PromiseStep
<1>1. /\ reqId < MaxRequests /\ reqId' = reqId + 1
  BY DEF Begin
<1>2. \A r \in Requests : op'[r].result = op[r].result
  BY BeginAdds DEF AllInv, RegistryInv, MadeRequests
<1>3. Outcomes' = Outcomes
  BY <1>2 DEF Outcomes
<1>. QED
  BY <1>1, <1>3 DEF PromiseStep, Outcomes, Promise!Next, Promise!Make

LEMMA OneResolves ==
    ASSUME AllInv, NEW r \in Made, NEW res \in {"Success", "Error"},
           op' = [op EXCEPT ![r] = Woken(r, res)], reqId' = reqId
    PROVE  PromiseStep
<1>1. /\ r \in Requests /\ r \in 1 .. MaxRequests /\ r <= reqId
      /\ op[r] \in Operation
  BY OrdersAssumption
  DEF AllInv, RegistryInv, MadeRequests, Made, Requests, TypeOK
<1>2. /\ op'[r] = Woken(r, res)
      /\ \A s \in Requests : s # r => op'[s].result = op[s].result
  BY OneEnds DEF AllInv
<1>3. CASE op[r].result # "Unknown"
  <2>1. \A s \in Requests : op'[s].result = op[s].result
    BY <1>2, <1>3 DEF Woken
  <2>. QED
    BY <2>1, SameOutcomes
<1>4. CASE op[r].result = "Unknown"
  <2>1. op'[r].result = res
    BY <1>1, <1>2, <1>4 DEF Woken, Operation
  <2>2. Outcomes' = [Outcomes EXCEPT ![r] = res] /\ Outcomes[r] = "Unknown"
    BY <1>1, <1>2, <1>4, <2>1 DEF Outcomes
  <2>3. Promise!Resolve(r)
    BY <1>1, <2>2 DEF Promise!Resolve, Outcomes
  <2>. QED
    BY <1>1, <2>3 DEF PromiseStep, Promise!Next
<1>. QED
  BY <1>3, <1>4

\* A line ends at most one operation, although it looks for all of them.
LEMMA WakeUpResolves ==
    ASSUME AllInv, NEW i \in Ids,
           NEW orders, \A o \in Objects : orders[o].id = order[o].id,
           NEW res \in [Requests -> {"Success", "Error"}],
           WakeUp(OperationsOn(orders, i), res), reqId' = reqId
    PROVE  PromiseStep
<1> DEFINE E == OperationsOn(orders, i)
<1>1. E \in SUBSET Made
  BY ExecutedOnMade DEF AllInv
<1>2. /\ \A r \in Made : r \in Requests /\ op[r].object \in Objects
      /\ op \in [Requests -> Operation]
  BY DEF AllInv, RegistryInv, MadeRequests, TypeOK
<1>3. \A r \in E : r \in pending /\ order[op[r].object].id = i
  BY <1>1, <1>2 DEF OperationsOn
<1>4. \A r, s \in E : r = s
  <2>1. \A r \in E : op[r].kind # "create"
    BY <1>3, OrdersAssumption DEF AllInv, RemovalInv
  <2>. QED
    BY <1>3, <2>1 DEF AllInv, RemovalInv, OnePendingPerOrder
<1>5. op' = [r \in Requests |-> IF r \in E THEN Woken(r, res[r]) ELSE op[r]]
  BY DEF WakeUp
<1> HIDE DEF E
<1>6. CASE E = {}
  <2>1. \A r \in Requests : op'[r].result = op[r].result
    BY <1>5, <1>6
  <2>. QED
    BY <2>1, SameOutcomes
<1>7. CASE E # {}
  <2>1. PICK r \in E : TRUE
    BY <1>7
  <2>2. /\ r \in Made /\ r \in Requests
        /\ res[r] \in {"Success", "Error"}
    BY <1>1, <1>2, <2>1
  <2>3. op' = [op EXCEPT ![r] = Woken(r, res[r])]
    BY <1>2, <1>4, <1>5, <2>1, <2>2
  <2>. QED
    BY <2>2, <2>3, OneResolves
<1>. QED
  BY <1>6, <1>7

-----------------------------------------------------------------------------
LEMMA UserPromise ==
    ASSUME AllInv, NEW t \in Threads, UserStep(t)
    PROVE  PromiseStep
<1>1. ASSUME TradePaper(t) PROVE PromiseStep
  BY <1>1, BeginMakes DEF TradePaper, States
<1>2. ASSUME CancelOrder(t) PROVE PromiseStep
  BY <1>2, BeginMakes DEF CancelOrder, States
<1>3. ASSUME ChangeOrder(t) PROVE PromiseStep
  BY <1>3, BeginMakes DEF ChangeOrder, States
<1>4. ASSUME Announce(t) PROVE PromiseStep
  BY <1>4, SameOutcomes DEF Announce, registry
<1>. QED
  BY <1>1, <1>2, <1>3, <1>4 DEF UserStep

LEMMA SlotPromise ==
    ASSUME AllInv, NEW t \in Threads, SlotStep(t)
    PROVE  PromiseStep
<1>1. SlotQueued(t) => calling[t].req \in Made
  BY DEF SlotQueued, AllInv, RegistryInv, MadeRequests
<1>2. ASSUME SlotSends(t) PROVE PromiseStep
  <2>1. \A r \in Requests : op'[r].result = op[r].result
    BY <1>2 DEF SlotSends, AllInv, RegistryInv, TypeOK, Operation
  <2>. QED
    BY <1>2, <2>1, SameOutcomes DEF SlotSends
<1>3. ASSUME SlotFails(t) PROVE PromiseStep
  BY <1>1, <1>3, OneResolves DEF SlotFails, Settle
<1>. QED
  BY <1>2, <1>3 DEF SlotStep

LEMMA ResponsePromise ==
    ASSUME AllInv, NEW r \in Requests, ResponseStep(r)
    PROVE  PromiseStep
<1>1. Answerable(r) => r \in Made
  BY AnswerableMade DEF AllInv
<1>2. ASSUME Progress(r) PROVE PromiseStep
  <2>1. \A s \in Requests : op'[s].result = op[s].result
    BY <1>2 DEF Progress, AllInv, RegistryInv, TypeOK, Operation
  <2>. QED
    BY <1>2, <2>1, SameOutcomes DEF Progress
<1>3. ASSUME NEW i \in Ids, CreateAccepted(r, i) PROVE PromiseStep
  BY <1>1, <1>3, OneResolves DEF CreateAccepted
<1>4. ASSUME NEW i \in Ids, RealCreateAccepted(r, i) PROVE PromiseStep
  BY <1>1, <1>4, OneResolves DEF RealCreateAccepted, Settle
<1>5. ASSUME NEW n \in Ids, ChangeDone(r, n) PROVE PromiseStep
  BY <1>5 DEF ChangeDone, AllInv, RemovalInv
<1>6. ASSUME CancelDone(r) PROVE PromiseStep
  <2>1. CASE active[op[r].id] # None
    BY <1>1, <1>6, <2>1, OneResolves DEF CancelDone, Settle
  <2>2. CASE active[op[r].id] = None
    BY <1>1, <1>6, <2>2, OneResolves DEF CancelDone, Settle
  <2>. QED
    BY <2>1, <2>2
<1>7. ASSUME Refused(r) PROVE PromiseStep
  BY <1>1, <1>7, OneResolves DEF Refused, Settle
<1>. QED
  BY <1>2, <1>3, <1>4, <1>5, <1>6, <1>7 DEF ResponseStep

LEMMA CloseLinePromise ==
    ASSUME AllInv, NEW i \in Ids, NEW final, active[i] # None => final.id = i,
           NEW res \in [Requests -> {"Success", "Error"}],
           CloseLine(i, final, res)
    PROVE  PromiseStep
<1> DEFINE orders == IF active[i] = None THEN order
                     ELSE [order EXCEPT ![active[i]] = final]
<1>1. \A o \in Objects : orders[o].id = order[o].id
  BY DEF AllInv, RemovalInv, RegistryInv, TypeOK
<1>2. WakeUp(OperationsOn(orders, i), res) /\ reqId' = reqId
  BY DEF CloseLine
<1> HIDE DEF orders
<1>. QED
  BY <1>1, <1>2, WakeUpResolves

LEMMA LinePromise ==
    ASSUME AllInv, NEW i \in Ids, LineStep(i)
    PROVE  PromiseStep
<1>1. ASSUME NEW rest \in 0 .. Lot, OpenLine(i, rest) PROVE PromiseStep
  BY <1>1, SameOutcomes DEF OpenLine
<1>2. ASSUME ExecutedLine(i) PROVE PromiseStep
  <2>1. active[i] # None => UpdateRestQty(order[active[i]], 0) \in Order
    BY LotInWord, UpdateRestType DEF AllInv, RegistryInv, TypeOK
  <2>2. active[i] # None =>
          [UpdateRestQty(order[active[i]], 0)
             EXCEPT !.state = "Executed", !.id = i].id = i
    BY <2>1 DEF Order
  <2>3. AllErrors \in [Requests -> {"Success", "Error"}]
    BY DEF AllErrors
  <2>. QED
    BY <1>2, <2>2, <2>3, CloseLinePromise DEF ExecutedLine
<1>3. ASSUME DroppedLine(i) PROVE PromiseStep
  <2>1. active[i] # None => order[active[i]] \in Order
    BY DEF AllInv, RegistryInv, TypeOK
  <2>2. active[i] # None =>
          [order[active[i]] EXCEPT !.state = "Cancelled", !.id = i].id = i
    BY <2>1 DEF Order
  <2>3. RemovalResults \in [Requests -> {"Success", "Error"}]
    BY DEF RemovalResults
  <2>. QED
    BY <1>3, <2>2, <2>3, CloseLinePromise DEF DroppedLine
<1>4. ASSUME NEW x \in 1 .. Lot, TradeLine(i, x) PROVE PromiseStep
  <2>1. AllErrors \in [Requests -> {"Success", "Error"}]
    BY DEF AllErrors
  <2>2. WakeUp(OperationsOn(order, i), AllErrors) /\ reqId' = reqId
    BY <1>4 DEF TradeLine
  <2>. QED
    BY <2>1, <2>2, WakeUpResolves
<1>. QED
  BY <1>1, <1>2, <1>3, <1>4 DEF LineStep

LEMMA ExchangePromise ==
    ASSUME ExchangeStep
    PROVE  PromiseStep
<1>1. External
  BY DEF ExchangeStep, Execute, Replace, ListElsewhere, Deal, Drop
<1>. QED
  BY <1>1, SameOutcomes DEF External, registry

(***************************************************************************)
(* Every step of the registry makes one operation, gives one operation its *)
(* one result, or changes no result: calls, slots, responses and lines of  *)
(* any number of threads and orders in any order.                          *)
(***************************************************************************)
THEOREM PromiseKept ==
    ASSUME "change" \notin Kinds
    PROVE  Spec => PromiseSpec
<1>1. Init => Promise!Init
  BY DEF Init, Promise!Init, Requests
<1>2. RegistryInv /\ KeysInv /\ RemovalInv /\ [Next]_vars
        => [Promise!Next]_<<reqId, [r \in Requests |-> op[r].result]>>
  <2> SUFFICES ASSUME AllInv, [Next]_vars
               PROVE  PromiseStep
    BY DEF AllInv, PromiseStep, Outcomes
  <2>1. CASE UNCHANGED vars
    BY <2>1, SameOutcomes DEF vars, registry
  <2>. QED
    BY <2>1, UserPromise, SlotPromise, ResponsePromise, LinePromise,
       ExchangePromise DEF Next
<1>. QED
  BY <1>1, <1>2, RegistryInvariant, KeysInvariant, RemovalInvariant, PTL
  DEF Spec, PromiseSpec, Promise!Spec

-----------------------------------------------------------------------------
(***************************************************************************)
(* Deals, whatever the users call: no object has more lots than both the   *)
(* exchange dealt and the trade lines reported, and the object of a        *)
(* pending create, which no line finds, has none.                          *)
(***************************************************************************)
MarketDeals ==
    \A i \in Ids : /\ market[i].status = "none" => market[i].done = 0
                   /\ market[i].status = "filled" => market[i].done = Lot

\* In one session an object knows by its trades no more than trade lines told.
\* After a login the trades may be told again to an object that knows them.
DealsOf(streams) ==
    /\ MarketDeals
    /\ \A o \in Objects : order[o].qty <= Lot /\ order[o].rest <= order[o].qty
    /\ \A i \in Ids :
        /\ told[i] <= market[i].done
        /\ active[i] # None =>
                /\ ByRest(order[active[i]]) <= market[i].done
                /\ "trades" \in streams => order[active[i]].trades <= told[i]
    /\ \A r \in pending : op[r].kind = "create" =>
            /\ ByRest(order[op[r].object]) = 0
            /\ order[op[r].object].trades = 0

DealsInv == DealsOf({"rest", "trades"})

LEMMA InitDeals ==
    ASSUME NEW streams, Init
    PROVE  DealsOf(streams)
<1>1. Lot \in Nat
  BY OrdersAssumption, WordAssumption
<1>2. \A o \in Objects : order[o].qty = 0 /\ order[o].rest = 0
  BY DEF Init, FreeOrder, NewOrder
<1>3. /\ pending = {}
      /\ \A i \in Ids : /\ told[i] = 0 /\ market[i].done = 0
                        /\ active[i] = None /\ market[i].status = "none"
  BY DEF Init
<1>. QED
  BY <1>1, <1>2, <1>3 DEF DealsOf, MarketDeals

\* The parts of the type that the arithmetic of deals needs.
LEMMA DealsTypes ==
    ASSUME TypeOK
    PROVE  /\ Lot \in Nat /\ Lot >= 1 /\ Lot < Word /\ Word \in Nat
           /\ \A o \in Objects : /\ order[o] \in Order
                                 /\ order[o].qty \in Nat /\ order[o].rest \in Nat
                                 /\ order[o].trades \in Nat
           /\ \A i \in Ids : /\ active[i] # None => active[i] \in Objects
                             /\ market[i].done \in Nat /\ market[i].done <= Lot
                             /\ told[i] \in Nat
BY OrdersAssumption, WordAssumption DEF TypeOK, Order, U32, MarketOrder

\* A step that gives no object a lot more: objects may be filed that were those
\* of pending creates, orders change, and the exchange goes on.
LEMMA KeepDeals ==
    ASSUME NEW streams,
           RegistryInv, RegistryInv', DealsOf(streams),
           \A o \in Objects :
               /\ order'[o].qty <= Lot /\ order'[o].rest <= order'[o].qty
               /\ ByRest(order'[o]) <= ByRest(order[o])
               /\ order'[o].trades = order[o].trades,
           \A i \in Ids :
               \/ active'[i] = active[i] \/ active'[i] = None
               \/ \E r \in pending :
                    op[r].kind = "create" /\ active'[i] = op[r].object,
           \A r \in pending' : op'[r].kind = "create" =>
                /\ r \in pending /\ op[r].kind = "create"
                /\ op'[r].object = op[r].object,
           told' = told,
           \A i \in Ids : market[i].done <= market'[i].done,
           MarketDeals'
    PROVE  DealsOf(streams)'
<1>1. /\ Lot \in Nat
      /\ \A o \in Objects : /\ order[o].qty \in Nat /\ order[o].rest \in Nat
                            /\ order[o].trades \in Nat
      /\ \A i \in Ids : /\ active[i] # None => active[i] \in Objects
                        /\ market[i].done \in Nat
                        /\ told[i] \in Nat
  BY DealsTypes DEF RegistryInv
<1>2. /\ \A o \in Objects : order'[o].qty \in Nat /\ order'[o].rest \in Nat
      /\ \A i \in Ids : market'[i].done \in Nat
  BY WordAssumption DEF RegistryInv, TypeOK, Order, U32, MarketOrder
<1>3. \A r \in pending : op[r].object \in Objects
  BY DEF RegistryInv, MadeRequests
<1>4. ASSUME NEW i \in Ids, active'[i] # None
      PROVE  /\ ByRest(order'[active'[i]]) <= market'[i].done
             /\ ("trades" \in streams => order'[active'[i]].trades <= told'[i])
  <2>1. CASE active'[i] = active[i]
    BY <1>1, <1>2, <1>4, <2>1 DEF DealsOf, ByRest
  <2>2. ASSUME NEW r \in pending,
               op[r].kind = "create", active'[i] = op[r].object
        PROVE  /\ ByRest(order'[active'[i]]) <= market'[i].done
               /\ ("trades" \in streams => order'[active'[i]].trades <= told'[i])
    BY <1>1, <1>2, <1>3, <2>2 DEF DealsOf, ByRest
  <2>. QED
    BY <1>4, <2>1, <2>2
<1>5. \A i \in Ids : told'[i] <= market'[i].done
  BY <1>1, <1>2 DEF DealsOf
<1>6. ASSUME NEW r \in pending', op'[r].kind = "create"
      PROVE  /\ ByRest(order'[op'[r].object]) = 0
             /\ order'[op'[r].object].trades = 0
  <2> DEFINE o == op[r].object
  <2>1. r \in pending /\ op[r].kind = "create" /\ op'[r].object = o
    BY <1>6
  <2>2. o \in Objects /\ ByRest(order[o]) = 0 /\ order[o].trades = 0
    BY <1>3, <2>1 DEF DealsOf
  <2> HIDE DEF o
  <2>3. ByRest(order'[o]) = 0 /\ order'[o].trades = 0
    BY <1>1, <1>2, <2>2 DEF ByRest
  <2>. QED
    BY <2>1, <2>3
<1>. QED
  BY <1>4, <1>5, <1>6 DEF DealsOf

\* An object is allocated: for a create, or filed under an id of which a line
\* reported as many deals.
LEMMA NewDeals ==
    ASSUME NEW streams,
           RegistryInv, RegistryInv', KeysInv, DealsOf(streams),
           NEW o \in Objects, ~Allocated(o), NEW rec,
           order' = [order EXCEPT ![o] = rec],
           rec.qty = Lot, rec.rest <= Lot, rec.trades = 0,
           \/ active' = active
           \/ \E i \in Ids : /\ active' = [active EXCEPT ![i] = o]
                             /\ ByRest(rec) <= market[i].done,
           \A r \in pending' : op'[r].kind = "create" =>
                \/ /\ r \in pending /\ op[r].kind = "create"
                   /\ op'[r].object = op[r].object
                \/ op'[r].object = o /\ rec.rest = Lot,
           UNCHANGED <<told, market>>
    PROVE  DealsOf(streams)'
<1>1. /\ Lot \in Nat /\ order \in [Objects -> Order]
      /\ active \in [Ids -> Objects \cup {None}]
      /\ \A i \in Ids : /\ active[i] # None => active[i] \in Objects
                        /\ market[i].done \in Nat
                        /\ told[i] \in Nat
  BY DealsTypes DEF RegistryInv, TypeOK
<1>2. /\ \A r \in pending : op[r].object \in Objects /\ op[r].object # o
      /\ \A i \in Ids : active[i] # o
  BY OrdersAssumption DEF RegistryInv, MadeRequests, KeysInv
<1>3. /\ order'[o] = rec
      /\ \A p \in Objects : p # o => order'[p] = order[p]
  BY <1>1
<1>4. ASSUME NEW i \in Ids, active'[i] # None
      PROVE  /\ ByRest(order'[active'[i]]) <= market'[i].done
             /\ ("trades" \in streams => order'[active'[i]].trades <= told'[i])
  <2>1. CASE active'[i] = active[i]
    BY <1>1, <1>2, <1>3, <1>4, <2>1 DEF DealsOf
  <2>2. CASE active'[i] # active[i]
    BY <1>1, <1>2, <1>3, <1>4, <2>2 DEF DealsOf
  <2>. QED
    BY <2>1, <2>2
<1>5. \A r \in pending' : op'[r].kind = "create" =>
            /\ ByRest(order'[op'[r].object]) = 0
            /\ order'[op'[r].object].trades = 0
  BY <1>1, <1>2, <1>3 DEF DealsOf, ByRest
<1>6. \A p \in Objects : order'[p].qty <= Lot /\ order'[p].rest <= order'[p].qty
  BY <1>1, <1>3 DEF DealsOf
<1>. QED
  BY <1>4, <1>5, <1>6 DEF DealsOf, MarketDeals

\* A line about an active order: only its object gets lots.
LEMMA FiledDeals ==
    ASSUME NEW streams,
           RegistryInv, RegistryInv', KeysInv, DealsOf(streams), KeepsRequests,
           NEW i \in Ids, active[i] # None,
           NEW rec, order' = [order EXCEPT ![active[i]] = rec],
           rec.qty <= Lot, rec.rest <= rec.qty,
           ByRest(rec) <= market[i].done,
           "trades" \in streams => rec.trades <= told'[i],
           \A j \in Ids : active'[j] = active[j] \/ active'[j] = None,
           told'[i] <= market[i].done,
           \A j \in Ids : j # i => told'[j] = told[j],
           market' = market
    PROVE  DealsOf(streams)'
<1>1. /\ order \in [Objects -> Order] /\ active[i] \in Objects
      /\ \A r \in pending : r \in Requests /\ op[r].object \in Objects
      /\ \A j \in Ids : active[j] # None => active[j] \in Objects
  BY DEF RegistryInv, TypeOK, MadeRequests
<1>2. /\ order'[active[i]] = rec
      /\ \A p \in Objects : p # active[i] => order'[p] = order[p]
  BY <1>1
<1>3. \A r \in pending : op[r].kind = "create" => op[r].object # active[i]
  BY DEF KeysInv
<1>4. \A j \in Ids : j # i /\ active[j] # None => active[j] # active[i]
  BY DEF KeysInv, OneKeyPerObject
<1>5. \A j \in Ids : active'[j] # None =>
            /\ ByRest(order'[active'[j]]) <= market'[j].done
            /\ ("trades" \in streams => order'[active'[j]].trades <= told'[j])
  BY <1>1, <1>2, <1>4 DEF DealsOf
<1>6. \A r \in pending' : op'[r].kind = "create" =>
            /\ ByRest(order'[op'[r].object]) = 0
            /\ order'[op'[r].object].trades = 0
  BY <1>1, <1>2, <1>3 DEF DealsOf, KeepsRequests
<1>7. \A p \in Objects : order'[p].qty <= Lot /\ order'[p].rest <= order'[p].qty
  BY <1>1, <1>2 DEF DealsOf
<1>. QED
  BY <1>5, <1>6, <1>7 DEF DealsOf, MarketDeals

-----------------------------------------------------------------------------
\* A change of the state of an object, or of its id, changes no quantity.
SameQuantities ==
    \A o \in Objects : /\ order'[o].qty = order[o].qty
                       /\ order'[o].rest = order[o].rest
                       /\ order'[o].trades = order[o].trades

LEMMA StateSameQuantities ==
    ASSUME RegistryInv, NEW o \in Objects, NEW state,
           order' = [order EXCEPT ![o].state = state]
    PROVE  SameQuantities
BY DEF SameQuantities, RegistryInv, TypeOK, Order

\* KeepDeals for the handlers that neither read nor write a quantity.
LEMMA SameDeals ==
    ASSUME NEW streams,
           RegistryInv, RegistryInv', DealsOf(streams), SameQuantities,
           \A i \in Ids :
               \/ active'[i] = active[i] \/ active'[i] = None
               \/ \E r \in pending :
                    op[r].kind = "create" /\ active'[i] = op[r].object,
           \A r \in pending' : op'[r].kind = "create" =>
                /\ r \in pending /\ op[r].kind = "create"
                /\ op'[r].object = op[r].object,
           UNCHANGED <<told, market>>
    PROVE  DealsOf(streams)'
<1>1. \A o \in Objects :
        /\ order'[o].qty <= Lot /\ order'[o].rest <= order'[o].qty
        /\ ByRest(order'[o]) <= ByRest(order[o])
        /\ order'[o].trades = order[o].trades
  <2> SUFFICES ASSUME NEW o \in Objects
               PROVE  /\ order'[o].qty <= Lot /\ order'[o].rest <= order'[o].qty
                      /\ ByRest(order'[o]) <= ByRest(order[o])
                      /\ order'[o].trades = order[o].trades
    OBVIOUS
  <2>1. /\ order'[o].qty = order[o].qty /\ order'[o].rest = order[o].rest
        /\ order'[o].trades = order[o].trades
        /\ order[o].qty \in Nat /\ order[o].rest \in Nat
    BY DealsTypes DEF SameQuantities, RegistryInv
  <2>. QED
    BY <2>1 DEF DealsOf, ByRest
<1>2. MarketDeals' /\ \A i \in Ids : market[i].done <= market'[i].done
  BY DealsTypes DEF DealsOf, MarketDeals, RegistryInv
<1>. QED
  BY <1>1, <1>2, KeepDeals

LEMMA UserDeals ==
    ASSUME NEW streams,
           RegistryInv, KeysInv, DealsOf(streams), NEW t \in Threads, UserStep(t)
    PROVE  DealsOf(streams)'
<1>1. RegistryInv'
  BY UserRegistry
<1>2. /\ Lot \in Nat /\ pending \subseteq Made /\ Made \subseteq Requests
  BY OrdersAssumption, WordAssumption DEF RegistryInv, MadeRequests
<1>3. ASSUME TradePaper(t) PROVE DealsOf(streams)'
  <2>1. PICK o \in Objects :
          /\ ~Allocated(o)
          /\ order' = [order EXCEPT ![o] = NewOrder(NoId, "Accepting")]
          /\ Begin(t, "create", o, "Accepting", "Accepting")
    BY <1>3 DEF TradePaper
  <2> DEFINE n == reqId + 1
             rec == NewOrder(NoId, "Accepting")
  <2>2. /\ n \in Requests \ Made
        /\ pending' = pending \cup {n}
        /\ op'[n].object = o
        /\ \A r \in Requests : r # n => op'[r] = op[r]
        /\ UNCHANGED <<active, market>>
    BY <2>1, BeginAdds DEF States
  <2>3. told' = told
    BY <2>1 DEF Begin
  <2>4. rec.qty = Lot /\ rec.rest = Lot /\ rec.rest <= Lot /\ rec.trades = 0
    BY <1>2 DEF NewOrder
  <2> HIDE DEF n, rec
  <2>5. order' = [order EXCEPT ![o] = rec]
    BY <2>1 DEF rec
  <2>6. \A r \in pending' : op'[r].kind = "create" =>
            \/ /\ r \in pending /\ op[r].kind = "create"
               /\ op'[r].object = op[r].object
            \/ op'[r].object = o /\ rec.rest = Lot
    BY <1>2, <2>2, <2>4
  <2>. QED
    BY <1>1, <2>1, <2>2, <2>3, <2>4, <2>5, <2>6, NewDeals
<1>4. ASSUME NEW o \in Objects, NEW kind \in {"change", "cancel"},
             NEW state \in States, NEW says \in States,
             order' = [order EXCEPT ![o].state = state],
             Begin(t, kind, o, state, says)
      PROVE  DealsOf(streams)'
  <2>1. SameQuantities
    BY <1>4, StateSameQuantities
  <2>2. /\ reqId + 1 \in Requests \ Made
        /\ pending' = pending \cup {reqId + 1}
        /\ op'[reqId + 1].kind = kind
        /\ \A r \in Requests : r # reqId + 1 => op'[r] = op[r]
        /\ UNCHANGED <<active, market>>
    BY <1>4, BeginAdds
  <2>3. told' = told
    BY <1>4 DEF Begin
  <2>4. \A r \in pending' : op'[r].kind = "create" =>
            /\ r \in pending /\ op[r].kind = "create"
            /\ op'[r].object = op[r].object
    BY <1>2, <2>2
  <2>. QED
    BY <1>1, <2>1, <2>2, <2>3, <2>4, SameDeals
<1>5. ASSUME CancelOrder(t) PROVE DealsOf(streams)'
  BY <1>4, <1>5 DEF CancelOrder, States
<1>6. ASSUME ChangeOrder(t) PROVE DealsOf(streams)'
  BY <1>4, <1>6 DEF ChangeOrder, States
<1>7. ASSUME Announce(t) PROVE DealsOf(streams)'
  BY <1>1, <1>7, SameDeals DEF Announce, registry, SameQuantities
<1>. QED
  BY <1>3, <1>5, <1>6, <1>7 DEF UserStep

\* A handler that ends operations, or none, and files no object.
LEMMA HandlerDeals ==
    ASSUME NEW streams,
           RegistryInv, RegistryInv', DealsOf(streams), SameQuantities, KeepsRequests,
           \A i \in Ids : active'[i] = active[i] \/ active'[i] = None,
           UNCHANGED <<told, market>>
    PROVE  DealsOf(streams)'
<1>1. pending \subseteq Requests
  BY DEF RegistryInv, MadeRequests
<1>2. \A r \in pending' : op'[r].kind = "create" =>
            /\ r \in pending /\ op[r].kind = "create"
            /\ op'[r].object = op[r].object
  BY <1>1 DEF KeepsRequests
<1>. QED
  BY <1>2, SameDeals

LEMMA SettleDeals ==
    ASSUME NEW streams,
           RegistryInv, RegistryInv', DealsOf(streams),
           NEW r \in Made, NEW res \in {"Success", "Error"},
           NEW state, Settle(r, res, state), reqId' = reqId,
           \A i \in Ids : active'[i] = active[i] \/ active'[i] = None,
           UNCHANGED <<told, market>>
    PROVE  DealsOf(streams)'
<1>1. op[r].object \in Objects
  BY DEF RegistryInv, MadeRequests
<1>2. SameQuantities
  BY <1>1, StateSameQuantities DEF Settle
<1>3. KeepsRequests
  BY OneKeepsRequests DEF Settle
<1>. QED
  BY <1>2, <1>3, HandlerDeals

LEMMA SlotDeals ==
    ASSUME NEW streams,
           RegistryInv, DealsOf(streams), NEW t \in Threads, SlotStep(t)
    PROVE  DealsOf(streams)'
<1>1. RegistryInv'
  BY SlotRegistry
<1>2. SlotQueued(t) => calling[t].req \in Made
  BY DEF SlotQueued, RegistryInv, MadeRequests
<1>3. ASSUME SlotSends(t) PROVE DealsOf(streams)'
  <2>1. KeepsRequests
    BY <1>2, <1>3 DEF SlotSends, KeepsRequests, RegistryInv, TypeOK, Operation
  <2>2. SameQuantities
    BY <1>3 DEF SlotSends, SameQuantities
  <2>. QED
    BY <1>1, <1>3, <2>1, <2>2, HandlerDeals DEF SlotSends
<1>4. ASSUME SlotFails(t) PROVE DealsOf(streams)'
  BY <1>1, <1>2, <1>4, SettleDeals DEF SlotFails
<1>. QED
  BY <1>3, <1>4 DEF SlotStep

LEMMA ResponseDeals ==
    ASSUME NEW streams,
           RegistryInv, DealsOf(streams), NEW r \in Requests, ResponseStep(r)
    PROVE  DealsOf(streams)'
<1> DEFINE o == op[r].object
<1>1. RegistryInv'
  BY ResponseRegistry
<1>2. Answerable(r) => r \in Made /\ r \in pending /\ o \in Objects
  BY AnswerableMade DEF Answerable
<1>3. ASSUME Progress(r) PROVE DealsOf(streams)'
  <2>1. KeepsRequests
    BY <1>3 DEF Progress, KeepsRequests, RegistryInv, TypeOK, Operation
  <2>2. SameQuantities
    BY <1>3 DEF Progress, SameQuantities
  <2>. QED
    BY <1>1, <1>3, <2>1, <2>2, HandlerDeals DEF Progress
<1>4. ASSUME NEW i \in Ids, CreateAccepted(r, i) PROVE DealsOf(streams)'
  <2>1. /\ r \in Made /\ r \in pending /\ o \in Objects
        /\ op[r].kind = "create" /\ pending' = pending \ {r}
        /\ op' = [op EXCEPT ![r] = Woken(r, "Success")]
        /\ UNCHANGED <<reqId, told, market>>
        /\ \/ UNCHANGED <<active, order>>
           \/ /\ active' = [active EXCEPT ![i] = o]
              /\ order' = [order EXCEPT ![o].state = "Accepted", ![o].id = i]
    BY <1>2, <1>4 DEF CreateAccepted
  <2>2. KeepsRequests
    BY <2>1, OneKeepsRequests
  <2>3. \A j \in Ids : active'[j] = active[j] \/ active'[j] = o
    BY <2>1 DEF RegistryInv, TypeOK
  <2>4. SameQuantities
    <3> HIDE DEF o
    <3>. QED
      BY <2>1 DEF SameQuantities, RegistryInv, TypeOK, Order
  <2>5. \A s \in pending' : op'[s].kind = "create" =>
            /\ s \in pending /\ op[s].kind = "create"
            /\ op'[s].object = op[s].object
    BY <2>2 DEF KeepsRequests, RegistryInv, MadeRequests
  <2>. QED
    BY <1>1, <2>1, <2>3, <2>4, <2>5, SameDeals
<1>5. ASSUME NEW i \in Ids, RealCreateAccepted(r, i) PROVE DealsOf(streams)'
  BY <1>1, <1>2, <1>5, SettleDeals DEF RealCreateAccepted
<1>6. ASSUME NEW n \in Ids, ChangeDone(r, n) PROVE DealsOf(streams)'
  <2>1. CASE active[n] # None
    BY <1>1, <1>2, <1>6, <2>1, SettleDeals DEF ChangeDone
  <2>2. CASE active[n] = None
    <3>1. /\ r \in Made /\ o \in Objects
          /\ pending' = pending \ {r}
          /\ op' = [op EXCEPT ![r] = Woken(r, "Success")]
          /\ order' = [order EXCEPT ![o].state = "Accepted", ![o].id = n,
                                    ![o].qty = 0, ![o].rest = 0]
          /\ UNCHANGED <<active, reqId, told, market>>
      BY <1>2, <1>6, <2>2 DEF ChangeDone
    <3>2. KeepsRequests
      BY <3>1, OneKeepsRequests
    <3>3. \A s \in pending' : op'[s].kind = "create" =>
              /\ s \in pending /\ op[s].kind = "create"
              /\ op'[s].object = op[s].object
      BY <3>2 DEF KeepsRequests, RegistryInv, MadeRequests
    <3>4. \A p \in Objects :
            /\ order'[p].trades = order[p].trades
            /\ IF p = o THEN order'[p].qty = 0 /\ order'[p].rest = 0
                        ELSE order'[p] = order[p]
      <4> HIDE DEF o
      <4>. QED
        BY <3>1 DEF RegistryInv, TypeOK, Order
    <3> HIDE DEF o
    <3>5. ASSUME NEW p \in Objects
          PROVE  /\ order'[p].qty <= Lot /\ order'[p].rest <= order'[p].qty
                 /\ ByRest(order'[p]) <= ByRest(order[p])
                 /\ order'[p].trades = order[p].trades
      <4>1. /\ Lot \in Nat /\ order[p].qty \in Nat /\ order[p].rest \in Nat
        BY DealsTypes DEF RegistryInv
      <4>. QED
        BY <3>4, <4>1 DEF DealsOf, ByRest
    <3>6. MarketDeals' /\ \A i \in Ids : market[i].done <= market'[i].done
      BY <3>1, DealsTypes DEF DealsOf, MarketDeals, RegistryInv
    <3>. QED
      BY <1>1, <3>1, <3>3, <3>5, <3>6, KeepDeals
  <2>. QED
    BY <2>1, <2>2
<1>7. ASSUME CancelDone(r) PROVE DealsOf(streams)'
  <2>1. CASE active[op[r].id] # None
    <3>1. \A i \in Ids : active'[i] = active[i] \/ active'[i] = None
      BY <1>7, <2>1 DEF CancelDone, RegistryInv, TypeOK
    <3>. QED
      BY <1>1, <1>2, <1>7, <2>1, <3>1, SettleDeals DEF CancelDone
  <2>2. CASE active[op[r].id] = None
    BY <1>1, <1>2, <1>7, <2>2, SettleDeals DEF CancelDone
  <2>. QED
    BY <2>1, <2>2
<1>8. ASSUME Refused(r) PROVE DealsOf(streams)'
  BY <1>1, <1>2, <1>8, SettleDeals DEF Refused
<1>. QED
  BY <1>3, <1>4, <1>5, <1>6, <1>7, <1>8 DEF ResponseStep

-----------------------------------------------------------------------------
\* What a line writes into the object it finds, or files.
LEMMA UpdatedQuantities ==
    ASSUME NEW rec \in Order, NEW x \in U32
    PROVE  /\ UpdateRestQty(rec, x).qty = rec.qty
           /\ UpdateRestQty(rec, x).trades = rec.trades
           /\ UpdateRestQty(rec, x).rest = rec.rest
              \/ /\ UpdateRestQty(rec, x).rest = x
                 /\ x < rec.rest
           /\ UpdateTradesQty(rec, x).qty = rec.qty
           /\ UpdateTradesQty(rec, x).rest = rec.rest
           /\ UpdateTradesQty(rec, x).trades <= rec.trades + x
<1>1. (rec.trades + x) % Word <= rec.trades + x
  BY WordAssumption DEF Order, U32
<1>2. rec.trades <= rec.trades + x
  BY WordAssumption DEF Order, U32
<1>. QED
  BY <1>1, <1>2 DEF UpdateRestQty, UpdateTradesQty, Order

LEMMA OpenLineDeals ==
    ASSUME NEW streams,
           RegistryInv, RegistryInv', KeysInv, DealsOf(streams),
           NEW i \in Ids, NEW rest \in 0 .. Lot, OpenLine(i, rest)
    PROVE  DealsOf(streams)'
<1>1. rest \in U32 /\ rest \in Nat /\ Lot \in Nat
  BY OrdersAssumption, WordAssumption DEF U32
<1>2. /\ UNCHANGED <<op, pending, reqId, told, market>>
      /\ Lot - rest <= market[i].done
  BY DEF OpenLine
<1>3. KeepsRequests
  BY <1>2 DEF KeepsRequests
<1>4. CASE active[i] = None
  <2> DEFINE rec == UpdateRestQty(NewOrder(i, "Accepted"), rest)
  <2>1. PICK o \in Objects :
          /\ ~Allocated(o)
          /\ active' = [active EXCEPT ![i] = o]
          /\ order' = [order EXCEPT ![o] = rec]
    BY <1>4 DEF OpenLine
  <2>2. /\ rec.qty = Lot /\ rec.trades = 0
        /\ rec.rest <= Lot /\ ByRest(rec) <= market[i].done
    <3>1. NewOrder(i, "Accepted") \in Order
      BY NewOrderType DEF States
    <3>2. /\ rec.qty = Lot /\ rec.trades = 0
          /\ rec.rest \in {rest, Lot} /\ (rec.rest = Lot => rest <= Lot)
      BY <1>1, <3>1, UpdatedQuantities DEF NewOrder
    <3>3. market[i].done \in Nat
      BY DealsTypes DEF RegistryInv
    <3> HIDE DEF rec
    <3>. QED
      BY <1>1, <1>2, <3>2, <3>3 DEF ByRest
  <2>3. \A r \in pending' : op'[r].kind = "create" =>
            /\ r \in pending /\ op[r].kind = "create"
            /\ op'[r].object = op[r].object
    BY <1>2
  <2> HIDE DEF rec
  <2>. QED
    BY <1>2, <2>1, <2>2, <2>3, NewDeals
<1>5. CASE active[i] # None
  <2> DEFINE rec == UpdateRestQty(order[active[i]], rest)
  <2>1. /\ order' = [order EXCEPT ![active[i]] = rec]
        /\ active' = active
    BY <1>5 DEF OpenLine
  <2>2. active[i] \in Objects /\ order[active[i]] \in Order
    BY <1>5 DEF RegistryInv, TypeOK
  <2>3. /\ order[active[i]].qty \in Nat /\ order[active[i]].rest \in Nat
        /\ order[active[i]].trades \in Nat
        /\ market[i].done \in Nat /\ told[i] \in Nat
    BY <2>2, DealsTypes DEF RegistryInv
  <2>4. /\ rec.qty = order[active[i]].qty
        /\ rec.trades = order[active[i]].trades
        /\ \/ rec.rest = order[active[i]].rest
           \/ rec.rest = rest /\ rest < order[active[i]].rest
    BY <1>1, <2>2, UpdatedQuantities
  <2>5. /\ order[active[i]].qty <= Lot
        /\ order[active[i]].rest <= order[active[i]].qty
        /\ ByRest(order[active[i]]) <= market[i].done
        /\ ("trades" \in streams => order[active[i]].trades <= told[i])
        /\ told[i] <= market[i].done
    BY <1>5, <2>2 DEF DealsOf
  <2> HIDE DEF rec
  <2>6. /\ rec.qty <= Lot /\ rec.rest <= rec.qty
        /\ ByRest(rec) <= market[i].done
        /\ ("trades" \in streams => rec.trades <= told'[i])
        /\ told'[i] <= market[i].done
    BY <1>1, <1>2, <2>3, <2>4, <2>5 DEF ByRest
  <2>. QED
    BY <1>2, <1>3, <1>5, <2>1, <2>6, FiledDeals
<1>. QED
  BY <1>4, <1>5

LEMMA CloseLineDeals ==
    ASSUME NEW streams,
           RegistryInv, RegistryInv', KeysInv, DealsOf(streams), NEW i \in Ids,
           NEW final, NEW res \in [Requests -> {"Success", "Error"}],
           active[i] # None =>
                /\ final.qty <= Lot /\ final.rest <= final.qty
                /\ ByRest(final) <= market[i].done
                /\ ("trades" \in streams => final.trades <= told[i]),
           CloseLine(i, final, res)
    PROVE  DealsOf(streams)'
<1> DEFINE orders == IF active[i] = None THEN order
                     ELSE [order EXCEPT ![active[i]] = final]
           ended == OperationsOn(orders, i)
<1>1. ended \in SUBSET Made
  BY ExecutedOnMade
<1>2. /\ order' = orders
      /\ \A j \in Ids : active'[j] = active[j] \/ active'[j] = None
      /\ pending' = pending \ ended
      /\ WakeUp(ended, res)
      /\ UNCHANGED <<reqId, told, market>>
  BY DEF CloseLine, RegistryInv, TypeOK
<1>3. KeepsRequests
  <2> HIDE DEF ended
  <2>. QED
    BY <1>1, <1>2, WakeUpKeepsRequests
<1>4. CASE active[i] = None
  <2>1. SameQuantities
    BY <1>2, <1>4 DEF SameQuantities
  <2>. QED
    BY <1>2, <1>3, <2>1, HandlerDeals
<1>5. CASE active[i] # None
  <2>1. order' = [order EXCEPT ![active[i]] = final]
    BY <1>2, <1>5
  <2>2. /\ told'[i] <= market[i].done
        /\ ("trades" \in streams => final.trades <= told'[i])
    BY <1>2, <1>5 DEF DealsOf
  <2>. QED
    BY <1>2, <1>3, <1>5, <2>1, <2>2, FiledDeals
<1>. QED
  BY <1>4, <1>5

LEMMA LineDeals ==
    ASSUME NEW streams,
           RegistryInv, KeysInv, DealsOf(streams), NEW i \in Ids, LineStep(i)
    PROVE  DealsOf(streams)'
<1>1. RegistryInv'
  BY LineRegistry
<1>2. active[i] # None =>
        /\ active[i] \in Objects /\ order[active[i]] \in Order
        /\ order[active[i]].qty \in Nat /\ order[active[i]].rest \in Nat
        /\ order[active[i]].qty <= Lot
        /\ order[active[i]].rest <= order[active[i]].qty
        /\ ByRest(order[active[i]]) <= market[i].done
        /\ ("trades" \in streams => order[active[i]].trades <= told[i])
        /\ order[active[i]].trades \in Nat
  BY DealsTypes DEF RegistryInv, DealsOf
<1>3. /\ Lot \in Nat /\ market[i].done \in Nat /\ told[i] \in Nat
      /\ market[i].status = "filled" => market[i].done = Lot
  BY DealsTypes DEF RegistryInv, DealsOf, MarketDeals
<1>4. ASSUME NEW rest \in 0 .. Lot, OpenLine(i, rest) PROVE DealsOf(streams)'
  BY <1>1, <1>4, OpenLineDeals
<1>5. ASSUME ExecutedLine(i) PROVE DealsOf(streams)'
  <2> DEFINE rec == UpdateRestQty(order[active[i]], 0)
             final == [rec EXCEPT !.state = "Executed", !.id = i]
  <2>1. ASSUME active[i] # None
        PROVE  /\ final.qty <= Lot /\ final.rest <= final.qty
               /\ ByRest(final) <= market[i].done
               /\ ("trades" \in streams => final.trades <= told[i])
    <3>1. /\ rec \in Order
          /\ rec.qty = order[active[i]].qty
          /\ rec.trades = order[active[i]].trades
          /\ rec.rest = order[active[i]].rest \/ rec.rest = 0
      BY <1>2, <2>1, LotInWord, UpdateRestType, UpdatedQuantities
    <3>2. market[i].done = Lot
      BY <1>3, <1>5 DEF ExecutedLine
    <3> HIDE DEF rec
    <3>3. /\ final.qty = rec.qty /\ final.rest = rec.rest
          /\ final.trades = rec.trades
      BY <3>1 DEF Order
    <3> HIDE DEF final
    <3>. QED
      BY <1>2, <1>3, <2>1, <3>1, <3>2, <3>3 DEF ByRest
  <2>2. AllErrors \in [Requests -> {"Success", "Error"}]
    BY DEF AllErrors
  <2>. QED
    BY <1>1, <1>5, <2>1, <2>2, CloseLineDeals DEF ExecutedLine
<1>6. ASSUME DroppedLine(i) PROVE DealsOf(streams)'
  <2> DEFINE final == [order[active[i]] EXCEPT !.state = "Cancelled", !.id = i]
  <2>1. ASSUME active[i] # None
        PROVE  /\ final.qty <= Lot /\ final.rest <= final.qty
               /\ ByRest(final) <= market[i].done
               /\ ("trades" \in streams => final.trades <= told[i])
    <3>1. /\ final.qty = order[active[i]].qty
          /\ final.rest = order[active[i]].rest
          /\ final.trades = order[active[i]].trades
      BY <1>2, <2>1 DEF Order
    <3> HIDE DEF final
    <3>. QED
      BY <1>2, <2>1, <3>1 DEF ByRest
  <2>2. RemovalResults \in [Requests -> {"Success", "Error"}]
    BY DEF RemovalResults
  <2>. QED
    BY <1>1, <1>6, <2>1, <2>2, CloseLineDeals DEF DroppedLine
<1>7. ASSUME NEW x \in 1 .. Lot, TradeLine(i, x) PROVE DealsOf(streams)'
  <2> DEFINE ended == OperationsOn(order, i)
             traded == UpdateTradesQty(order[active[i]], x)
             closed == [traded EXCEPT !.state = "Executed", !.id = i]
  <2>1. ended \in SUBSET Made
    BY ExecutedOnMade
  <2>2. AllErrors \in [Requests -> {"Success", "Error"}]
    BY DEF AllErrors
  <2>3. /\ pending' = pending \ ended /\ WakeUp(ended, AllErrors)
        /\ UNCHANGED <<active, reqId, market>>
        /\ told[i] + x <= market[i].done
        /\ told' = [told EXCEPT ![i] = told[i] + x]
    BY <1>7 DEF TradeLine
  <2>4. /\ x \in Nat /\ x \in U32 /\ told'[i] = told[i] + x
        /\ told'[i] <= market[i].done
        /\ \A j \in Ids : j # i => told'[j] = told[j]
    BY <2>3, OrdersAssumption, WordAssumption DEF U32, RegistryInv, TypeOK
  <2>5. KeepsRequests
    <3> HIDE DEF ended
    <3>. QED
      BY <2>1, <2>2, <2>3, WakeUpKeepsRequests
  <2>6. CASE active[i] = None
    <3>1. order' = order
      BY <1>7, <2>6 DEF TradeLine
    <3>2. \A j \in Ids : active[j] # None /\ "trades" \in streams
            => order[active[j]].trades <= told'[j]
      BY <2>4, <2>6 DEF DealsOf
    <3>3. \A r \in pending' : op'[r].kind = "create" =>
            /\ r \in pending /\ op[r].kind = "create"
            /\ op'[r].object = op[r].object
      BY <2>5 DEF KeepsRequests, RegistryInv, MadeRequests
    <3>. QED
      BY <2>3, <2>4, <3>1, <3>2, <3>3 DEF DealsOf, MarketDeals
  <2>7. CASE active[i] # None
    <3>1. /\ traded \in Order
          /\ traded.qty = order[active[i]].qty
          /\ traded.rest = order[active[i]].rest
          /\ traded.trades <= order[active[i]].trades + x
      BY <1>2, <2>4, <2>7, UpdateTradesType, UpdatedQuantities
    <3>2. \/ order' = [order EXCEPT ![active[i]] = traded]
          \/ order' = [order EXCEPT ![active[i]] = closed]
      <4> HIDE DEF traded
      <4>. QED
        BY <1>7, <2>7 DEF TradeLine, traded
    <3> HIDE DEF traded, ended
    <3>3. /\ closed.qty = traded.qty /\ closed.rest = traded.rest
          /\ closed.trades = traded.trades
      BY <3>1 DEF Order
    <3>4. traded.trades \in Nat
      BY <3>1 DEF Order, U32
    <3>5. /\ traded.qty <= Lot /\ traded.rest <= traded.qty
          /\ ByRest(traded) <= market[i].done
          /\ ("trades" \in streams => traded.trades <= told'[i])
      BY <1>2, <1>3, <2>4, <2>7, <3>1, <3>4 DEF ByRest
    <3> HIDE DEF closed
    <3>6. ByRest(closed) <= market[i].done
      BY <3>3, <3>5 DEF ByRest
    <3>7. CASE order' = [order EXCEPT ![active[i]] = traded]
      BY <1>1, <2>3, <2>4, <2>5, <2>7, <3>5, <3>7, FiledDeals
    <3>8. CASE order' = [order EXCEPT ![active[i]] = closed]
      BY <1>1, <2>3, <2>4, <2>5, <2>7, <3>3, <3>5, <3>6, <3>8, FiledDeals
    <3>. QED
      BY <3>2, <3>7, <3>8
  <2>. QED
    BY <2>6, <2>7
<1>. QED
  BY <1>4, <1>5, <1>6, <1>7 DEF LineStep

LEMMA ExchangeDeals ==
    ASSUME NEW streams,
           RegistryInv, DealsOf(streams), ExchangeStep
    PROVE  DealsOf(streams)'
<1>1. RegistryInv'
  BY ExchangeRegistry
<1>2. External
  BY DEF ExchangeStep, Execute, Replace, ListElsewhere, Deal, Drop
<1>3. MarketDeals' /\ \A i \in Ids : market[i].done <= market'[i].done
  <2>1. /\ market \in [Ids -> MarketOrder] /\ Lot \in Nat
        /\ \A i \in Ids : market[i].done \in Nat
        /\ MarketDeals
    BY DealsTypes DEF RegistryInv, TypeOK, DealsOf
  <2>2. ASSUME NEW i \in Ids, NEW x \in 1 .. Lot, Deal(i, x)
        PROVE  MarketDeals' /\ \A j \in Ids : market[j].done <= market'[j].done
    <3>1. /\ \A j \in Ids : j # i => market'[j] = market[j]
          /\ market'[i].done = market[i].done + x
          /\ market'[i].status = IF market[i].done + x = Lot
                                 THEN "filled" ELSE "live"
      BY <2>1, <2>2 DEF Deal, MarketOrder
    <3>. QED
      BY <2>1, <3>1 DEF MarketDeals
  <2>3. ASSUME NEW r \in Requests, NEW n \in Ids, Replace(r, n)
        PROVE  MarketDeals' /\ \A j \in Ids : market[j].done <= market'[j].done
    <3>1. /\ market[n].done = 0 /\ market'[n].done = 0 /\ market'[n].status = "live"
          /\ \A j \in Ids : j # n =>
                /\ market'[j].done = market[j].done
                /\ market'[j].status \in {market[j].status, "dropped"}
      <4> DEFINE i == op[r].id
                 kept == [market EXCEPT ![i].status = "dropped"]
      <4>1. /\ i \in Ids /\ market[i].status = "live" /\ market[n].status = "none"
            /\ market' = [kept EXCEPT ![n] = Listed(r)]
        BY <2>1, <2>3 DEF Replace
      <4> HIDE DEF i
      <4>2. /\ kept \in [Ids -> MarketOrder]
            /\ \A j \in Ids : /\ kept[j].done = market[j].done
                              /\ kept[j].status \in {market[j].status, "dropped"}
        BY <2>1, <4>1 DEF MarketOrder
      <4> HIDE DEF kept
      <4>3. /\ market'[n] = Listed(r)
            /\ \A j \in Ids : j # n => market'[j] = kept[j]
        BY <4>1, <4>2
      <4>4. market[n].done = 0
        BY <2>1, <4>1 DEF MarketDeals
      <4>. QED
        BY <4>2, <4>3, <4>4 DEF Listed
    <3>. QED
      BY <2>1, <3>1 DEF MarketDeals
  <2>4. ASSUME NEW i \in Ids, NEW by, market[i].status = "none",
               market' = [market EXCEPT ![i] = Listed(by)]
        PROVE  MarketDeals' /\ \A j \in Ids : market[j].done <= market'[j].done
    <3>1. /\ market'[i] = Listed(by)
          /\ \A j \in Ids : j # i => market'[j] = market[j]
      BY <2>1, <2>4
    <3>2. market[i].done = 0
      BY <2>1, <2>4 DEF MarketDeals
    <3>3. market'[i].done = 0 /\ market'[i].status = "live"
      BY <3>1 DEF Listed
    <3>. QED
      BY <2>1, <3>1, <3>2, <3>3 DEF MarketDeals
  <2>5. ASSUME NEW i \in Ids, Drop(i)
        PROVE  MarketDeals' /\ \A j \in Ids : market[j].done <= market'[j].done
    BY <2>1, <2>5 DEF Drop, MarketDeals, MarketOrder
  <2>. QED
    BY <2>2, <2>3, <2>4, <2>5 DEF ExchangeStep, Execute, ListElsewhere
<1>4. pending' = pending /\ op' = op /\ order' = order /\ active' = active
      /\ told' = told
  BY <1>2 DEF External, registry
<1>5. \A o \in Objects :
        /\ order'[o].qty <= Lot /\ order'[o].rest <= order'[o].qty
        /\ ByRest(order'[o]) <= ByRest(order[o])
        /\ order'[o].trades = order[o].trades
  <2>1. \A o \in Objects : order[o].qty \in Nat /\ order[o].rest \in Nat
    BY DealsTypes DEF RegistryInv
  <2>. QED
    BY <1>4, <2>1 DEF DealsOf, ByRest
<1>. QED
  BY <1>1, <1>3, <1>4, <1>5, KeepDeals

LEMMA StutterDeals ==
    ASSUME NEW streams,
           DealsOf(streams), UNCHANGED vars
    PROVE  DealsOf(streams)'
BY DEF vars, registry, DealsOf, MarketDeals

LEMMA DealsStep ==
    ASSUME NEW streams, RegistryInv, KeysInv, DealsOf(streams), [Next]_vars
    PROVE  DealsOf(streams)'
BY UserDeals, SlotDeals, ResponseDeals, LineDeals, ExchangeDeals, StutterDeals
DEF Next

\* DealsInv is inductive relative to RegistryInv and KeysInv.
THEOREM DealsInvariant == Spec => []DealsInv
<1>1. Init => DealsInv
  BY InitDeals DEF DealsInv
<1>2. RegistryInv /\ KeysInv /\ DealsInv /\ [Next]_vars => DealsInv'
  BY DealsStep DEF DealsInv
<1>. QED
  BY <1>1, <1>2, RegistryInvariant, KeysInvariant, PTL DEF Spec

(***************************************************************************)
(* The user is never told of lots the exchange did not deal: with both     *)
(* reports of every deal, late and repeated status lines, changes, and     *)
(* orders filed by a line before the response to their create request.     *)
(***************************************************************************)
THEOREM NoDealInvented == Spec => []NoPhantomDeals
<1>1. RegistryInv /\ DealsInv => NoPhantomDeals
  <2> SUFFICES ASSUME RegistryInv, DealsInv, NEW i \in Ids, active[i] # None
               PROVE  ExecutedQty(order[active[i]]) <= market[i].done
    BY DEF NoPhantomDeals
  <2>1. /\ active[i] \in Objects /\ market[i].done \in Nat /\ told[i] \in Nat
        /\ order[active[i]].trades \in Nat
    BY DealsTypes DEF RegistryInv
  <2>2. /\ ByRest(order[active[i]]) <= market[i].done
        /\ order[active[i]].trades <= told[i] /\ told[i] <= market[i].done
    BY DEF DealsInv, DealsOf
  <2>. QED
    BY <2>1, <2>2 DEF ExecutedQty
<1>. QED
  BY <1>1, RegistryInvariant, DealsInvariant, PTL

-----------------------------------------------------------------------------
(***************************************************************************)
(* The registry over several sessions.  A step of OrderSessions is one of  *)
(* the registry, one that only lets callers go or the trades be reported   *)
(* again, the filing of a row at the login, or a restart.                  *)
(***************************************************************************)
Callings == [Threads -> [req: Requests \cup {NoRequest}, says: States]]

Quiet ==
    /\ UNCHANGED <<registry, reqId, sent, market>>
    /\ calling' \in Callings
    /\ \A t \in Threads : calling'[t].req \in {calling[t].req, NoRequest}
    /\ told' \in [Ids -> 0 .. Lot]
    /\ \A i \in Ids : told'[i] <= told[i]

LEMMA SessionSteps ==
    ASSUME SessionTypeOK, SessionNext
    PROVE  \/ [Next]_vars
           \/ Quiet
           \/ \E i \in Ids : ResumeOrder(i)
           \/ Restart
<1>0. Lot \in Nat /\ \A i \in Ids : told[i] \in Nat /\ told[i] <= told[i]
  BY OrdersAssumption, WordAssumption DEF SessionTypeOK, TypeOK
<1> USE DEF SessionTypeOK, TypeOK
<1>1. ASSUME Login PROVE Quiet
  <2>1. /\ told' \in [Ids -> 0 .. Lot]
        /\ \A i \in Ids : told'[i] <= told[i]
    BY <1>1, <1>0 DEF Login
  <2>. QED
    BY <1>1, <2>1 DEF Login, Quiet, Callings
<1>2. ASSUME Quit PROVE Quiet
  BY <1>0, <1>2 DEF Quit, Quiet, Callings, States
<1>3. ASSUME NEW t \in Threads, AnnounceOffline(t) PROVE Quiet
  BY <1>0, <1>3 DEF AnnounceOffline, Return, Quiet, Callings, States
<1>4. ASSUME Exchange PROVE Next
  <2>1. heard \subseteq Requests
    OBVIOUS
  <2>2. ExchangeStep
    BY <1>4, <2>1 DEF Exchange, ExchangeStep
  <2>. QED
    BY <2>2 DEF Next
<1>5. ASSUME NEW t \in Threads, Call(t) \/ AnnounceInSession(t) \/ Slot(t)
      PROVE  Next
  BY <1>5 DEF Call, AnnounceInSession, Slot, Next, UserStep, SlotStep
<1>6. ASSUME NEW r \in Requests, Response(r) PROVE Next
  BY <1>6 DEF Response, Next
<1>7. ASSUME NEW i \in Ids, StatusLine(i) \/ Trade(i)
      PROVE  Next \/ UNCHANGED vars
  BY <1>7 DEF StatusLine, RetiredLine, Trade, Next, LineStep
<1>8. ASSUME Connect \/ OtherBlocks PROVE UNCHANGED vars
  BY <1>8 DEF Connect, OtherBlocks
<1>. QED
  BY <1>1, <1>2, <1>3, <1>4, <1>5, <1>6, <1>7, <1>8 DEF SessionNext

-----------------------------------------------------------------------------
\* The registry's own steps, as proved above.
LEMMA RegistryStep ==
    ASSUME RegistryInv, [Next]_vars
    PROVE  RegistryInv'
BY UserRegistry, SlotRegistry, ResponseRegistry, LineRegistry, ExchangeRegistry,
   StutterRegistry DEF Next

LEMMA KeysStep ==
    ASSUME RegistryInv, KeysInv, [Next]_vars
    PROVE  KeysInv'
BY UserKeys, SlotKeys, ResponseKeys, LineKeys, ExchangeKeys, StutterKeys
DEF Next

LEMMA RemovalStep ==
    ASSUME "change" \notin Kinds, AllInv, [Next]_vars
    PROVE  RemovalInv'
BY UserRemoval, SlotRemoval, ResponseRemoval, LineRemoval, ExchangeRemoval,
   StutterRemoval DEF Next, AllInv

LEMMA QuietRegistry ==
    ASSUME RegistryInv, Quiet
    PROVE  RegistryInv'
<1>1. TypeOK'
  BY DEF Quiet, Callings, registry, RegistryInv, TypeOK
<1>. QED
  BY <1>1, KeepRegistry DEF Quiet, registry, RegistryInv, MadeRequests

LEMMA ResumeRegistry ==
    ASSUME RegistryInv, NEW i \in Ids, ResumeOrder(i)
    PROVE  RegistryInv'
<1>1. NewOrder(i, "Accepted") \in Order
  BY NewOrderType DEF States
<1>2. TypeOK'
  BY <1>1 DEF ResumeOrder, RegistryInv, TypeOK
<1>. QED
  BY <1>2, KeepRegistry DEF ResumeOrder, RegistryInv, MadeRequests

\* A new process begins as Init does, but for the exchange.
LEMMA RestartRegistry ==
    ASSUME TypeOK, Restart
    PROVE  RegistryInv' /\ KeysInv' /\ RemovalInv'
<1>1. FreeOrder \in Order
  BY LotInWord DEF FreeOrder, NewOrder, Order, States
<1>2. market' \in [Ids -> MarketOrder]
  BY DEF Restart, TypeOK, MarketOrder
<1>3. TypeOK'
  BY <1>1, <1>2, OrdersAssumption
  DEF Restart, TypeOK, Operation, Results, States
<1>4. Made' = {}
  BY DEF Restart, Made
<1>5. MadeRequests' /\ PendingIffUnresolved'
  BY <1>4 DEF Restart, MadeRequests, PendingIffUnresolved
<1>6. KeysInv'
  BY <1>4 DEF Restart, KeysInv, OneKeyPerObject
<1>7. RemovalInv'
  BY <1>4 DEF Restart, RemovalInv, PendingIsOnActive, OnePendingPerOrder,
              RemovalIsReal
<1>. QED
  BY <1>3, <1>5, <1>6, <1>7 DEF RegistryInv

LEMMA QuietKeys ==
    ASSUME KeysInv, Quiet
    PROVE  KeysInv'
BY DEF Quiet, registry, KeysInv, Made, Allocated, OneKeyPerObject

LEMMA ResumeKeys ==
    ASSUME RegistryInv, KeysInv, NEW i \in Ids, ResumeOrder(i)
    PROVE  KeysInv'
<1>1. PICK o \in Objects :
        /\ ~Allocated(o)
        /\ active' = [active EXCEPT ![i] = o]
        /\ order' = [order EXCEPT ![o] = NewOrder(i, "Accepted")]
  BY DEF ResumeOrder
<1>2. UNCHANGED <<op, pending, reqId>>
  BY DEF ResumeOrder
<1>3. \A p \in Objects : p = o \/ Allocated(p) => order'[p].state # "Unknown"
  BY <1>1 DEF Allocated, NewOrder, RegistryInv, TypeOK
<1>4. \A j \in Ids : active[j] # o
  BY <1>1, OrdersAssumption DEF KeysInv
<1>5. \A r \in pending' : op'[r].kind = "create" =>
            /\ r \in pending /\ op[r].object # o
  BY <1>1, <1>2 DEF KeysInv, RegistryInv, MadeRequests
<1>6. RegistryInv'
  BY ResumeRegistry
<1>. QED
  BY <1>1, <1>2, <1>3, <1>4, <1>5, <1>6, FileKeys

LEMMA QuietRemoval ==
    ASSUME RemovalInv, Quiet
    PROVE  RemovalInv'
BY DEF Quiet, registry, RemovalInv, Made, PendingIsOnActive,
       OnePendingPerOrder, RemovalIsReal

LEMMA ResumeRemoval ==
    ASSUME AllInv, NEW i \in Ids, ResumeOrder(i)
    PROVE  RemovalInv'
<1> DEFINE rec == NewOrder(i, "Accepted")
<1>1. PICK o \in Objects :
        /\ ~Allocated(o)
        /\ active' = [active EXCEPT ![i] = o]
        /\ order' = [order EXCEPT ![o] = rec]
  BY DEF ResumeOrder
<1>2. rec.id = i
  BY DEF NewOrder
<1> HIDE DEF rec
<1>3. UNCHANGED <<op, pending, reqId, market>>
  BY DEF ResumeOrder
<1>. QED
  BY <1>1, <1>2, <1>3, FileRemoval

-----------------------------------------------------------------------------
\* The variables that OrderSessions adds.
LEMMA SessionTypes ==
    ASSUME SessionTypeOK, RegistryInv, TypeOK', [SessionNext]_allVars
    PROVE  SessionTypeOK'
<1> DEFINE Loc == /\ phase \in {"off", "connecting", "online"}
                  /\ resuming \subseteq Ids
                  /\ rows \in [Ids -> Rows]
                  /\ saved \in [Ids -> Rows]
                  /\ connects \in 0 .. MaxConnects
<1>1. Loc
  BY DEF SessionTypeOK
<1>2. Loc' /\ heard' \subseteq sent'
  <2>1. ASSUME UNCHANGED allVars PROVE Loc' /\ heard' \subseteq sent'
    BY <1>1, <2>1 DEF allVars, vars, sessionVars, SessionTypeOK
  <2>2. ASSUME Connect PROVE Loc' /\ heard' \subseteq sent'
    BY <1>1, <2>2, MaxConnectsAssumption DEF Connect, vars, SessionTypeOK
  <2>3. ASSUME Login PROVE Loc' /\ heard' \subseteq sent'
    BY <1>1, <2>3 DEF Login, SessionTypeOK
  <2>4. ASSUME Quit PROVE Loc' /\ heard' \subseteq sent'
    BY <1>1, <2>4 DEF Quit, SessionTypeOK
  <2>5. ASSUME Restart PROVE Loc' /\ heard' \subseteq sent'
    BY <1>1, <2>5 DEF Restart, SessionTypeOK
  <2>6. ASSUME NEW i \in Ids, ResumeOrder(i) PROVE Loc' /\ heard' \subseteq sent'
    BY <1>1, <2>6 DEF ResumeOrder, SessionTypeOK
  <2>7. ASSUME NEW t \in Threads, Slot(t) PROVE Loc' /\ heard' \subseteq sent'
    BY <1>1, <2>7 DEF Slot, SlotSends, SlotFails, SessionTypeOK
  <2>8. ASSUME UNCHANGED sessionVars, sent' = sent
        PROVE  Loc' /\ heard' \subseteq sent'
    BY <1>1, <2>8 DEF sessionVars, SessionTypeOK
  <2>9. ASSUME NEW t \in Threads,
               Call(t) \/ AnnounceInSession(t) \/ AnnounceOffline(t)
        PROVE  UNCHANGED sessionVars /\ sent' = sent
    BY <2>9 DEF Call, TradePaper, ChangeOrder, CancelOrder, Begin, Announce,
                AnnounceInSession, AnnounceOffline
  <2>10. ASSUME NEW r \in Requests, Response(r)
         PROVE  UNCHANGED sessionVars /\ sent' = sent
    BY <2>10 DEF Response, ResponseStep, Progress, CreateAccepted,
                 RealCreateAccepted, ChangeDone, CancelDone, Refused
  <2>11. ASSUME Exchange PROVE UNCHANGED sessionVars /\ sent' = sent
    BY <2>11 DEF Exchange, Execute, Replace, ListElsewhere, Drop, Deal, External
  <2>12. ASSUME NEW i \in Ids, StatusLine(i)
         PROVE  Loc' /\ heard' \subseteq sent'
    <3>1. UNCHANGED <<phase, resuming, heard, connects, sent>>
      BY <2>12 DEF StatusLine, OpenLine, RetiredLine, ExecutedLine, DroppedLine,
                   CloseLine, vars
    <3>2. PICK row \in Rows : Store(i, row)
      BY <2>12 DEF StatusLine, Rows
    <3>. QED
      BY <1>1, <3>1, <3>2 DEF Store, SessionTypeOK
  <2>13. ASSUME NEW i \in Ids, Trade(i) PROVE Loc' /\ heard' \subseteq sent'
    BY <1>1, <2>13 DEF Trade, TradeLine, StoreOther, SessionTypeOK
  <2>14. ASSUME OtherBlocks PROVE Loc' /\ heard' \subseteq sent'
    BY <1>1, <2>14 DEF OtherBlocks, StoreOther, vars, SessionTypeOK
  <2>. QED
    BY <2>1, <2>2, <2>3, <2>4, <2>5, <2>6, <2>7, <2>8, <2>9, <2>10, <2>11,
       <2>12, <2>13, <2>14 DEF SessionNext
<1>. QED
  BY <1>2 DEF SessionTypeOK

LEMMA InitSession == SessionInit => SessionTypeOK /\ RegistryInv /\ KeysInv
<1> SUFFICES ASSUME SessionInit PROVE SessionTypeOK /\ RegistryInv /\ KeysInv
  OBVIOUS
<1>1. RegistryInv /\ KeysInv
  BY InitRegistry, InitKeys DEF SessionInit
<1>2. heard \subseteq sent
  BY DEF SessionInit
<1>. QED
  BY <1>1, <1>2, MaxConnectsAssumption
  DEF SessionInit, SessionTypeOK, RegistryInv, Rows

\* The invariants of the registry hold over any number of sessions.
SessionInv == SessionTypeOK /\ RegistryInv /\ KeysInv

LEMMA SessionStep ==
    ASSUME SessionInv, [SessionNext]_allVars
    PROVE  SessionInv'
<1>1. \/ [Next]_vars
      \/ Quiet
      \/ \E i \in Ids : ResumeOrder(i)
      \/ Restart
  BY SessionSteps DEF SessionInv, allVars
<1>2. RegistryInv' /\ KeysInv'
  <2>1. CASE [Next]_vars
    BY <2>1, RegistryStep, KeysStep DEF SessionInv
  <2>2. CASE Quiet
    BY <2>2, QuietRegistry, QuietKeys DEF SessionInv
  <2>3. ASSUME NEW i \in Ids, ResumeOrder(i) PROVE RegistryInv' /\ KeysInv'
    BY <2>3, ResumeRegistry, ResumeKeys DEF SessionInv
  <2>4. CASE Restart
    BY <2>4, RestartRegistry DEF SessionInv, SessionTypeOK
  <2>. QED
    BY <1>1, <2>1, <2>2, <2>3, <2>4
<1>3. SessionTypeOK'
  BY <1>2, SessionTypes DEF SessionInv, RegistryInv
<1>. QED
  BY <1>2, <1>3 DEF SessionInv

\* RegistryInv and KeysInv are inductive over sessions and restarts.
THEOREM SessionInvariant == SessionSpec => []SessionInv
<1>1. SessionInit => SessionInv
  BY InitSession DEF SessionInv
<1>2. SessionInv /\ [SessionNext]_allVars => SessionInv'
  BY SessionStep
<1>. QED
  BY <1>1, <1>2, PTL DEF SessionSpec

(***************************************************************************)
(* Over sessions and restarts, too, every variable keeps its type, and the *)
(* server heard only requests that were sent.                              *)
(***************************************************************************)
THEOREM SessionsTypeCorrect == SessionSpec => []SessionTypeOK
BY SessionInvariant, PTL DEF SessionInv

(***************************************************************************)
(* A lost slot, a broken connection and a login leave no operation without *)
(* a result outside m_ordersOperations, and file no object twice: the      *)
(* login replaces whatever is filed under the id of a row.                 *)
(***************************************************************************)
THEOREM SessionsKeepRegistry ==
    SessionSpec => [](PendingIffUnresolved /\ OneKeyPerObject)
<1>1. SessionInv => PendingIffUnresolved /\ OneKeyPerObject
  BY DEF SessionInv, RegistryInv, KeysInv
<1>. QED
  BY <1>1, SessionInvariant, PTL

LEMMA SessionRemovalStep ==
    ASSUME "change" \notin Kinds, SessionInv, RemovalInv,
           [SessionNext]_allVars
    PROVE  RemovalInv'
<1>1. AllInv
  BY DEF SessionInv, AllInv
<1>2. \/ [Next]_vars
      \/ Quiet
      \/ \E i \in Ids : ResumeOrder(i)
      \/ Restart
  BY SessionSteps DEF SessionInv, allVars
<1>3. CASE [Next]_vars
  BY <1>1, <1>3, RemovalStep
<1>4. CASE Quiet
  BY <1>4, QuietRemoval
<1>5. ASSUME NEW i \in Ids, ResumeOrder(i) PROVE RemovalInv'
  BY <1>1, <1>5, ResumeRemoval
<1>6. CASE Restart
  BY <1>6, RestartRegistry DEF SessionInv, SessionTypeOK
<1>. QED
  BY <1>2, <1>3, <1>4, <1>5, <1>6

\* RemovalInv is inductive relative to SessionInv, under the same condition as
\* in one session.
THEOREM SessionRemovalInvariant ==
    ASSUME "change" \notin Kinds
    PROVE  SessionSpec => []RemovalInv
<1>1. SessionInit => RemovalInv
  BY InitRemoval DEF SessionInit
<1>2. SessionInv /\ RemovalInv /\ [SessionNext]_allVars => RemovalInv'
  BY SessionRemovalStep
<1>. QED
  BY <1>1, <1>2, SessionInvariant, PTL DEF SessionSpec

(***************************************************************************)
(* The guard of cancelOrder (cpp:1784) holds over sessions: a removal that *)
(* a session left pending is still on an active order, although its slot   *)
(* never ran, the connection broke, or a login put another object in the   *)
(* place of the one it is about.                                           *)
(***************************************************************************)
THEOREM SessionsPendingOnActive ==
    ASSUME "change" \notin Kinds
    PROVE  SessionSpec => []PendingIsOnActive
<1>1. RemovalInv => PendingIsOnActive
  BY DEF RemovalInv
<1>. QED
  BY <1>1, SessionRemovalInvariant, PTL

(***************************************************************************)
(* Over sessions, too, one removal of an order gets through: the operation *)
(* a session left pending stays in the way of a second one.                *)
(***************************************************************************)
THEOREM SessionsOnePending ==
    ASSUME "change" \notin Kinds
    PROVE  SessionSpec => []OnePendingPerOrder
<1>1. RemovalInv => OnePendingPerOrder
  BY DEF RemovalInv
<1>. QED
  BY <1>1, SessionRemovalInvariant, PTL

(***************************************************************************)
(* A removal that is reported as successful dropped its order, whichever   *)
(* session the call, the closing line and the answer belong to.            *)
(***************************************************************************)
THEOREM SessionsRemovalsAreReal ==
    ASSUME "change" \notin Kinds
    PROVE  SessionSpec => []RemovalIsReal
<1>1. RemovalInv => RemovalIsReal
  BY DEF RemovalInv
<1>. QED
  BY <1>1, SessionRemovalInvariant, PTL

-----------------------------------------------------------------------------
(***************************************************************************)
(* Deals over sessions, as far as status lines tell of them: trades that   *)
(* are told again are counted twice by an object that outlives a session.  *)
(***************************************************************************)
LEMMA QuietDeals ==
    ASSUME RegistryInv, DealsOf({"rest"}), Quiet
    PROVE  DealsOf({"rest"})'
<1>1. \A i \in Ids : /\ told[i] \in Nat /\ told'[i] \in Nat
                     /\ market[i].done \in Nat /\ told'[i] <= told[i]
  BY DealsTypes DEF Quiet, RegistryInv
<1>2. \A i \in Ids : told'[i] <= market[i].done
  BY <1>1 DEF DealsOf
<1>. QED
  BY <1>2 DEF DealsOf, MarketDeals, Quiet, registry

\* The login gives a new object the whole quantity as its rest.
LEMMA ResumeDeals ==
    ASSUME RegistryInv, KeysInv, DealsOf({"rest"}),
           NEW i \in Ids, ResumeOrder(i)
    PROVE  DealsOf({"rest"})'
<1> DEFINE rec == NewOrder(i, "Accepted")
<1>1. PICK o \in Objects :
        /\ ~Allocated(o)
        /\ active' = [active EXCEPT ![i] = o]
        /\ order' = [order EXCEPT ![o] = rec]
  BY DEF ResumeOrder
<1>2. UNCHANGED <<op, pending, told, market>>
  BY DEF ResumeOrder
<1>3. Lot \in Nat /\ market[i].done \in Nat
  BY DealsTypes DEF RegistryInv
<1>4. /\ rec.qty = Lot /\ rec.rest <= Lot /\ rec.trades = 0
      /\ ByRest(rec) <= market[i].done
  BY <1>3 DEF NewOrder, ByRest
<1> HIDE DEF rec
<1>5. \A r \in pending' : op'[r].kind = "create" =>
            /\ r \in pending /\ op[r].kind = "create"
            /\ op'[r].object = op[r].object
  BY <1>2
<1>6. RegistryInv'
  BY ResumeRegistry
<1>. QED
  BY <1>1, <1>2, <1>4, <1>5, <1>6, NewDeals

LEMMA RestartDeals ==
    ASSUME TypeOK, DealsOf({"rest"}), Restart
    PROVE  DealsOf({"rest"})'
<1>1. \A i \in Ids : /\ market'[i].done = market[i].done
                     /\ market'[i].status = market[i].status
  BY DEF Restart, TypeOK, MarketOrder
<1>2. /\ \A i \in Ids : active'[i] = None /\ told'[i] = told[i]
      /\ pending' = {}
  BY DEF Restart
<1>3. \A o \in Objects : order'[o].qty = 0 /\ order'[o].rest = 0
  BY DEF Restart, FreeOrder, NewOrder
<1>4. Lot \in Nat
  BY OrdersAssumption, WordAssumption
<1>. QED
  BY <1>1, <1>2, <1>3, <1>4 DEF DealsOf, MarketDeals

\* What holds of deals in one session, without the trades, is inductive over
\* sessions and restarts.
THEOREM SessionDealsInvariant == SessionSpec => []DealsOf({"rest"})
<1>1. SessionInit => DealsOf({"rest"})
  BY InitDeals DEF SessionInit
<1>2. ASSUME SessionInv, DealsOf({"rest"}), [SessionNext]_allVars
      PROVE  DealsOf({"rest"})'
  <2>1. \/ [Next]_vars
        \/ Quiet
        \/ \E i \in Ids : ResumeOrder(i)
        \/ Restart
    BY <1>2, SessionSteps DEF SessionInv, allVars
  <2>2. CASE [Next]_vars
    BY <1>2, <2>2, DealsStep DEF SessionInv
  <2>3. CASE Quiet
    BY <1>2, <2>3, QuietDeals DEF SessionInv
  <2>4. ASSUME NEW i \in Ids, ResumeOrder(i) PROVE DealsOf({"rest"})'
    BY <1>2, <2>4, ResumeDeals DEF SessionInv
  <2>5. CASE Restart
    BY <1>2, <2>5, RestartDeals DEF SessionInv, SessionTypeOK
  <2>. QED
    BY <2>1, <2>2, <2>3, <2>4, <2>5
<1>. QED
  BY <1>1, <1>2, SessionInvariant, PTL DEF SessionSpec

(***************************************************************************)
(* Status lines never make an object claim more lots than the exchange     *)
(* dealt under its id, whichever session or process filed the object: a    *)
(* resumed order begins with its whole quantity.                           *)
(***************************************************************************)
THEOREM SessionsRestIsReal == SessionSpec => []NoPhantomRest
<1>1. DealsOf({"rest"}) => NoPhantomRest
  BY DEF DealsOf, NoPhantomRest
<1>. QED
  BY <1>1, SessionDealsInvariant, PTL

-----------------------------------------------------------------------------
(***************************************************************************)
(* The database and the hash.  A row that is open is that of an active or  *)
(* retired order, or the login is still to file it: every way out of the   *)
(* active hash enters the inactive one.                                    *)
(***************************************************************************)
RowsInv ==
    phase = "online" =>
        \A i \in Ids : rows[i] = "open" =>
            active[i] # None \/ i \in inactive \/ i \in resuming

\* What the registry's own steps do to a key of the hashes.
KeysStayOrRetire ==
    \A i \in Ids : active[i] # None \/ i \in inactive
                    => active'[i] # None \/ i \in inactive'

LEMMA NextRetires ==
    ASSUME RegistryInv, Next
    PROVE  KeysStayOrRetire
<1> USE DEF RegistryInv, TypeOK, KeysStayOrRetire
<1>1. ASSUME NEW t \in Threads, UserStep(t) PROVE KeysStayOrRetire
  BY <1>1 DEF UserStep, TradePaper, ChangeOrder, CancelOrder, Begin, Announce,
              registry
<1>2. ASSUME NEW t \in Threads, SlotStep(t) PROVE KeysStayOrRetire
  BY <1>2 DEF SlotStep, SlotSends, SlotFails
<1>3. ASSUME NEW r \in Requests, ResponseStep(r) PROVE KeysStayOrRetire
  <2>1. ASSUME NEW i \in Ids, CreateAccepted(r, i) PROVE KeysStayOrRetire
    <3>1. op[r].object # None
      BY <2>1, AnswerableMade, OrdersAssumption DEF CreateAccepted
    <3>2. \/ active' = active
          \/ active' = [active EXCEPT ![i] = op[r].object]
      BY <2>1 DEF CreateAccepted
    <3>. QED
      BY <2>1, <3>1, <3>2 DEF CreateAccepted
  <2>2. ASSUME CancelDone(r) PROVE KeysStayOrRetire
    <3>1. \/ UNCHANGED <<active, inactive>>
          \/ /\ active' = [active EXCEPT ![op[r].id] = None]
             /\ inactive' = inactive \cup {op[r].id}
      BY <2>2 DEF CancelDone
    <3>. QED
      BY <3>1
  <2>3. ASSUME Progress(r) \/ Refused(r)
               \/ \E i \in Ids : RealCreateAccepted(r, i) \/ ChangeDone(r, i)
        PROVE  UNCHANGED <<active, inactive>>
    BY <2>3 DEF Progress, Refused, RealCreateAccepted, ChangeDone
  <2>. QED
    BY <1>3, <2>1, <2>2, <2>3 DEF ResponseStep
<1>4. ASSUME NEW i \in Ids, LineStep(i) PROVE KeysStayOrRetire
  <2>1. ASSUME NEW rest \in 0 .. Lot, OpenLine(i, rest) PROVE KeysStayOrRetire
    <3>1. \/ UNCHANGED <<active, inactive>>
          \/ \E o \in Objects : /\ active' = [active EXCEPT ![i] = o]
                                /\ inactive' = inactive
      BY <2>1 DEF OpenLine
    <3>. QED
      BY <3>1, OrdersAssumption
  <2>2. ASSUME NEW final, NEW res, CloseLine(i, final, res)
        PROVE  KeysStayOrRetire
    BY <2>2 DEF CloseLine
  <2>3. ASSUME NEW x \in 1 .. Lot, TradeLine(i, x) PROVE KeysStayOrRetire
    <3>1. active' = active /\ inactive \subseteq inactive'
      BY <2>3 DEF TradeLine
    <3>. QED
      BY <3>1
  <2>. QED
    BY <1>4, <2>1, <2>2, <2>3 DEF LineStep, ExecutedLine, DroppedLine
<1>5. ASSUME ExchangeStep PROVE KeysStayOrRetire
  BY <1>5 DEF ExchangeStep, Execute, Replace, ListElsewhere, Deal, Drop,
              External, registry
<1>. QED
  BY <1>1, <1>2, <1>3, <1>4, <1>5 DEF Next

\* A status O, X or N leaves the order active or retired.
LEMMA OpenLineActive ==
    ASSUME TypeOK, NEW i \in Ids, NEW rest \in 0 .. Lot, OpenLine(i, rest)
    PROVE  active'[i] # None
BY OrdersAssumption DEF OpenLine, TypeOK

LEMMA RowsStep ==
    ASSUME SessionInv, RowsInv, [SessionNext]_allVars
    PROVE  RowsInv'
<1>1. RegistryInv /\ TypeOK /\ SessionTypeOK
  BY DEF SessionInv, RegistryInv
<1>2. ASSUME phase' = phase, resuming' = resuming, [Next]_vars,
             NEW i \in Ids,
             \A j \in Ids : j # i => rows'[j] = rows[j],
             \/ rows'[i] \in {rows[i], "closed"}
             \/ active'[i] # None \/ i \in inactive'
      PROVE  RowsInv'
  <2>1. KeysStayOrRetire
    BY <1>1, <1>2, NextRetires DEF KeysStayOrRetire, vars, registry
  <2>. QED
    BY <1>2, <2>1 DEF RowsInv, KeysStayOrRetire
<1>3. ASSUME UNCHANGED <<phase, resuming, rows>>, [Next]_vars
      PROVE  RowsInv'
  <2>1. KeysStayOrRetire
    BY <1>1, <1>3, NextRetires DEF KeysStayOrRetire, vars, registry
  <2>. QED
    BY <1>3, <2>1 DEF RowsInv, KeysStayOrRetire
<1>4. ASSUME phase' # "online" PROVE RowsInv'
  BY <1>4 DEF RowsInv
<1>5. ASSUME Login PROVE RowsInv'
  BY <1>5 DEF Login, RowsInv
<1>6. ASSUME NEW i \in Ids, ResumeOrder(i) PROVE RowsInv'
  <2>1. PICK o \in Objects : active' = [active EXCEPT ![i] = o]
    BY <1>6 DEF ResumeOrder
  <2>2. /\ UNCHANGED <<phase, rows, inactive>>
        /\ resuming' = resuming \ {i}
    BY <1>6 DEF ResumeOrder
  <2>. QED
    BY <1>1, <2>1, <2>2, OrdersAssumption DEF RowsInv, TypeOK
<1>7. ASSUME NEW i \in Ids, StatusLine(i) PROVE RowsInv'
  <2>1. UNCHANGED <<phase, resuming>>
    BY <1>7 DEF StatusLine
  <2>2. CASE (\E rest \in 0 .. Lot : OpenLine(i, rest)) /\ Store(i, "open")
    <3>1. active'[i] # None
      BY <1>1, <2>2, OpenLineActive
    <3>2. \A j \in Ids : j # i => rows'[j] = rows[j]
      BY <1>1, <2>2 DEF Store, SessionTypeOK
    <3>3. Next
      BY <2>2 DEF Next, LineStep
    <3>. QED
      BY <1>2, <2>1, <3>1, <3>2, <3>3
  <2>3. CASE RetiredLine(i) /\ Store(i, "open")
    <3>1. i \in inactive' /\ [Next]_vars
      BY <2>3 DEF RetiredLine, vars, registry
    <3>2. \A j \in Ids : j # i => rows'[j] = rows[j]
      BY <1>1, <2>3 DEF Store, SessionTypeOK
    <3>. QED
      BY <1>2, <2>1, <3>1, <3>2
  <2>4. CASE (ExecutedLine(i) \/ DroppedLine(i)) /\ Store(i, "closed")
    <3>1. Next
      BY <2>4 DEF Next, LineStep
    <3>2. /\ \A j \in Ids : j # i => rows'[j] = rows[j]
          /\ rows'[i] \in {rows[i], "closed"}
      BY <1>1, <2>4 DEF Store, SessionTypeOK
    <3>. QED
      BY <1>2, <2>1, <3>1, <3>2
  <2>. QED
    BY <1>7, <2>2, <2>3, <2>4 DEF StatusLine
<1>8. ASSUME NEW i \in Ids, Trade(i) PROVE RowsInv'
  BY <1>3, <1>8 DEF Trade, StoreOther, Next, LineStep
<1>9. ASSUME OtherBlocks \/ UNCHANGED allVars PROVE RowsInv'
  BY <1>3, <1>9 DEF OtherBlocks, StoreOther, allVars, sessionVars
<1>10. ASSUME Connect \/ Quit \/ Restart PROVE phase' # "online"
  BY <1>10 DEF Connect, Quit, Restart
<1>11. ASSUME NEW t \in Threads, Call(t) \/ AnnounceInSession(t)
       PROVE  RowsInv'
  BY <1>3, <1>11 DEF Call, AnnounceInSession, sessionVars, Next, UserStep
<1>12. ASSUME NEW t \in Threads, AnnounceOffline(t) PROVE RowsInv'
  BY <1>4, <1>12 DEF AnnounceOffline, sessionVars
<1>13. ASSUME NEW t \in Threads, Slot(t) PROVE RowsInv'
  BY <1>3, <1>13 DEF Slot, Next, SlotStep
<1>14. ASSUME NEW r \in Requests, Response(r) PROVE RowsInv'
  BY <1>3, <1>14 DEF Response, sessionVars, Next
<1>15. ASSUME Exchange PROVE RowsInv'
  <2>1. heard \subseteq Requests
    BY <1>1 DEF SessionTypeOK, TypeOK
  <2>2. ExchangeStep
    BY <1>15, <2>1 DEF Exchange, ExchangeStep
  <2>. QED
    BY <1>3, <1>15, <2>2 DEF Exchange, sessionVars, Next
<1>. QED
  BY <1>4, <1>5, <1>6, <1>7, <1>8, <1>9, <1>10, <1>11, <1>12, <1>13, <1>14,
     <1>15 DEF SessionNext

(***************************************************************************)
(* In a session, an order that the database would resume is active or      *)
(* retired: although lines are stored in part, an open transaction is lost *)
(* with the connection, and a status line of a retired order opens its row *)
(* again.                                                                  *)
(***************************************************************************)
THEOREM RowsStayActive == SessionSpec => []OpenRowsAreActive
<1>1. SessionInit => RowsInv
  BY DEF SessionInit, RowsInv
<1>2. SessionInv /\ RowsInv /\ [SessionNext]_allVars => RowsInv'
  BY RowsStep
<1>3. RowsInv => OpenRowsAreActive
  BY DEF RowsInv, OpenRowsAreActive, Online
<1>. QED
  BY <1>1, <1>2, <1>3, SessionInvariant, PTL DEF SessionSpec
=============================================================================
