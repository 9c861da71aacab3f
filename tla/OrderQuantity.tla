---------------------------- MODULE OrderQuantity ----------------------------
(***************************************************************************)
(* One order and the exchange that fills it.  The exchange makes deals;    *)
(* every deal is reported by one trade line (MY_TRADES) and may be         *)
(* reported by any number of status lines (MY_ORDERS), which carry the     *)
(* rest known when they were written and may therefore be old.  The object *)
(* must not count a deal twice although it hears of it twice, and it hears *)
(* of it only as long as it is in m_activeOrders.                          *)
(*                                                                         *)
(* The object is the first one filed under its id.  (Module Orders has the *)
(* other one: the response to a create may file it after a closing line.)  *)
(***************************************************************************)
EXTENDS OrderArithmetic

CONSTANT MaxQty   \* bound: the largest order, below Word

ASSUME MaxQtyAssumption == MaxQty \in 1 .. Word - 1

VARIABLES
    o,         \* the quantities of the object: m_qty, m_restQty, m_tradesQty
    hashes,    \* which of m_activeOrders and m_inactiveOrders hold the object
    done,      \* external: lots the exchange has dealt
    dropped,   \* external: the exchange dropped the order
    told,      \* external: lots of done already reported by trade lines
    missed,    \* history: lots of told that reached no object
    reported,  \* sum of the arguments of onTrade so far
    changed    \* setOrderState with a new quantity has been called

exchange == <<done, dropped>>
vars == <<o, hashes, exchange, told, missed, reported, changed>>

InActive == hashes \in {"active", "both"}
InInactive == hashes \in {"inactive", "both"}

Init ==
    /\ \E q \in 1 .. MaxQty : o = NewQuantities(q)
    /\ hashes = "none"
    /\ done = 0
    /\ dropped = FALSE
    /\ told = 0
    /\ missed = 0
    /\ reported = 0
    /\ changed = FALSE

\* External: the exchange makes a deal of x lots for this order.
Deal(x) ==
    /\ ~changed /\ ~dropped
    /\ done + x <= o.qty
    /\ done' = done + x
    /\ UNCHANGED <<o, hashes, dropped, told, missed, reported, changed>>

\* External: the exchange drops what is left of the order.
Drop ==
    /\ ~changed /\ ~dropped
    /\ done < o.qty
    /\ dropped' = TRUE
    /\ UNCHANGED <<o, hashes, done, told, missed, reported, changed>>

\* The response to the create files the object, or a status line without a
\* rest.
File ==
    /\ hashes = "none"
    /\ hashes' = "active"
    /\ UNCHANGED <<o, exchange, told, missed, reported, changed>>

\* A status line "O" whose rest was written at some moment up to now.  Once
\* the id is in m_inactiveOrders the line is ignored.
RestLine(r) ==
    /\ ~changed => r <= o.qty /\ o.qty - r <= done
    /\ ~InInactive
    /\ hashes' = "active"
    /\ o' = UpdateRestQty(o, r)
    /\ reported' = reported + RestReport(o, r)
    /\ UNCHANGED <<exchange, told, missed, changed>>

\* The status line "M": the order is filled, which is a rest of 0.
FilledLine ==
    /\ ~changed => done = o.qty
    /\ InActive
    /\ hashes' = "inactive"
    /\ o' = UpdateRestQty(o, 0)
    /\ reported' = reported + RestReport(o, 0)
    /\ UNCHANGED <<exchange, told, missed, changed>>

\* The status line "W", or the response to a removal: the rest the object
\* knows stays as it is.
DroppedLine ==
    /\ ~changed => dropped
    /\ InActive
    /\ hashes' = "inactive"
    /\ UNCHANGED <<o, exchange, told, missed, reported, changed>>

\* A trade line: every deal is reported once, in lines of any size.  The line
\* is ignored unless the order is in m_activeOrders, where one that is executed
\* stays.
TradeLine(x) ==
    /\ told + x <= done
    /\ told' = told + x
    /\ \/ /\ InActive
          /\ o' = UpdateTradesQty(o, x)
          /\ hashes' = IF IsExecutedQty(o') THEN "both" ELSE hashes
          /\ reported' = reported + TradesReport(o, x)
          /\ UNCHANGED missed
       \/ /\ ~InActive
          /\ missed' = missed + x
          /\ UNCHANGED <<o, hashes, reported>>
    /\ UNCHANGED <<exchange, changed>>

\* Mutant: the rest of the old quantity is kept.
ChangeKeepingRest(q) ==
    /\ ~changed
    /\ InActive
    /\ o' = [o EXCEPT !.qty = q]
    /\ changed' = TRUE
    /\ UNCHANGED <<hashes, exchange, told, missed, reported>>

\* setOrderState with a new quantity, called when the order was changed.  The
\* trades count is kept.  One change is enough: nothing reads how many.
Change(q) ==
    /\ ~changed
    /\ InActive
    /\ o' = [o EXCEPT !.qty = q, !.rest = q]
    /\ changed' = TRUE
    /\ UNCHANGED <<hashes, exchange, told, missed, reported>>

Next ==
    \/ \E x \in 1 .. MaxQty : Deal(x)
    \/ Drop
    \/ File
    \/ \E r \in 0 .. MaxQty : RestLine(r)
    \/ FilledLine
    \/ DroppedLine
    \/ \E x \in 1 .. MaxQty : TradeLine(x)
    \/ \E q \in 0 .. MaxQty : Change(q)

Spec == Init /\ [][Next]_vars

-----------------------------------------------------------------------------
TypeOK ==
    /\ o \in [qty: 0 .. MaxQty, rest: 0 .. MaxQty, trades: 0 .. MaxQty]
    /\ hashes \in {"none", "active", "both", "inactive"}
    /\ done \in 0 .. MaxQty
    /\ dropped \in BOOLEAN
    /\ told \in 0 .. MaxQty
    /\ missed \in 0 .. MaxQty
    /\ reported \in Nat
    /\ changed \in BOOLEAN

\* The assertion of _getExecutedQty: m_qty - m_restQty never wraps around,
\* whatever lines and changes arrive in whatever order.
RestBounded == o.rest <= o.qty

\* Although each deal reaches the object through two unsynchronised streams,
\* it never believes more lots executed than the exchange has dealt.
NeverOvercounts == ~changed => ExecutedQty(o) <= done

\* The trade lines that find the object in m_activeOrders are all known to it,
\* whatever the status lines between them were; and an order that was retired
\* as executed knows every deal, those too whose trade lines came before it was
\* filed or are still to come: the line M makes up for them.  (For an order that
\* was dropped nothing does.)
HeardIsKnown ==
    ~changed =>
        /\ ExecutedQty(o) + missed >= told
        /\ InInactive /\ ~dropped => ExecutedQty(o) = o.qty /\ done = o.qty

\* The listeners of onTrade have been told of at least all executed lots.  (It
\* is no equality: two lines of one stream in a row report the first lots
\* again.)
NoMissedTrade == ~changed => reported >= ExecutedQty(o)

\* Lines never take back an executed lot; only a change restarts the count.
ExecutedMonotone ==
    [][~changed' => ExecutedQty(o) <= ExecutedQty(o')]_vars
=============================================================================
