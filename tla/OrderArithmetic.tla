--------------------------- MODULE OrderArithmetic ---------------------------
(***************************************************************************)
(* The quantities of an order object (class ADOrderPrivate): how many lots *)
(* were ordered, how many rest in the exchange's book according to the     *)
(* status lines, and how many were traded according to the trade lines.    *)
(* The two streams report the same deals, and neither is ordered with      *)
(* respect to the other; the object keeps both counts and takes the one    *)
(* that is ahead.                                                          *)
(*                                                                         *)
(* Every operator works on a record with at least the fields qty, rest and *)
(* trades, so that the modules about whole orders can use them.            *)
(***************************************************************************)
EXTENDS Naturals

CONSTANT Word   \* number of values of a quint32: 2^32 in the program

ASSUME WordAssumption == Word \in Nat \ {0}

U32 == 0 .. Word - 1

\* An order of q lots of which nothing is known to be executed.
NewQuantities(q) == [qty |-> q, rest |-> q, trades |-> 0]

\* Lots executed according to the status lines alone.
ByRest(o) == o.qty - o.rest

\* Mutant: the two counts are added.
ExecutedSum(o) == ByRest(o) + o.trades

ExecutedQty(o) == IF ByRest(o) > o.trades THEN ByRest(o) ELSE o.trades

IsExecutedQty(o) == o.qty = ExecutedQty(o)

\* Mutant: every rest counts.
UpdateToAnyRest(o, r) == IF o.qty > r THEN [o EXCEPT !.rest = r] ELSE o

\* A status line says r lots rest: only a smaller rest than known counts.
UpdateRestQty(o, r) ==
    IF o.rest > r /\ o.qty > r THEN [o EXCEPT !.rest = r] ELSE o

\* Mutant: the trade that completes the order is not counted.
UpdateAllButLast(o, x) ==
    IF o.qty > (o.trades + x) % Word
    THEN [o EXCEPT !.trades = (o.trades + x) % Word]
    ELSE o

\* A trade line says x more lots were traded; the sum is that of a quint32.
UpdateTradesQty(o, x) ==
    IF o.qty >= (o.trades + x) % Word
    THEN [o EXCEPT !.trades = (o.trades + x) % Word]
    ELSE o

\* Mutants: the difference whatever its sign; the counts before the line.
RestDifference(o, r) ==
    LET new == UpdateRestQty(o, r)
    IN  IF new # o THEN ByRest(new) - new.trades ELSE 0

TradesReportBefore(o, x) ==
    IF o.qty >= (o.trades + x) % Word /\ ByRest(o) < o.trades
    THEN o.trades - ByRest(o) ELSE 0

\* What updateRestQty and updateTradesQty return, the argument of onTrade: by
\* how much the stream of this line is ahead of the other one after it.
RestReport(o, r) ==
    LET new == UpdateRestQty(o, r)
    IN  IF new # o /\ ByRest(new) > new.trades
        THEN ByRest(new) - new.trades ELSE 0

TradesReport(o, x) ==
    LET new == UpdateTradesQty(o, x)
    IN  IF o.qty >= (o.trades + x) % Word /\ ByRest(new) < new.trades
        THEN new.trades - ByRest(new) ELSE 0
=============================================================================
