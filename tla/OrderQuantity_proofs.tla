------------------------- MODULE OrderQuantity_proofs -------------------------
(***************************************************************************)
(* Proofs about OrderQuantity, for every Word and every MaxQty.            *)
(***************************************************************************)
EXTENDS OrderQuantity, TLAPS

(***************************************************************************)
(* What the invariants rest on: while the order has not been changed the   *)
(* trades count is exactly what the trade lines told while the object was  *)
(* filed, and neither stream is ahead of the exchange.                     *)
(***************************************************************************)
StreamsBehindExchange ==
    /\ missed <= told
    /\ ~changed => /\ o.trades + missed = told
                   /\ told <= done
                   /\ done <= o.qty
                   /\ ByRest(o) <= done

\* An order is retired because it was dropped, or knows all its deals.
ExecutedIsKnown ==
    ~changed /\ InInactive /\ ~dropped => ExecutedQty(o) = o.qty /\ done = o.qty

IInv ==
    /\ TypeOK
    /\ RestBounded
    /\ StreamsBehindExchange
    /\ ExecutedIsKnown
    /\ NoMissedTrade

\* With no more than the order's lots traded the quint32 sum does not wrap, so
\* that a trade line of at most the untraded lots adds to the count.
LEMMA TradesSum ==
    ASSUME NEW q \in 0 .. MaxQty, NEW t \in 0 .. MaxQty, NEW x \in 1 .. MaxQty,
           t + x <= q
    PROVE  (t + x) % Word = t + x
<1>1. t + x \in 0 .. Word - 1
  BY WordAssumption, MaxQtyAssumption
<1>. QED
  BY <1>1, WordAssumption

\* A sum that passes the guard of updateTradesQty is at most the quantity,
\* even if it wrapped.
LEMMA SumInWord ==
    ASSUME NEW t \in 0 .. MaxQty, NEW x \in 1 .. MaxQty
    PROVE  (t + x) % Word \in Nat
BY WordAssumption, MaxQtyAssumption

\* A line that carries a rest r, be it O or M.
LEMMA RestKnown ==
    ASSUME IInv, NEW r \in 0 .. MaxQty,
           ~changed => r <= o.qty /\ o.qty - r <= done,
           o' = UpdateRestQty(o, r),
           reported' = reported + RestReport(o, r),
           hashes' \in {"active", "inactive"},
           ~changed => (hashes' = "inactive" => r = 0 /\ done = o.qty),
           UNCHANGED <<exchange, told, missed, changed>>
    PROVE  /\ IInv'
           /\ ~changed' => ExecutedQty(o) <= ExecutedQty(o')
<1>. USE DEF exchange
<1>1. CASE o.rest > r /\ o.qty > r
  <2>1. o' = [o EXCEPT !.rest = r]
    BY <1>1 DEF UpdateRestQty
  <2>2. /\ o'.qty = o.qty /\ o'.rest = r /\ o'.trades = o.trades
        /\ o' # o
    BY <2>1, <1>1 DEF IInv, TypeOK
  <2>3. o' \in [qty: 0 .. MaxQty, rest: 0 .. MaxQty, trades: 0 .. MaxQty]
    BY <2>1 DEF IInv, TypeOK
  <2>4. reported' = reported + (IF o.qty - r > o.trades
                                THEN o.qty - r - o.trades ELSE 0)
    BY <2>2 DEF RestReport, ByRest, IInv, TypeOK
  <2>5. reported' \in Nat
    BY <2>4, <1>1, MaxQtyAssumption DEF IInv, TypeOK
  <2>6. TypeOK'
    BY <2>3, <2>5 DEF IInv, TypeOK
  <2>7. ExecutedIsKnown'
    BY <2>2, <1>1 DEF IInv, TypeOK, StreamsBehindExchange, ExecutedIsKnown,
                      InInactive, ExecutedQty, ByRest
  <2>. QED
    BY <2>2, <2>4, <2>6, <2>7, <1>1
    DEF IInv, TypeOK, RestBounded, StreamsBehindExchange, NoMissedTrade,
        ExecutedQty, ByRest
<1>2. CASE ~(o.rest > r /\ o.qty > r)
  <2>1. o' = o /\ reported' = reported
    BY <1>2 DEF UpdateRestQty, RestReport, IInv, TypeOK
  <2>2. ExecutedIsKnown'
    BY <2>1, <1>2 DEF IInv, TypeOK, RestBounded, StreamsBehindExchange,
                      ExecutedIsKnown, InInactive, ExecutedQty, ByRest
  <2>3. TypeOK'
    BY <2>1 DEF IInv, TypeOK
  <2>. QED
    BY <2>1, <2>2, <2>3 DEF IInv, TypeOK, RestBounded, StreamsBehindExchange,
                            NoMissedTrade, ExecutedQty, ByRest
<1>. QED
  BY <1>1, <1>2

\* A trade line that finds the object.
LEMMA TradeKnown ==
    ASSUME IInv, NEW x \in 1 .. MaxQty, TradeLine(x), InActive, UNCHANGED missed,
           o' = UpdateTradesQty(o, x),
           hashes' = IF IsExecutedQty(o') THEN "both" ELSE hashes,
           reported' = reported + TradesReport(o, x)
    PROVE  /\ IInv'
           /\ ~changed' => ExecutedQty(o) <= ExecutedQty(o')
<1> DEFINE sum == (o.trades + x) % Word
<1>0. /\ told' = told + x /\ told' <= done /\ told' \in 0 .. MaxQty
      /\ UNCHANGED <<done, dropped, missed, changed>>
  BY MaxQtyAssumption DEF TradeLine, exchange, IInv, TypeOK
<1>1. sum \in Nat /\ (~changed => sum = o.trades + x /\ o.qty >= sum)
  <2>1. sum \in Nat
    BY SumInWord DEF IInv, TypeOK
  <2>2. ASSUME ~changed PROVE sum = o.trades + x /\ o.qty >= sum
    <3>1. o.trades + x <= o.qty
      BY <2>2, <1>0 DEF IInv, TypeOK, StreamsBehindExchange
    <3>. QED
      BY <3>1, TradesSum DEF IInv, TypeOK
  <2>. QED
    BY <2>1, <2>2
<1>2. hashes' \in {"none", "active", "both", "inactive"}
  BY DEF IInv, TypeOK
<1> HIDE DEF sum
<1>3. CASE o.qty >= sum
  <2>1. o' = [o EXCEPT !.trades = sum]
    BY <1>3 DEF UpdateTradesQty, sum
  <2>2. o'.qty = o.qty /\ o'.rest = o.rest /\ o'.trades = sum
    BY <2>1 DEF IInv, TypeOK
  <2>3. o' \in [qty: 0 .. MaxQty, rest: 0 .. MaxQty, trades: 0 .. MaxQty]
    <3>1. sum \in 0 .. MaxQty
      BY <1>1, <1>3, WordAssumption, MaxQtyAssumption DEF IInv, TypeOK
    <3>. QED
      BY <2>1, <3>1 DEF IInv, TypeOK
  <2>4. reported' = reported + (IF o.qty - o.rest < sum
                                THEN sum - (o.qty - o.rest) ELSE 0)
    BY <2>2, <1>3 DEF TradesReport, UpdateTradesQty, ByRest, sum, IInv, TypeOK
  <2>5. reported' \in Nat
    BY <2>4, <1>1, MaxQtyAssumption DEF IInv, TypeOK, RestBounded
  <2>6. TypeOK'
    BY <2>3, <2>5, <1>0, <1>2 DEF IInv, TypeOK
  <2>7. RestBounded' /\ StreamsBehindExchange'
    BY <2>2, <1>0, <1>1
    DEF IInv, TypeOK, RestBounded, StreamsBehindExchange, ByRest
  <2>8. NoMissedTrade' /\ (~changed' => ExecutedQty(o) <= ExecutedQty(o'))
    BY <2>2, <2>4, <1>0, <1>1
    DEF IInv, TypeOK, RestBounded, StreamsBehindExchange, NoMissedTrade,
        ExecutedQty, ByRest
  <2>9. ASSUME ~changed', InInactive', ~dropped'
        PROVE  ExecutedQty(o') = o'.qty /\ done' = o'.qty
    <3>1. CASE IsExecutedQty(o')
      BY <3>1, <2>2, <2>7, <2>9, <1>0, <1>1
      DEF IsExecutedQty, ExecutedQty, ByRest, StreamsBehindExchange,
          IInv, TypeOK, RestBounded
    <3>2. CASE ~IsExecutedQty(o')
      \* Then the order was retired already, and all lots were dealt.
      <4>1. ~changed /\ ~dropped /\ InInactive
        BY <3>2, <2>9, <1>0 DEF InInactive
      <4>2. ExecutedQty(o) = o.qty
        BY <4>1 DEF IInv, ExecutedIsKnown
      <4>. QED
        BY <4>1, <4>2, <3>2, <2>2, <1>0, <1>1
        DEF IsExecutedQty, ExecutedQty, ByRest, IInv, TypeOK, RestBounded,
            StreamsBehindExchange
    <3>. QED
      BY <3>1, <3>2
  <2>. QED
    BY <2>6, <2>7, <2>8, <2>9 DEF IInv, ExecutedIsKnown
<1>4. CASE ~(o.qty >= sum)
  <2>1. o' = o /\ reported' = reported
    BY <1>4 DEF UpdateTradesQty, TradesReport, sum, IInv, TypeOK
  <2>2. changed /\ changed'
    BY <1>0, <1>1, <1>4
  <2>3. TypeOK'
    BY <2>1, <1>0, <1>2 DEF IInv, TypeOK
  <2>4. RestBounded'
    BY <2>1 DEF IInv, RestBounded
  <2>5. missed' <= told'
    BY <1>0 DEF IInv, TypeOK, StreamsBehindExchange
  <2>6. StreamsBehindExchange' /\ ExecutedIsKnown' /\ NoMissedTrade'
    BY <2>2, <2>5 DEF StreamsBehindExchange, ExecutedIsKnown, NoMissedTrade
  <2>. QED
    BY <2>2, <2>3, <2>4, <2>6 DEF IInv
<1>. QED
  BY <1>3, <1>4

LEMMA TradeLineInv ==
    ASSUME IInv, NEW x \in 1 .. MaxQty, TradeLine(x)
    PROVE  /\ IInv'
           /\ ~changed' => ExecutedQty(o) <= ExecutedQty(o')
<1>1. CASE InActive
  BY <1>1, TradeKnown DEF TradeLine
<1>2. CASE ~InActive
  <2>1. /\ told' = told + x /\ missed' = missed + x /\ told + x <= done
        /\ UNCHANGED <<o, hashes, reported, done, dropped, changed>>
    BY <1>2 DEF TradeLine, exchange
  <2>. QED
    BY <2>1, MaxQtyAssumption
    DEF IInv, TypeOK, RestBounded, StreamsBehindExchange, ExecutedIsKnown,
        InInactive, NoMissedTrade, ExecutedQty, ByRest
<1>. QED
  BY <1>1, <1>2

LEMMA InitInv == Init => IInv
<1> SUFFICES ASSUME Init PROVE IInv
  OBVIOUS
<1>1. PICK q \in 1 .. MaxQty : o = NewQuantities(q)
  BY DEF Init
<1>2. o.qty = q /\ o.rest = q /\ o.trades = 0
  BY <1>1 DEF NewQuantities
<1>3. o \in [qty: 0 .. MaxQty, rest: 0 .. MaxQty, trades: 0 .. MaxQty]
  BY <1>1, MaxQtyAssumption, WordAssumption DEF NewQuantities
<1>4. /\ hashes = "none" /\ done = 0 /\ told = 0 /\ missed = 0 /\ reported = 0
      /\ dropped = FALSE /\ changed = FALSE
  BY DEF Init
<1>5. TypeOK
  <2>1. changed \in BOOLEAN /\ dropped \in BOOLEAN
    BY <1>4, Zenon
  <2>. QED
    BY <2>1, <1>3, <1>4, MaxQtyAssumption, WordAssumption DEF TypeOK
<1>6. q \in Nat /\ ByRest(o) = 0 /\ ExecutedQty(o) = 0
  BY <1>2, MaxQtyAssumption, WordAssumption DEF ByRest, ExecutedQty
<1>7. RestBounded /\ StreamsBehindExchange /\ ExecutedIsKnown /\ NoMissedTrade
  BY <1>2, <1>4, <1>6 DEF RestBounded, StreamsBehindExchange, ExecutedIsKnown,
                          InInactive, NoMissedTrade
<1>. QED
  BY <1>5, <1>7 DEF IInv

\* Every step preserves the invariant and takes back no executed lot.
LEMMA StepInv ==
    IInv /\ [Next]_vars =>
        /\ IInv'
        /\ ~changed' => ExecutedQty(o) <= ExecutedQty(o')
<1> SUFFICES ASSUME IInv, [Next]_vars
             PROVE  /\ IInv'
                    /\ ~changed' => ExecutedQty(o) <= ExecutedQty(o')
  OBVIOUS
<1> DEFINE Kept == IInv' /\ (~changed' => ExecutedQty(o) <= ExecutedQty(o'))
<1>1. ASSUME NEW x \in 1 .. MaxQty, Deal(x) PROVE Kept
  BY <1>1, MaxQtyAssumption
  DEF Deal, IInv, TypeOK, RestBounded, StreamsBehindExchange, ExecutedIsKnown,
      InInactive, NoMissedTrade, ExecutedQty, ByRest
<1>2. CASE Drop
  <2>1. dropped' = TRUE /\ UNCHANGED <<o, hashes, done, told, missed, reported, changed>>
    BY <1>2 DEF Drop
  <2>2. TypeOK'
    BY <2>1 DEF IInv, TypeOK
  <2>. QED
    BY <2>1, <2>2 DEF IInv, TypeOK, RestBounded, StreamsBehindExchange,
        ExecutedIsKnown, NoMissedTrade, ExecutedQty, ByRest
<1>3. CASE File
  BY <1>3 DEF File, exchange, IInv, TypeOK, RestBounded, StreamsBehindExchange,
              ExecutedIsKnown, InInactive, NoMissedTrade, ExecutedQty, ByRest
<1>4. ASSUME NEW r \in 0 .. MaxQty, RestLine(r) PROVE Kept
  BY <1>4, RestKnown DEF RestLine
<1>5. CASE FilledLine
  <2>1. 0 \in 0 .. MaxQty
    BY MaxQtyAssumption, WordAssumption
  <2>2. ~changed => 0 <= o.qty /\ o.qty - 0 <= done
    BY <1>5 DEF FilledLine, IInv, TypeOK, StreamsBehindExchange
  <2>. QED
    BY <1>5, <2>1, <2>2, RestKnown DEF FilledLine
<1>6. CASE DroppedLine
  <2>1. /\ hashes' = "inactive" /\ (~changed => dropped)
        /\ UNCHANGED <<o, done, dropped, told, missed, reported, changed>>
    BY <1>6 DEF DroppedLine, exchange
  <2>2. TypeOK'
    BY <2>1 DEF IInv, TypeOK
  <2>. QED
    BY <2>1, <2>2 DEF IInv, TypeOK, RestBounded, StreamsBehindExchange,
                ExecutedIsKnown, NoMissedTrade, ExecutedQty, ByRest
<1>7. ASSUME NEW x \in 1 .. MaxQty, TradeLine(x) PROVE Kept
  BY <1>7, TradeLineInv
<1>8. ASSUME NEW q \in 0 .. MaxQty, Change(q) PROVE Kept
  <2>1. /\ o' = [o EXCEPT !.qty = q, !.rest = q]
        /\ changed' = TRUE
        /\ UNCHANGED <<hashes, done, dropped, told, missed, reported>>
    BY <1>8 DEF Change, exchange
  <2>2. o'.qty = q /\ o'.rest = q
    BY <2>1 DEF IInv, TypeOK
  <2>3. TypeOK'
    BY <2>1 DEF IInv, TypeOK
  <2>4. q \in Nat
    BY MaxQtyAssumption, WordAssumption
  <2>. QED
    BY <2>1, <2>2, <2>3, <2>4 DEF IInv, RestBounded, StreamsBehindExchange,
                                  ExecutedIsKnown, NoMissedTrade
<1>9. CASE UNCHANGED vars
  BY <1>9 DEF vars, exchange, IInv, TypeOK, RestBounded, StreamsBehindExchange,
              ExecutedIsKnown, InInactive, NoMissedTrade, ExecutedQty, ByRest
<1>. QED
  BY <1>1, <1>2, <1>3, <1>4, <1>5, <1>6, <1>7, <1>8, <1>9 DEF Next

LEMMA Invariance == Spec => []IInv
BY InitInv, StepInv, PTL DEF Spec

-----------------------------------------------------------------------------
\* Type correctness of the order object's counters.
THEOREM TypeCorrect == Spec => []TypeOK
<1>1. IInv => TypeOK
  BY DEF IInv
<1>. QED
  BY <1>1, Invariance, PTL

\* The assertion of _getExecutedQty never fails.
THEOREM RestAlwaysBounded == Spec => []RestBounded
<1>1. IInv => RestBounded
  BY DEF IInv
<1>. QED
  BY <1>1, Invariance, PTL

\* No deal is counted twice although two streams report it.
THEOREM DealsNotCountedTwice == Spec => []NeverOvercounts
<1>1. IInv => NeverOvercounts
  BY DEF IInv, TypeOK, StreamsBehindExchange, NeverOvercounts, ExecutedQty,
         ByRest
<1>. QED
  BY <1>1, Invariance, PTL

\* No lot that a trade line told while the object was in m_activeOrders is lost,
\* however status lines were interleaved, and an order retired as executed knows
\* every deal, whether or not it was there when the trade lines came.
THEOREM DealsNotLost == Spec => []HeardIsKnown
<1>1. IInv => HeardIsKnown
  BY DEF IInv, TypeOK, StreamsBehindExchange, ExecutedIsKnown, HeardIsKnown,
         ExecutedQty, ByRest
<1>. QED
  BY <1>1, Invariance, PTL

\* The listeners of onTrade hear of every executed lot.
THEOREM TradesReported == Spec => []NoMissedTrade
<1>1. IInv => NoMissedTrade
  BY DEF IInv
<1>. QED
  BY <1>1, Invariance, PTL

\* No line takes back an executed lot.
THEOREM ExecutedNeverShrinks == Spec => ExecutedMonotone
<1>1. IInv /\ [Next]_vars
        => [~changed' => ExecutedQty(o) <= ExecutedQty(o')]_vars
  BY StepInv
<1>. QED
  BY <1>1, Invariance, PTL DEF Spec, ExecutedMonotone
=============================================================================
