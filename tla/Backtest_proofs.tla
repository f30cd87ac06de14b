---------------------------- MODULE Backtest_proofs ----------------------------
(***************************************************************************)
(* Proofs about the backtest: its types, in which lies that the simulated  *)
(* broker never overdraws the cash nor sells short; that an order fills    *)
(* once, and never on its own day; and that the fills account for shares   *)
(* and cash.                                                               *)
(***************************************************************************)
EXTENDS Backtest, FiniteSetTheorems, SequenceTheorems, WellFoundedInduction, TLAPS

(* What TypeOK needs besides itself: today's bars come from the provider.  *)
Typed == TypeOK /\ bars \in BarsOfADay

(* A product of naturals is a natural.                                     *)
LEMMA NatProduct == \A m, n \in Nat : m * n \in Nat
  OBVIOUS

(* The bars of a day are naturals.                                         *)
LEMMA BarsType == \A f \in BarsOfADay : f \in [Symbols -> Nat]
<1>1. Prices \subseteq Nat
  BY BacktestAssumption
<1>2. \A n \in Prices \cup (IF Gaps THEN {Broker!NoBar} ELSE {}) : n \in Nat
  BY <1>1 DEF Broker!NoBar
<1>. QED
  BY <1>2 DEF BarsOfADay

(* Whatever the model, a fill price is a natural, for a bar and a haircut  *)
(* that is below every price.                                              *)
LEMMA FillPriceType ==
  ASSUME bars \in BarsOfADay, NEW o \in Broker!Orders
  PROVE  Broker!FillPrice(o) \in Nat
<1>1. o.sym \in Symbols
  BY DEF Broker!Orders
<1>2. bars[o.sym] \in Prices \cup {0}
  BY <1>1 DEF BarsOfADay, Broker!NoBar
<1>. DEFINE b == bars[o.sym]
<1>. HIDE DEF b
<1>3. /\ b \in Nat
      /\ b # 0 => b - Haircut \in Nat /\ b + Haircut \in Nat
  <2>1. b \in Prices \/ b = 0
    BY <1>2 DEF b
  <2>2. Haircut \in Nat /\ \A p \in Prices : p \in Nat /\ Haircut < p
    BY BacktestAssumption
  <2>. QED
    BY <2>1, <2>2
<1>4. WallBar \in Nat
  BY BacktestAssumption
<1>. USE DEF b
<1>. QED
  BY <1>3, <1>4, Zenon DEF Broker!FillPrice, Broker!NoBar

(* A sell never takes more than the position holds.                        *)
LEMMA SharesSoldBound ==
  ASSUME pos \in [Symbols -> Nat], NEW o \in Broker!Orders
  PROVE  /\ Broker!SharesSold(o) \in Nat
         /\ Broker!SharesSold(o) <= pos[o.sym]
  BY DEF Broker!SharesSold, Broker!Orders

(* The order settle has reached is one of the queue.                       *)
LEMMA OrderType ==
  ASSUME Typed, next <= Len(pending)
  PROVE  Broker!Order \in Broker!Orders /\ Broker!Price \in Nat
<1>1. pending \in Seq(Broker!Orders) /\ next \in 1..Len(pending)
  BY DEF Typed, TypeOK
<1>2. Broker!Order \in Broker!Orders
  BY <1>1, ElementOfSeq DEF Broker!Order
<1>. QED
  BY <1>2, FillPriceType DEF Typed, Broker!Price

(* Settling one order keeps the cash and every position a natural: a buy   *)
(* is cut to what the cash pays for, a sell to what is held.               *)
LEMMA SettleTyped ==
  ASSUME Typed, Settle
  PROVE  /\ cash' \in Nat /\ pos' \in [Symbols -> Nat] /\ lastOrder' \in Nat
         /\ pending' \in Seq(Broker!Orders) /\ unfilled' \in Seq(Broker!Orders)
         /\ next' \in 1..(Len(pending') + 1)
<1>. USE DEF Typed, TypeOK
<1>1. CASE Broker!KeepOrder
  <2>1. Broker!Order \in Broker!Orders
    BY <1>1, OrderType DEF Broker!KeepOrder
  <2>2. unfilled' \in Seq(Broker!Orders)
    BY <1>1, <2>1 DEF Broker!KeepOrder
  <2>. QED
    BY <1>1, <2>2 DEF Broker!KeepOrder
<1>2. CASE Broker!FillBuy
  <2>. DEFINE o == Broker!Order
              price == Broker!Price
  <2>1. next <= Len(pending) /\ o \in Broker!Orders /\ price \in Nat
    BY <1>2, OrderType DEF Broker!FillBuy
  <2>2. PICK q \in 0..o.qty :
           /\ Broker!Affordable(q, o.qty, price)
           /\ cash' = cash - q * price
           /\ pos' = [pos EXCEPT ![o.sym] = @ + q]
           /\ pending' = [pending EXCEPT ![next].qty = q] \/ pending' = pending
    BY <1>2 DEF Broker!FillBuy
  <2>3. o.qty \in Nat /\ o.sym \in Symbols /\ q \in Nat
    BY <2>1 DEF Broker!Orders
  <2>4. q * price \in Nat /\ q * price <= cash
    BY <2>1, <2>2, <2>3, NatProduct DEF Broker!Affordable
  <2>5. cash' \in Nat
    BY <2>2, <2>4
  <2>6. pos' \in [Symbols -> Nat]
    BY <2>2, <2>3
  <2>7. pending' \in Seq(Broker!Orders) /\ Len(pending') = Len(pending)
    <3>1. CASE pending' = pending
      BY <3>1
    <3>2. CASE pending' = [pending EXCEPT ![next].qty = q]
      <4>. DEFINE r == [o EXCEPT !.qty = q]
      <4>1. r \in Broker!Orders
        BY <2>1, <2>3 DEF Broker!Orders
      <4>2. pending' = [pending EXCEPT ![next] = r]
        BY <3>2 DEF Broker!Order
      <4>. HIDE DEF r
      <4>. QED
        BY <2>1, <4>1, <4>2, ExceptSeq
    <3>. QED
      BY <2>2, <3>1, <3>2
  <2>8. next' = next + 1 /\ lastOrder' = lastOrder /\ unfilled' = unfilled
    BY <1>2 DEF Broker!FillBuy
  <2>. QED
    BY <2>1, <2>5, <2>6, <2>7, <2>8
<1>3. CASE Broker!FillSell
  <2>. DEFINE o == Broker!Order
              sold == Broker!SharesSold(o)
  <2>1. next <= Len(pending) /\ o \in Broker!Orders /\ Broker!Price \in Nat
    BY <1>3, OrderType DEF Broker!FillSell
  <2>2. sold \in Nat /\ sold <= pos[o.sym] /\ o.sym \in Symbols
    BY <2>1, SharesSoldBound DEF Broker!Orders
  <2>3. sold * Broker!Price \in Nat
    BY <2>1, <2>2, NatProduct
  <2>4. cash' = cash + sold * Broker!Price /\ pos' = [pos EXCEPT ![o.sym] = @ - sold]
    BY <1>3 DEF Broker!FillSell
  <2>5. cash' \in Nat
    BY <2>3, <2>4
  <2>6. pos' \in [Symbols -> Nat]
    BY <2>2, <2>4
  <2>7. next' = next + 1 /\ UNCHANGED <<lastOrder, pending, unfilled>>
    BY <1>3 DEF Broker!FillSell
  <2>. QED
    BY <2>1, <2>5, <2>6, <2>7
<1>. QED
  BY <1>1, <1>2, <1>3 DEF Settle

(* Queueing an order keeps the queue a queue of orders.                    *)
LEMMA QueueTyped ==
  ASSUME Typed, NEW s \in Symbols, NEW side \in Broker!Sides, NEW qty \in Nat,
         NEW exit \in BOOLEAN, Broker!Queue(s, side, qty, exit)
  PROVE  /\ lastOrder' \in Nat
         /\ pending' \in Seq(Broker!Orders)
         /\ next' \in 1..(Len(pending') + 1)
         /\ UNCHANGED <<cash, pos, next, unfilled, fills>>
<1>. DEFINE o == [id |-> lastOrder + 1, sym |-> s, side |-> side,
                  qty |-> qty, exit |-> exit, day |-> today]
<1>1. o \in Broker!Orders
  BY CalendarAssumption DEF Typed, TypeOK, Broker!Orders, Broker!Days, Days
<1>2. pending' = Append(pending, o) /\ lastOrder' = lastOrder + 1
      /\ UNCHANGED <<cash, pos, next, unfilled, fills>>
  BY DEF Broker!Queue
<1>. HIDE DEF o
<1>3. pending' \in Seq(Broker!Orders) /\ Len(pending') = Len(pending) + 1
  BY <1>1, <1>2 DEF Typed, TypeOK
<1>. QED
  BY <1>2, <1>3 DEF Typed, TypeOK

(* Every step keeps TypeOK, and today's bars those of the provider.        *)
LEMMA TypedPreserved == Typed /\ [Next]_vars => Typed'
<1>. SUFFICES ASSUME Typed, [Next]_vars PROVE Typed'
  OBVIOUS
<1>. USE DEF Typed, TypeOK, PDTTypeOK
<1>0. mishaps' \subseteq Mishaps
  <2>1. \/ UNCHANGED mishaps
        \/ mishaps' = mishaps \cup {"gap"}
        \/ mishaps' = mishaps \cup {"raise"}
    BY Zenon DEF Next, vars, Settle, Settled, CycleRaises, RouteNothing, RouteBuy,
         RouteTrim, RouteExit, Routed, Advance
  <2>. QED
    BY <2>1 DEF Mishaps
<1>1. CASE Settle
  BY <1>0, <1>1, SettleTyped DEF Settle, pdtVars, BarsOfADay
<1>2. CASE Settled
  <2>1. openDates' \in [Symbols -> Days \cup {NoDate}] /\ trades' = trades
    BY <1>2, CalendarAssumption DEF Settled, NoteBuys, Days
  <2>2. /\ pending' = unfilled /\ unfilled' = <<>> /\ next' = 1
        /\ UNCHANGED <<cash, pos, lastOrder, today, bars>>
    BY <1>2 DEF Settled, Broker!SettleDone
  <2>3. phase' \in {"settle", "route", "over"} /\ todo' \subseteq Symbols
    BY <1>2 DEF Settled
  <2>4. /\ pending' \in Seq(Broker!Orders) /\ unfilled' \in Seq(Broker!Orders)
        /\ next' \in 1..(Len(pending') + 1)
    BY <2>2
  <2>. QED
    BY <1>0, <2>1, <2>2, <2>3, <2>4 DEF BarsOfADay
<1>3. CASE CycleRaises
  <2>1. /\ pending' \in Seq(Broker!Orders) /\ unfilled' \in Seq(Broker!Orders)
        /\ next' \in 1..(Len(pending') + 1)
    <3>1. CASE Broker!SettleRaises
      <4>1. pending' = pending /\ unfilled' = <<>> /\ next' = 1
        BY <3>1 DEF Broker!SettleRaises
      <4>. QED
        BY <4>1
    <3>2. CASE Broker!SettleDone
      <4>1. pending' = unfilled /\ unfilled' = <<>> /\ next' = 1
        BY <3>2 DEF Broker!SettleDone
      <4>. QED
        BY <4>1
    <3>. QED
      BY <1>3, <3>1, <3>2 DEF CycleRaises
  <2>2. /\ UNCHANGED <<cash, pos, lastOrder, today, bars, todo, trades, openDates>>
        /\ phase' = "over"
    BY <1>3 DEF CycleRaises, Broker!SettleRaises, Broker!SettleDone, pdtVars
  <2>. QED
    BY <1>0, <2>1, <2>2 DEF BarsOfADay
<1>4. ASSUME NEW s \in Symbols,
             RouteNothing(s) \/ RouteBuy(s) \/ RouteTrim(s) \/ RouteExit(s)
      PROVE  Typed'
  <2>1. /\ UNCHANGED <<today, bars, trades, openDates>>
        /\ phase' \in {"settle", "route", "over"} /\ todo' \subseteq Symbols
    BY <1>4 DEF RouteNothing, RouteBuy, RouteTrim, RouteExit, Routed, pdtVars
  <2>2. \/ UNCHANGED brokerVars
        \/ \E side \in Broker!Sides, qty \in Nat, exit \in BOOLEAN :
               Broker!Queue(s, side, qty, exit)
    <3>1. CASE RouteNothing(s)
      BY <3>1 DEF RouteNothing
    <3>2. CASE RouteBuy(s) \/ RouteTrim(s)
      <4>1. \E side \in Broker!Sides, qty \in 1..MaxQty : Broker!Queue(s, side, qty, FALSE)
        BY <3>2 DEF RouteBuy, RouteTrim, Broker!SubmitMarket, Broker!Sides
      <4>2. 1..MaxQty \subseteq Nat /\ FALSE \in BOOLEAN
        BY BacktestAssumption
      <4>. QED
        BY <4>1, <4>2, Zenon
    <3>3. CASE RouteExit(s)
      BY <3>3 DEF RouteExit, Broker!ClosePosition, Broker!Sides
    <3>. QED
      BY <1>4, <3>1, <3>2, <3>3
  <2>. DEFINE Kept == /\ cash' \in Nat /\ pos' \in [Symbols -> Nat] /\ lastOrder' \in Nat
                      /\ pending' \in Seq(Broker!Orders) /\ unfilled' \in Seq(Broker!Orders)
                      /\ next' \in 1..(Len(pending') + 1)
  <2>3. Kept
    <3>1. CASE UNCHANGED brokerVars
      BY <3>1 DEF brokerVars
    <3>2. ASSUME NEW side \in Broker!Sides, NEW qty \in Nat, NEW exit \in BOOLEAN,
                 Broker!Queue(s, side, qty, exit)
          PROVE  Kept
      BY <3>2, QueueTyped
    <3>. HIDE DEF Kept
    <3>. QED
      BY <2>2, <3>1, <3>2
  <2>. QED
    BY <1>0, <2>1, <2>3 DEF BarsOfADay
<1>5. CASE Advance
  <2>1. /\ today' \in TradingDays /\ bars' \in BarsOfADay /\ phase' = "settle"
        /\ UNCHANGED <<brokerVars, todo, pdtVars>>
    BY <1>5 DEF Advance
  <2>. QED
    BY <1>0, <2>1, BarsType DEF BarsOfADay, brokerVars, pdtVars
<1>6. CASE UNCHANGED vars
  BY <1>0, <1>6 DEF vars, brokerVars, pdtVars, BarsOfADay
<1>. QED
  BY <1>1, <1>2, <1>3, <1>4, <1>5, <1>6 DEF Next

(* The backtest starts in a state of its types.                            *)
LEMMA TypedInit == Init => Typed
  BY BarsType, BacktestAssumption, PDTAssumption
     DEF Init, Typed, TypeOK, PDTTypeOK, PDTInit, Broker!BrokerInit

(* broker.py, settle: whatever the bars, their gaps and the calls that     *)
(* raise, the cash is never overdrawn and no position is ever short.       *)
THEOREM TypeCorrect == Spec => []TypeOK
<1>1. Init => Typed
  BY TypedInit
<1>2. Typed /\ [Next]_vars => Typed'
  BY TypedPreserved
<1>3. Typed => TypeOK
  BY DEF Typed
<1>. QED
  BY <1>1, <1>2, <1>3, PTL DEF Spec
-----------------------------------------------------------------------------
FillRecords == [id : Nat, sym : Symbols, side : Broker!Sides, qty : Nat, price : Nat,
                decided : Days, at : Days]

FillsTyped == fills \in Seq(FillRecords)

(* An order waits from the day it was decided; while settle is under way   *)
(* none is of today, and nothing is set aside without a gap.               *)
Dated ==
    /\ \A i \in 1..Len(pending) : pending[i].day <= today
                                  /\ (phase = "settle" => pending[i].day < today)
    /\ \A i \in 1..Len(unfilled) : unfilled[i].day < today
    /\ phase # "settle" => next = 1 /\ unfilled = <<>>
    /\ mishaps = {} => unfilled = <<>>

(* No number is larger than the last one given.                            *)
Known ==
    /\ \A i \in 1..Len(pending) : pending[i].id <= lastOrder
    /\ \A i \in 1..Len(unfilled) : unfilled[i].id <= lastOrder
    /\ \A i \in 1..Len(fills) : fills[i].id <= lastOrder

(* An order is in one place: ahead of settle in the queue, set aside, or   *)
(* filled.                                                                 *)
Apart ==
    /\ \A i, j \in 1..Len(pending) : pending[i].id = pending[j].id => i = j
    /\ \A i, j \in 1..Len(unfilled) : unfilled[i].id = unfilled[j].id => i = j
    /\ \A i, j \in 1..Len(fills) : fills[i].id = fills[j].id => i = j
    /\ \A j \in next..Len(pending) :
           /\ \A i \in 1..Len(unfilled) : unfilled[i].id # pending[j].id
           /\ \A i \in 1..Len(fills) : fills[i].id # pending[j].id
    /\ \A i \in 1..Len(fills), j \in 1..Len(unfilled) : fills[i].id # unfilled[j].id

OneOfEach == "raise" \notin mishaps => Apart

Orderly == Typed /\ FillsTyped /\ Dated /\ Known /\ OneOfEach

(* What one step of settle does to the queue, to the orders set aside and  *)
(* to the report.                                                          *)
LEMMA SettleEffect ==
  ASSUME Typed, Settle
  PROVE  /\ phase = "settle" /\ next \in 1..Len(pending) /\ next' = next + 1
         /\ UNCHANGED <<today, phase, lastOrder>>
         /\ Len(pending') = Len(pending)
         /\ \A i \in 1..Len(pending) : /\ pending'[i].id = pending[i].id
                                       /\ pending'[i].day = pending[i].day
         /\ \/ /\ unfilled' = Append(unfilled, pending[next])
               /\ fills' = fills /\ mishaps' = mishaps \cup {"gap"}
            \/ /\ UNCHANGED <<unfilled, mishaps>>
               /\ \/ fills' = fills
                  \/ \E r \in FillRecords :
                        /\ fills' = Append(fills, r)
                        /\ r.id = pending[next].id
                        /\ r.decided = pending[next].day /\ r.at = today
<1>. USE DEF Typed, TypeOK
<1>0. /\ phase = "settle" /\ next \in 1..Len(pending) /\ next' = next + 1
      /\ UNCHANGED <<today, phase, lastOrder>>
  BY DEF Settle, Broker!KeepOrder, Broker!FillBuy, Broker!FillSell
<1>1. /\ Broker!Order = pending[next] /\ Broker!Order \in Broker!Orders
      /\ Broker!Price \in Nat /\ today \in Days
  BY <1>0, OrderType, CalendarAssumption DEF Broker!Order, Days
<1>2. ASSUME NEW q \in Nat, Broker!Report(q)
      PROVE  \E r \in FillRecords :
                /\ fills' = Append(fills, r)
                /\ r.id = pending[next].id
                /\ r.decided = pending[next].day /\ r.at = today
  <2>. DEFINE o == pending[next]
              r == [id |-> o.id, sym |-> o.sym, side |-> o.side, qty |-> q,
                    price |-> Broker!Price, decided |-> o.day, at |-> today]
  <2>1. fills' = Append(fills, r)
    BY <1>1, <1>2 DEF Broker!Report
  <2>2. o \in Broker!Orders
    BY <1>1
  <2>3. r \in FillRecords /\ r.id = o.id /\ r.decided = o.day /\ r.at = today
    BY <1>1, <2>2 DEF Broker!Orders, FillRecords, Broker!Days, Days
  <2>. HIDE DEF r
  <2>. QED
    BY <2>1, <2>3
<1>3. CASE Broker!KeepOrder
  BY <1>0, <1>1, <1>3 DEF Settle, Broker!KeepOrder, Broker!FillBuy, Broker!FillSell
<1>4. CASE Broker!FillBuy
  <2>1. PICK q \in 0..Broker!Order.qty :
           IF q > 0 THEN Broker!Report(q) /\ pending' = [pending EXCEPT ![next].qty = q]
                    ELSE UNCHANGED <<fills, pending>>
    BY <1>4 DEF Broker!FillBuy
  <2>2. q \in Nat
    BY <1>1 DEF Broker!Orders
  <2>3. UNCHANGED <<unfilled, mishaps>>
    BY <1>1, <1>4 DEF Settle, Broker!KeepOrder, Broker!FillBuy
  <2>4. CASE q > 0
    <3>1. pending' = [pending EXCEPT ![next].qty = q] /\ pending[next] \in Broker!Orders
      BY <1>1, <2>1, <2>4
    <3>2. /\ Len(pending') = Len(pending)
          /\ \A i \in 1..Len(pending) : pending'[i].id = pending[i].id
                                        /\ pending'[i].day = pending[i].day
      <4>. DEFINE r == [pending[next] EXCEPT !.qty = q]
      <4>1. r.id = pending[next].id /\ r.day = pending[next].day
        BY <3>1 DEF Broker!Orders
      <4>2. pending' = [pending EXCEPT ![next] = r] /\ pending \in Seq(Broker!Orders)
        BY <3>1
      <4>. HIDE DEF r
      <4>. QED
        BY <1>0, <4>1, <4>2
    <3>3. Broker!Report(q)
      BY <2>1, <2>4
    <3>. QED
      BY <1>0, <1>2, <2>2, <2>3, <3>2, <3>3
  <2>5. CASE ~(q > 0)
    BY <1>0, <2>1, <2>3, <2>5
  <2>. QED
    BY <2>4, <2>5
<1>5. CASE Broker!FillSell
  <2>1. UNCHANGED <<pending, unfilled, mishaps>>
    BY <1>1, <1>5 DEF Settle, Broker!KeepOrder, Broker!FillSell
  <2>2. Broker!Report(Broker!Order.qty) \/ fills' = fills
    BY <1>5 DEF Broker!FillSell
  <2>3. Broker!Order.qty \in Nat
    BY <1>1 DEF Broker!Orders
  <2>. QED
    BY <1>0, <1>2, <2>1, <2>2, <2>3
<1>. QED
  BY <1>3, <1>4, <1>5 DEF Settle

(* What routing a symbol does: nothing, or one more order of today.        *)
LEMMA RouteEffect ==
  ASSUME Typed, NEW s \in Symbols,
         RouteNothing(s) \/ RouteBuy(s) \/ RouteTrim(s) \/ RouteExit(s)
  PROVE  /\ phase = "route" /\ phase' # "settle"
         /\ UNCHANGED <<today, mishaps, next, unfilled, fills>>
         /\ \/ UNCHANGED <<pending, lastOrder>>
            \/ \E o \in Broker!Orders : /\ pending' = Append(pending, o)
                                        /\ o.id = lastOrder + 1 /\ lastOrder' = lastOrder + 1
                                        /\ o.day = today
<1>1. /\ phase = "route" /\ phase' # "settle" /\ UNCHANGED <<today, mishaps>>
  BY DEF RouteNothing, RouteBuy, RouteTrim, RouteExit, Routed
<1>2. ASSUME NEW side \in Broker!Sides, NEW qty \in Nat, NEW exit \in BOOLEAN,
             Broker!Queue(s, side, qty, exit)
      PROVE  \E o \in Broker!Orders : /\ pending' = Append(pending, o)
                                      /\ o.id = lastOrder + 1 /\ lastOrder' = lastOrder + 1
                                      /\ o.day = today
  <2>. DEFINE o == [id |-> lastOrder + 1, sym |-> s, side |-> side,
                    qty |-> qty, exit |-> exit, day |-> today]
  <2>1. o \in Broker!Orders /\ o.id = lastOrder + 1 /\ o.day = today
    BY CalendarAssumption DEF Typed, TypeOK, Broker!Orders, Broker!Days, Days
  <2>2. pending' = Append(pending, o) /\ lastOrder' = lastOrder + 1
    BY <1>2 DEF Broker!Queue
  <2>. HIDE DEF o
  <2>. QED
    BY <2>1, <2>2
<1>3. CASE RouteNothing(s)
  BY <1>1, <1>3 DEF RouteNothing, brokerVars
<1>4. CASE RouteBuy(s) \/ RouteTrim(s)
  <2>1. PICK side \in Broker!Sides, qty \in 1..MaxQty : Broker!Queue(s, side, qty, FALSE)
    BY <1>4 DEF RouteBuy, RouteTrim, Broker!SubmitMarket, Broker!Sides
  <2>2. qty \in Nat /\ FALSE \in BOOLEAN
    BY BacktestAssumption
  <2>3. UNCHANGED <<next, unfilled, fills>>
    BY <2>1 DEF Broker!Queue
  <2>. QED
    BY <1>1, <1>2, <2>1, <2>2, <2>3
<1>5. CASE RouteExit(s)
  <2>1. Broker!Queue(s, "sell", pos[s], TRUE) /\ pos[s] \in Nat
    BY <1>5 DEF RouteExit, Broker!ClosePosition, Typed, TypeOK
  <2>2. UNCHANGED <<next, unfilled, fills>>
    BY <2>1 DEF Broker!Queue
  <2>. QED
    BY <1>1, <1>2, <2>1, <2>2 DEF Broker!Sides
<1>. QED
  BY <1>3, <1>4, <1>5

LEMMA OrderlyInit == Init => Orderly
<1>. SUFFICES ASSUME Init PROVE Orderly
  OBVIOUS
<1>1. pending = <<>> /\ unfilled = <<>> /\ fills = <<>> /\ next = 1 /\ mishaps = {}
  BY DEF Init, Broker!BrokerInit
<1>. QED
  BY <1>1, TypedInit, EmptySeq DEF Orderly, FillsTyped, Dated, Known, OneOfEach, Apart

LEMMA FillsTypedPreserved == Typed /\ FillsTyped /\ [Next]_vars => FillsTyped'
<1>. SUFFICES ASSUME Typed, FillsTyped, [Next]_vars PROVE FillsTyped'
  OBVIOUS
<1>1. CASE Settle
  <2>1. fills' = fills \/ \E r \in FillRecords : fills' = Append(fills, r)
    BY <1>1, SettleEffect
  <2>. QED
    BY <2>1, AppendProperties DEF FillsTyped
<1>2. CASE fills' = fills
  BY <1>2 DEF FillsTyped
<1>. QED
  BY <1>1, <1>2, RouteEffect
     DEF Next, vars, brokerVars, Settled, CycleRaises, Broker!SettleDone, Broker!SettleRaises,
         Advance

LEMMA DatedPreserved == Typed /\ FillsTyped /\ Dated /\ [Next]_vars => Dated'
<1>. SUFFICES ASSUME Typed, FillsTyped, Dated, [Next]_vars PROVE Dated'
  OBVIOUS
<1>0. /\ today \in Int /\ pending \in Seq(Broker!Orders) /\ unfilled \in Seq(Broker!Orders)
      /\ \A i \in 1..Len(pending) : pending[i].day \in Int
      /\ \A i \in 1..Len(unfilled) : unfilled[i].day \in Int
  <2>1. \A o \in Broker!Orders : o.day \in Int
    BY CalendarAssumption DEF Broker!Orders, Broker!Days
  <2>2. today \in Int /\ pending \in Seq(Broker!Orders) /\ unfilled \in Seq(Broker!Orders)
    BY CalendarAssumption DEF Typed, TypeOK
  <2>. QED
    BY <2>1, <2>2, ElementOfSeq
<1>1. CASE Settle
  <2>1. /\ phase = "settle" /\ next \in 1..Len(pending)
        /\ UNCHANGED <<today, phase>>
        /\ Len(pending') = Len(pending)
        /\ \A i \in 1..Len(pending) : pending'[i].day = pending[i].day
        /\ \/ unfilled' = Append(unfilled, pending[next]) /\ mishaps' = mishaps \cup {"gap"}
           \/ UNCHANGED <<unfilled, mishaps>>
    BY <1>1, SettleEffect
  <2>2. \A i \in 1..Len(unfilled') : unfilled'[i].day < today
    <3>1. CASE unfilled' = Append(unfilled, pending[next])
      BY <1>0, <2>1, <3>1 DEF Dated
    <3>2. CASE unfilled' = unfilled
      BY <3>2 DEF Dated
    <3>. QED
      BY <2>1, <3>1, <3>2
  <2>. QED
    BY <2>1, <2>2 DEF Dated
<1>2. CASE Settled \/ CycleRaises
  <2>1. /\ today' = today /\ phase = "settle" /\ phase' # "settle"
        /\ next' = 1 /\ unfilled' = <<>>
        /\ pending' = unfilled \/ pending' = pending
    BY <1>2 DEF Settled, CycleRaises, Broker!SettleDone, Broker!SettleRaises
  <2>2. \A i \in 1..Len(pending') : pending'[i].day <= today
    BY <1>0, <2>1 DEF Dated
  <2>. QED
    BY <2>1, <2>2 DEF Dated
<1>3. ASSUME NEW s \in Symbols,
             RouteNothing(s) \/ RouteBuy(s) \/ RouteTrim(s) \/ RouteExit(s)
      PROVE  Dated'
  <2>1. /\ phase = "route" /\ phase' # "settle"
        /\ UNCHANGED <<today, mishaps, next, unfilled>>
        /\ \/ UNCHANGED pending
           \/ \E o \in Broker!Orders : pending' = Append(pending, o) /\ o.day = today
    BY <1>3, RouteEffect
  <2>2. \A i \in 1..Len(pending') : pending'[i].day <= today
    <3>1. CASE UNCHANGED pending
      BY <3>1 DEF Dated
    <3>2. ASSUME NEW o \in Broker!Orders, pending' = Append(pending, o), o.day = today
          PROVE  \A i \in 1..Len(pending') : pending'[i].day <= today
      BY <1>0, <3>2 DEF Dated
    <3>. QED
      BY <2>1, <3>1, <3>2
  <2>. QED
    BY <2>1, <2>2 DEF Dated
<1>4. CASE Advance
  <2>1. /\ today < today' /\ today' \in Int /\ phase = "over"
        /\ UNCHANGED <<pending, unfilled, next, mishaps>>
    BY <1>4, CalendarAssumption DEF Advance, brokerVars
  <2>2. \A i \in 1..Len(pending') : pending'[i].day < today'
    BY <1>0, <2>1 DEF Dated
  <2>3. unfilled' = <<>>
    BY <2>1 DEF Dated
  <2>. QED
    BY <1>0, <2>1, <2>2, <2>3 DEF Dated
<1>5. CASE UNCHANGED vars
  BY <1>5 DEF vars, brokerVars, Dated
<1>. QED
  BY <1>1, <1>2, <1>3, <1>4, <1>5 DEF Next

LEMMA KnownPreserved == Typed /\ FillsTyped /\ Known /\ [Next]_vars => Known'
<1>. SUFFICES ASSUME Typed, FillsTyped, Known, [Next]_vars PROVE Known'
  OBVIOUS
<1>0. /\ lastOrder \in Nat /\ fills \in Seq(FillRecords)
      /\ pending \in Seq(Broker!Orders) /\ unfilled \in Seq(Broker!Orders)
  BY DEF Typed, TypeOK, FillsTyped
<1>9. /\ \A i \in 1..Len(pending) : pending[i].id \in Nat /\ pending[i].id <= lastOrder
      /\ \A i \in 1..Len(unfilled) : unfilled[i].id \in Nat /\ unfilled[i].id <= lastOrder
      /\ \A i \in 1..Len(fills) : fills[i].id \in Nat /\ fills[i].id <= lastOrder
  <2>1. \A o \in Broker!Orders : o.id \in Nat
    BY DEF Broker!Orders
  <2>2. \A r \in FillRecords : r.id \in Nat
    BY DEF FillRecords
  <2>. QED
    BY <1>0, <2>1, <2>2, ElementOfSeq DEF Known
<1>1. CASE Settle
  <2>1. /\ next \in 1..Len(pending) /\ UNCHANGED lastOrder
        /\ Len(pending') = Len(pending)
        /\ \A i \in 1..Len(pending) : pending'[i].id = pending[i].id
        /\ unfilled' = Append(unfilled, pending[next]) \/ UNCHANGED unfilled
        /\ \/ fills' = fills
           \/ \E r \in FillRecords : fills' = Append(fills, r) /\ r.id = pending[next].id
    BY <1>1, SettleEffect
  <2>2. \A i \in 1..Len(unfilled') : unfilled'[i].id <= lastOrder
    BY <1>0, <2>1 DEF Known
  <2>3. \A i \in 1..Len(fills') : fills'[i].id <= lastOrder
    <3>1. CASE fills' = fills
      BY <3>1 DEF Known
    <3>2. ASSUME NEW r \in FillRecords, fills' = Append(fills, r), r.id = pending[next].id
          PROVE  \A i \in 1..Len(fills') : fills'[i].id <= lastOrder
      BY <1>0, <1>9, <2>1, <3>2
    <3>. QED
      BY <2>1, <3>1, <3>2
  <2>. QED
    BY <2>1, <2>2, <2>3 DEF Known
<1>2. CASE Settled \/ CycleRaises
  <2>1. /\ unfilled' = <<>> /\ UNCHANGED <<lastOrder, fills>>
        /\ pending' = unfilled \/ pending' = pending
    BY <1>2 DEF Settled, CycleRaises, Broker!SettleDone, Broker!SettleRaises
  <2>. QED
    BY <2>1 DEF Known
<1>3. ASSUME NEW s \in Symbols,
             RouteNothing(s) \/ RouteBuy(s) \/ RouteTrim(s) \/ RouteExit(s)
      PROVE  Known'
  <2>1. /\ UNCHANGED <<unfilled, fills>>
        /\ \/ UNCHANGED <<pending, lastOrder>>
           \/ \E o \in Broker!Orders : /\ pending' = Append(pending, o) /\ o.id = lastOrder + 1
                                       /\ lastOrder' = lastOrder + 1
    BY <1>3, RouteEffect
  <2>2. CASE UNCHANGED <<pending, lastOrder>>
    BY <2>1, <2>2 DEF Known
  <2>3. ASSUME NEW o \in Broker!Orders, pending' = Append(pending, o), o.id = lastOrder + 1,
               lastOrder' = lastOrder + 1
        PROVE  Known'
    <3>1. \A i \in 1..Len(pending') : pending'[i].id <= lastOrder'
      BY <1>0, <1>9, <2>3
    <3>2. \A i \in 1..Len(unfilled') : unfilled'[i].id <= lastOrder'
      BY <1>0, <1>9, <2>1, <2>3
    <3>3. \A i \in 1..Len(fills') : fills'[i].id <= lastOrder'
      BY <1>0, <1>9, <2>1, <2>3
    <3>. QED
      BY <3>1, <3>2, <3>3 DEF Known
  <2>. QED
    BY <2>1, <2>2, <2>3
<1>4. CASE UNCHANGED <<pending, unfilled, fills, lastOrder>>
  BY <1>4 DEF Known
<1>. QED
  BY <1>1, <1>2, <1>3, <1>4 DEF Next, vars, Advance, brokerVars

LEMMA ApartSettle ==
  ASSUME Typed, FillsTyped, Apart, Settle
  PROVE  Apart'
<1>0. /\ fills \in Seq(FillRecords) /\ pending \in Seq(Broker!Orders) /\ unfilled \in Seq(Broker!Orders)
  BY DEF Typed, TypeOK, FillsTyped
<1>1. /\ next \in 1..Len(pending) /\ next' = next + 1
      /\ Len(pending') = Len(pending)
      /\ \A i \in 1..Len(pending) : pending'[i].id = pending[i].id
      /\ \/ unfilled' = Append(unfilled, pending[next]) /\ fills' = fills
         \/ /\ unfilled' = unfilled
            /\ \/ fills' = fills
               \/ \E r \in FillRecords : fills' = Append(fills, r) /\ r.id = pending[next].id
  BY SettleEffect
<1>2. /\ \A j \in (next + 1)..Len(pending) : j \in next..Len(pending) /\ j \in 1..Len(pending) /\ j # next
      /\ next' \in Nat /\ next \in next..Len(pending)
  BY <1>0, <1>1
<1>3. \A i, j \in 1..Len(pending') : pending'[i].id = pending'[j].id => i = j
  BY <1>1 DEF Apart
<1>4. \A j \in next'..Len(pending') : /\ j \in next..Len(pending)
                                      /\ pending'[j].id = pending[j].id
                                      /\ pending[j].id # pending[next].id
  BY <1>1, <1>2 DEF Apart
<1>5. CASE unfilled' = Append(unfilled, pending[next]) /\ fills' = fills
  <2>1. /\ Len(unfilled') = Len(unfilled) + 1 /\ Len(unfilled) \in Nat
        /\ \A i \in 1..Len(unfilled) : unfilled'[i].id = unfilled[i].id
        /\ unfilled'[Len(unfilled) + 1].id = pending[next].id
    BY <1>0, <1>5
  <2>2. \A i \in 1..Len(unfilled') : \/ i \in 1..Len(unfilled) /\ unfilled'[i].id = unfilled[i].id
                                     \/ i = Len(unfilled) + 1 /\ unfilled'[i].id = pending[next].id
    BY <2>1
  <2>3. \A i, j \in 1..Len(unfilled') : unfilled'[i].id = unfilled'[j].id => i = j
    BY <1>2, <2>2 DEF Apart
  <2>4. \A i \in 1..Len(fills'), j \in 1..Len(unfilled') : fills'[i].id # unfilled'[j].id
    BY <1>2, <1>5, <2>2 DEF Apart
  <2>5. \A j \in next'..Len(pending') : /\ \A i \in 1..Len(unfilled') : unfilled'[i].id # pending'[j].id
                                        /\ \A i \in 1..Len(fills') : fills'[i].id # pending'[j].id
    BY <1>4, <1>5, <2>2 DEF Apart
  <2>6. \A i, j \in 1..Len(fills') : fills'[i].id = fills'[j].id => i = j
    BY <1>5 DEF Apart
  <2>. QED
    BY <1>3, <2>3, <2>4, <2>5, <2>6 DEF Apart
<1>6. ASSUME NEW r \in FillRecords, unfilled' = unfilled, fills' = Append(fills, r),
             r.id = pending[next].id
      PROVE  Apart'
  <2>1. /\ Len(fills') = Len(fills) + 1 /\ Len(fills) \in Nat
        /\ \A i \in 1..Len(fills) : fills'[i].id = fills[i].id
        /\ fills'[Len(fills) + 1].id = pending[next].id
    BY <1>0, <1>6
  <2>2. \A i \in 1..Len(fills') : \/ i \in 1..Len(fills) /\ fills'[i].id = fills[i].id
                                  \/ i = Len(fills) + 1 /\ fills'[i].id = pending[next].id
    BY <2>1
  <2>9. /\ \A i \in 1..Len(fills) : fills[i].id # pending[next].id
        /\ \A i, j \in 1..Len(fills) : fills[i].id = fills[j].id => i = j
    BY <1>2 DEF Apart
  <2>3. \A i, j \in 1..Len(fills') : fills'[i].id = fills'[j].id => i = j
    BY <2>2, <2>9
  <2>4. \A i \in 1..Len(fills'), j \in 1..Len(unfilled') : fills'[i].id # unfilled'[j].id
    BY <1>2, <1>6, <2>2 DEF Apart
  <2>5. \A j \in next'..Len(pending') : /\ \A i \in 1..Len(unfilled') : unfilled'[i].id # pending'[j].id
                                        /\ \A i \in 1..Len(fills') : fills'[i].id # pending'[j].id
    BY <1>4, <1>6, <2>2 DEF Apart
  <2>6. \A i, j \in 1..Len(unfilled') : unfilled'[i].id = unfilled'[j].id => i = j
    BY <1>6 DEF Apart
  <2>. QED
    BY <1>3, <2>3, <2>4, <2>5, <2>6 DEF Apart
<1>7. CASE unfilled' = unfilled /\ fills' = fills
  <2>1. \A j \in next'..Len(pending') : /\ \A i \in 1..Len(unfilled') : unfilled'[i].id # pending'[j].id
                                        /\ \A i \in 1..Len(fills') : fills'[i].id # pending'[j].id
    BY <1>4, <1>7 DEF Apart
  <2>. QED
    BY <1>3, <1>7, <2>1 DEF Apart
<1>. QED
  BY <1>1, <1>5, <1>6, <1>7

LEMMA ApartPreserved == Orderly /\ [Next]_vars => OneOfEach'
<1>. SUFFICES ASSUME Orderly, [Next]_vars, "raise" \notin mishaps' PROVE Apart'
  BY DEF OneOfEach
<1>0. Apart /\ Typed /\ FillsTyped /\ Dated /\ Known
  <2>1. mishaps \subseteq mishaps'
    BY RouteEffect DEF Next, vars, Settle, Settled, CycleRaises, Advance, Orderly
  <2>. QED
    BY <2>1 DEF Orderly, OneOfEach
<1>1. CASE Settle
  BY <1>0, <1>1, ApartSettle
<1>2. CASE Settled \/ CycleRaises
  <2>1. /\ pending' = unfilled /\ unfilled' = <<>> /\ next' = 1 /\ fills' = fills
    BY <1>2 DEF Settled, CycleRaises, Broker!SettleDone
  <2>2. \A j \in 1..Len(unfilled) : \A i \in 1..Len(fills) : fills[i].id # unfilled[j].id
    BY <1>0 DEF Apart
  <2>. QED
    BY <1>0, <2>1, <2>2 DEF Apart
<1>3. ASSUME NEW s \in Symbols,
             RouteNothing(s) \/ RouteBuy(s) \/ RouteTrim(s) \/ RouteExit(s)
      PROVE  Apart'
  <2>1. /\ phase = "route" /\ UNCHANGED <<next, unfilled, fills>>
        /\ \/ UNCHANGED pending
           \/ \E o \in Broker!Orders : pending' = Append(pending, o) /\ o.id = lastOrder + 1
    BY <1>0, <1>3, RouteEffect
  <2>2. next = 1 /\ unfilled = <<>>
    BY <1>0, <2>1 DEF Dated
  <2>3. CASE UNCHANGED pending
    BY <1>0, <2>1, <2>3 DEF Apart
  <2>4. ASSUME NEW o \in Broker!Orders, pending' = Append(pending, o), o.id = lastOrder + 1
        PROVE  Apart'
    <3>1. /\ lastOrder \in Nat
          /\ \A i \in 1..Len(pending) : pending[i].id # lastOrder + 1
          /\ \A i \in 1..Len(fills) : fills[i].id # lastOrder + 1
      <4>1. lastOrder \in Nat /\ \A n \in Int : n <= lastOrder => n # lastOrder + 1
        BY <1>0 DEF Typed, TypeOK
      <4>2. \A i \in 1..Len(pending) : pending[i].id \in Nat
        <5>1. \A e \in Broker!Orders : e.id \in Nat
          BY DEF Broker!Orders
        <5>. QED
          BY <1>0, <5>1, ElementOfSeq DEF Typed, TypeOK
      <4>3. \A i \in 1..Len(fills) : fills[i].id \in Nat
        <5>1. \A e \in FillRecords : e.id \in Nat
          BY DEF FillRecords
        <5>. QED
          BY <1>0, <5>1, ElementOfSeq DEF FillsTyped
      <4>. QED
        BY <1>0, <4>1, <4>2, <4>3 DEF Known
    <3>2. /\ Len(pending') = Len(pending) + 1 /\ Len(pending) \in Nat
          /\ \A i \in 1..Len(pending) : pending'[i].id = pending[i].id
          /\ pending'[Len(pending) + 1].id = lastOrder + 1
      BY <1>0, <2>4 DEF Typed, TypeOK
    <3>3. \A i \in 1..Len(pending') : \/ i \in 1..Len(pending) /\ pending'[i].id = pending[i].id
                                      \/ i = Len(pending) + 1 /\ pending'[i].id = lastOrder + 1
      BY <3>2
    <3>4. \A i, j \in 1..Len(pending') : pending'[i].id = pending'[j].id => i = j
      BY <1>0, <3>1, <3>3 DEF Apart
    <3>5. \A j \in next'..Len(pending') : \A i \in 1..Len(fills') : fills'[i].id # pending'[j].id
      BY <1>0, <2>1, <2>2, <3>1, <3>3 DEF Apart
    <3>. QED
      BY <1>0, <2>1, <2>2, <3>4, <3>5 DEF Apart
  <2>. QED
    BY <2>1, <2>3, <2>4
<1>4. CASE UNCHANGED brokerVars
  BY <1>0, <1>4 DEF brokerVars, Apart
<1>. QED
  BY <1>1, <1>2, <1>3, <1>4 DEF Next, vars, Advance

LEMMA OrderlyAlways == Spec => []Orderly
<1>1. Orderly /\ [Next]_vars => Orderly'
  BY TypedPreserved, FillsTypedPreserved, DatedPreserved, KnownPreserved, ApartPreserved DEF Orderly
<1>. QED
  BY <1>1, OrderlyInit, PTL DEF Spec

(* broker.py, settle: in every fill model an order fills at most once, as  *)
(* long as settle has not raised half way through its queue.               *)
THEOREM FillsOnce == Spec => []FilledOnce
<1>1. Orderly => FilledOnce
  BY DEF Orderly, OneOfEach, Apart, FilledOnce
<1>. QED
  BY <1>1, OrderlyAlways, PTL

(* engine.py: settle runs before the cycle routes, so that no order fills  *)
(* on the day it was decided, whatever the fill model, the gaps and the    *)
(* cycles that raise.                                                      *)
THEOREM NeverLooksAhead == Spec => []NoLookAhead
<1>1. Init => NoLookAhead
  BY DEF Init, Broker!BrokerInit, NoLookAhead
<1>2. Orderly /\ NoLookAhead /\ [Next]_vars => NoLookAhead'
  <2>. SUFFICES ASSUME Orderly, NoLookAhead, [Next]_vars PROVE NoLookAhead'
    OBVIOUS
  <2>. USE DEF Orderly
  <2>1. CASE Settle
    <3>1. /\ phase = "settle" /\ next \in 1..Len(pending)
          /\ \/ fills' = fills
             \/ \E r \in FillRecords : /\ fills' = Append(fills, r)
                                       /\ r.decided = pending[next].day /\ r.at = today
      BY <2>1, SettleEffect
    <3>2. pending[next].day < today
      BY <3>1 DEF Dated
    <3>3. ASSUME NEW r \in FillRecords, fills' = Append(fills, r),
                 r.decided = pending[next].day, r.at = today
          PROVE  NoLookAhead'
      <4>1. /\ Len(fills') = Len(fills) + 1 /\ Len(fills) \in Nat
            /\ \A i \in 1..Len(fills) : fills'[i] = fills[i]
            /\ fills'[Len(fills) + 1] = r
        BY <3>3 DEF FillsTyped
      <4>. QED
        BY <3>2, <3>3, <4>1 DEF NoLookAhead
    <3>. QED
      BY <3>1, <3>3 DEF NoLookAhead
  <2>2. CASE fills' = fills
    BY <2>2 DEF NoLookAhead
  <2>. QED
    BY <2>1, <2>2, RouteEffect
       DEF Next, vars, brokerVars, Settled, CycleRaises, Broker!SettleDone, Broker!SettleRaises,
           Advance
<1>. QED
  BY <1>1, <1>2, OrderlyAlways, PTL DEF Spec

(* engine.py, "no open orders": once a cycle has settled, nothing of an    *)
(* earlier day is pending where no bar was missing and no cycle has raised.*)
LEMMA NoneLeftBehind == Spec => []NoneLeft
<1>1. Init => NoneLeft
  BY DEF Init, NoneLeft
<1>2. Orderly /\ NoneLeft /\ [Next]_vars => NoneLeft'
  <2>. SUFFICES ASSUME Orderly, NoneLeft, [Next]_vars, phase' = "route", mishaps' = {}
       PROVE  \A i \in 1..Len(pending') : pending'[i].day = today'
    BY DEF NoneLeft
  <2>. USE DEF Orderly
  <2>1. CASE Settle
    BY <2>1, SettleEffect
  <2>2. CASE Settled
    <3>1. mishaps = {} /\ pending' = unfilled
      BY <2>2 DEF Settled, Broker!SettleDone
    <3>. QED
      BY <3>1 DEF Dated
  <2>3. ASSUME NEW s \in Symbols,
               RouteNothing(s) \/ RouteBuy(s) \/ RouteTrim(s) \/ RouteExit(s)
        PROVE  \A i \in 1..Len(pending') : pending'[i].day = today'
    <3>1. /\ phase = "route" /\ UNCHANGED <<today, mishaps>>
          /\ \/ UNCHANGED pending
             \/ \E o \in Broker!Orders : pending' = Append(pending, o) /\ o.day = today
      BY <2>3, RouteEffect
    <3>2. \A i \in 1..Len(pending) : pending[i].day = today
      BY <3>1 DEF NoneLeft
    <3>3. ASSUME NEW o \in Broker!Orders, pending' = Append(pending, o), o.day = today
          PROVE  \A i \in 1..Len(pending') : pending'[i].day = today
      <4>1. /\ Len(pending') = Len(pending) + 1 /\ Len(pending) \in Nat
            /\ \A i \in 1..Len(pending) : pending'[i] = pending[i]
            /\ pending'[Len(pending) + 1] = o
        BY <3>3 DEF Typed, TypeOK
      <4>. QED
        BY <3>2, <3>3, <4>1
    <3>. QED
      BY <3>1, <3>2, <3>3
  <2>4. CASE CycleRaises \/ Advance
    BY <2>4 DEF CycleRaises, Advance
  <2>5. CASE UNCHANGED vars
    BY <2>5 DEF vars, brokerVars, NoneLeft
  <2>. QED
    BY <2>1, <2>2, <2>3, <2>4, <2>5 DEF Next
<1>. QED
  BY <1>1, <1>2, OrderlyAlways, PTL DEF Spec

(* settle drains the queue: an order that has filled has left it, and      *)
(* fills once, and after a settle without a mishap nothing stays behind.   *)
THEOREM QueueDrains == Spec => []QueueDrained
  BY FillsOnce, NoneLeftBehind, PTL DEF QueueDrained
-----------------------------------------------------------------------------
(* The sum over a list of amounts, without induction: a smallest           *)
(* counterexample would have one smaller.                                  *)
IsSum(g, v, n) == g = [i \in 0..n |-> IF i = 0 THEN 0 ELSE g[i - 1] + v[i]]

LEMMA SmallestBad ==
  ASSUME NEW Bad \in SUBSET Nat, \A n \in Bad : \E m \in Bad : m < n
  PROVE  Bad = {}
<1>. SUFFICES ASSUME Bad # {} PROVE FALSE
  OBVIOUS
<1>1. PICK n \in Bad : \A m \in Bad : ~(<<m, n>> \in OpToRel(<, Nat))
  BY WFMin, NatLessThanWellFounded
<1>2. PICK m \in Bad : m < n
  OBVIOUS
<1>3. m \in Nat /\ n \in Nat
  OBVIOUS
<1>. QED
  BY <1>1, <1>2, <1>3 DEF OpToRel

LEMMA SumExists ==
  ASSUME NEW v, NEW n \in Nat
  PROVE  \E g : IsSum(g, v, n)
<1>. DEFINE Bad == {m \in Nat : \A g : ~IsSum(g, v, m)}
<1>1. ASSUME NEW m \in Bad PROVE \E k \in Bad : k < m
  <2>1. CASE m = 0
    <3>. DEFINE z == [i \in 0..0 |-> 0]
    <3>1. IsSum(z, v, 0)
      BY DEF IsSum
    <3>. QED
      BY <2>1, <3>1
  <2>2. CASE m # 0
    <3>1. m - 1 \in Nat /\ m - 1 < m /\ m \in Nat
      BY <2>2
    <3>. SUFFICES ASSUME m - 1 \notin Bad PROVE FALSE
      BY <3>1
    <3>2. PICK g : IsSum(g, v, m - 1)
      BY <3>1
    <3>. DEFINE h == [i \in 0..m |-> IF i = 0 THEN 0 ELSE g[i - 1] + v[i]]
    <3>3. \A i \in 0..(m - 1) : h[i] = g[i]
      BY <3>1, <3>2 DEF IsSum
    <3>4. \A i \in 0..m : i # 0 => i - 1 \in 0..(m - 1)
      BY <3>1
    <3>5. h = [i \in 0..m |-> IF i = 0 THEN 0 ELSE h[i - 1] + v[i]]
      BY <3>3, <3>4
    <3>6. IsSum(h, v, m)
      BY <3>5 DEF IsSum
    <3>. QED
      BY <3>6
  <2>. QED
    BY <2>1, <2>2
<1>2. Bad = {}
  BY <1>1, SmallestBad
<1>. QED
  BY <1>2

LEMMA SumUnique ==
  ASSUME NEW v, NEW w, NEW m \in Nat, NEW n \in Nat, m <= n, NEW g, NEW h,
         IsSum(g, v, m), IsSum(h, w, n), \A i \in 1..m : v[i] = w[i]
  PROVE  \A i \in 0..m : g[i] = h[i]
<1>. DEFINE Bad == {i \in 0..m : g[i] # h[i]}
<1>1. ASSUME NEW i \in Bad PROVE \E k \in Bad : k < i
  <2>1. i \in 0..m /\ i \in 0..n
    OBVIOUS
  <2>2. i # 0
    BY <2>1 DEF IsSum
  <2>3. i - 1 \in 0..m /\ i - 1 < i /\ i \in 1..m
    BY <2>1, <2>2
  <2>4. g[i] = g[i - 1] + v[i] /\ h[i] = h[i - 1] + w[i]
    BY <2>1, <2>2 DEF IsSum
  <2>5. g[i - 1] # h[i - 1]
    BY <2>3, <2>4
  <2>. QED
    BY <2>3, <2>5
<1>2. Bad \in SUBSET Nat
  OBVIOUS
<1>3. Bad = {}
  <2>. HIDE DEF Bad
  <2>. QED
    BY <1>1, <1>2, SmallestBad
<1>. QED
  BY <1>3

LEMMA TotalDef ==
  ASSUME NEW v, Len(v) \in Nat
  PROVE  \E g : IsSum(g, v, Len(v)) /\ Total(v) = g[Len(v)]
<1>1. Total(v) = (CHOOSE g : IsSum(g, v, Len(v)))[Len(v)]
  BY DEF Total, IsSum
<1>2. IsSum(CHOOSE g : IsSum(g, v, Len(v)), v, Len(v))
  BY SumExists
<1>. QED
  BY <1>1, <1>2

LEMMA TotalEmpty == ASSUME NEW v, Len(v) = 0 PROVE Total(v) = 0
<1>1. PICK g : IsSum(g, v, 0) /\ Total(v) = g[0]
  BY TotalDef
<1>. QED
  BY <1>1 DEF IsSum

LEMMA TotalAppend ==
  ASSUME NEW v \in Seq(Int), NEW x \in Int
  PROVE  Total(Append(v, x)) = Total(v) + x
<1>. DEFINE w == Append(v, x)
            n == Len(v)
<1>1. /\ n \in Nat /\ Len(w) = n + 1 /\ n + 1 \in Nat /\ n <= n + 1
      /\ w[n + 1] = x /\ \A i \in 1..n : v[i] = w[i]
  OBVIOUS
<1>. HIDE DEF w, n
<1>2. PICK g : IsSum(g, v, n) /\ Total(v) = g[n]
  BY <1>1, TotalDef DEF n
<1>3. PICK h : IsSum(h, w, n + 1) /\ Total(w) = h[n + 1]
  BY <1>1, TotalDef
<1>4. g[n] = h[n]
  BY <1>1, <1>2, <1>3, SumUnique
<1>5. h[n + 1] = h[n] + x
  <2>1. n + 1 \in 0..(n + 1) /\ n + 1 # 0 /\ (n + 1) - 1 = n
    BY <1>1
  <2>2. h[n + 1] = h[(n + 1) - 1] + w[n + 1]
    BY <1>3, <2>1 DEF IsSum
  <2>. QED
    BY <1>1, <2>1, <2>2
<1>. QED
  BY <1>2, <1>3, <1>4, <1>5 DEF w

LEMMA TotalInt == ASSUME NEW v \in Seq(Int) PROVE Total(v) \in Int
<1>. DEFINE n == Len(v)
<1>1. n \in Nat /\ \A i \in 1..n : v[i] \in Int
  OBVIOUS
<1>2. PICK g : IsSum(g, v, n) /\ Total(v) = g[n]
  BY <1>1, TotalDef
<1>. HIDE DEF n
<1>. DEFINE Bad == {i \in 0..n : g[i] \notin Int}
<1>3. ASSUME NEW i \in Bad PROVE \E k \in Bad : k < i
  <2>1. i \in 0..n /\ i # 0
    BY <1>2 DEF IsSum
  <2>2. i - 1 \in 0..n /\ i - 1 < i /\ i \in 1..n
    BY <1>1, <2>1
  <2>3. g[i] = g[i - 1] + v[i] /\ v[i] \in Int
    BY <1>1, <1>2, <2>1, <2>2 DEF IsSum
  <2>4. g[i - 1] \notin Int
    BY <2>3
  <2>. QED
    BY <2>2, <2>4
<1>4. Bad \in SUBSET Nat
  BY <1>1
<1>5. Bad = {}
  <2>. HIDE DEF Bad
  <2>. QED
    BY <1>3, <1>4, SmallestBad
<1>6. n \in 0..n
  BY <1>1
<1>. QED
  BY <1>2, <1>5, <1>6

LEMMA PaidInt ==
  ASSUME FillsTyped
  PROVE  Total([i \in 1..Len(fills) |-> Paid(fills[i])]) \in Int
<1>1. Len(fills) \in Nat /\ \A i \in 1..Len(fills) : fills[i] \in FillRecords
  BY ElementOfSeq DEF FillsTyped
<1>2. \A f \in FillRecords : Paid(f) \in Int
  <2>1. ASSUME NEW f \in FillRecords PROVE Paid(f) \in Int
    <3>1. f.qty \in Nat /\ f.price \in Nat
      BY DEF FillRecords
    <3>2. f.qty * f.price \in Nat
      BY <3>1, NatProduct
    <3>. QED
      BY <3>2 DEF Paid
  <2>. QED
    BY <2>1
<1>3. [i \in 1..Len(fills) |-> Paid(fills[i])] \in Seq(Int)
  BY <1>1, <1>2
<1>. QED
  BY <1>3, TotalInt

(* What one more fill adds to the report.                                  *)
LEMMA ReportAppend ==
  ASSUME FillsTyped, NEW r \in FillRecords, fills' = Append(fills, r)
  PROVE  /\ \A s \in Symbols : SharesReported(s)' = SharesReported(s) + Bought(r, s)
         /\ Total([i \in 1..Len(fills) |-> Paid(fills[i])])'
                = Total([i \in 1..Len(fills) |-> Paid(fills[i])]) + Paid(r)
<1>1. /\ fills \in Seq(FillRecords) /\ Len(fills') = Len(fills) + 1 /\ Len(fills) \in Nat
      /\ \A i \in 1..Len(fills) : fills'[i] = fills[i] /\ fills[i] \in FillRecords
      /\ fills'[Len(fills) + 1] = r
  BY ElementOfSeq DEF FillsTyped
<1>2. ASSUME NEW f \in FillRecords, NEW s \in Symbols
      PROVE  Bought(f, s) \in Int /\ Paid(f) \in Int
  <2>1. f.qty \in Nat /\ f.price \in Nat
    BY DEF FillRecords
  <2>2. f.qty * f.price \in Nat
    BY <2>1, NatProduct
  <2>. QED
    BY <2>1, <2>2 DEF Bought, Paid
<1>3. ASSUME NEW s \in Symbols
      PROVE  SharesReported(s)' = SharesReported(s) + Bought(r, s)
  <2>. DEFINE v == [i \in 1..Len(fills) |-> Bought(fills[i], s)]
              w == [i \in 1..Len(fills') |-> Bought(fills'[i], s)]
              x == Bought(r, s)
  <2>1. v \in Seq(Int) /\ x \in Int
    BY <1>1, <1>2
  <2>2. w = Append(v, x)
    BY <1>1
  <2>3. SharesReported(s) = Total(v) /\ SharesReported(s)' = Total(w)
    BY DEF SharesReported
  <2>. HIDE DEF v, w, x
  <2>4. Total(w) = Total(v) + x
    BY <2>1, <2>2, TotalAppend
  <2>. QED
    BY <2>3, <2>4 DEF x
<1>4. Total([i \in 1..Len(fills) |-> Paid(fills[i])])'
          = Total([i \in 1..Len(fills) |-> Paid(fills[i])]) + Paid(r)
  <2>. DEFINE v == [i \in 1..Len(fills) |-> Paid(fills[i])]
              w == [i \in 1..Len(fills') |-> Paid(fills'[i])]
              x == Paid(r)
  <2>1. v \in Seq(Int) /\ x \in Int
    <3>1. \A f \in FillRecords : f.sym \in Symbols /\ Paid(f) \in Int
      BY <1>2 DEF FillRecords
    <3>. QED
      BY <1>1, <3>1
  <2>2. w = Append(v, x)
    BY <1>1
  <2>3. Total([i \in 1..Len(fills) |-> Paid(fills[i])])' = Total(w)
    OBVIOUS
  <2>. HIDE DEF w, x
  <2>4. Total(w) = Total(v) + x
    <3>. HIDE DEF v
    <3>. QED
      BY <2>1, <2>2, TotalAppend
  <2>. QED
    BY <2>3, <2>4 DEF x
<1>. QED
  BY <1>3, <1>4

(* Where nothing waits for a bar, one order a symbol is pending, and a     *)
(* sell asks for what is held, or less.                                    *)
Lined ==
    /\ \A i, j \in 1..Len(pending) : pending[i].sym = pending[j].sym => i = j
    /\ \A j \in 1..Len(pending) : j >= next /\ pending[j].side = "sell" =>
           /\ 0 < pending[j].qty /\ pending[j].qty <= pos[pending[j].sym]
           /\ pending[j].exit => pending[j].qty = pos[pending[j].sym]
    /\ phase = "route" => \A j \in 1..Len(pending) : pending[j].sym \notin todo

(* A fill is reported as it was made.                                      *)
Booked(r) ==
    /\ r \in FillRecords /\ fills' = Append(fills, r)
    /\ pos' = [pos EXCEPT ![r.sym] = @ + Bought(r, r.sym)]
    /\ cash' = cash - Paid(r)

LEMMA SettleBooks ==
  ASSUME Typed, Lined, Settle, mishaps' = {}
  PROVE  /\ phase' = phase /\ next \in 1..Len(pending) /\ next' = next + 1
         /\ Len(pending') = Len(pending)
         /\ \A j \in 1..Len(pending) : pending'[j].sym = pending[j].sym
                                       /\ (j # next => pending'[j] = pending[j])
         /\ \A s \in Symbols : s # pending[next].sym => pos'[s] = pos[s]
         /\ \/ \E r \in FillRecords : Booked(r)
            \/ UNCHANGED <<fills, pos, cash>>
<1>. USE DEF Typed, TypeOK
<1>. DEFINE o == pending[next]
            price == Broker!Price
<1>0. /\ phase' = phase /\ next \in 1..Len(pending) /\ next' = next + 1
      /\ Broker!FillBuy \/ Broker!FillSell
  BY DEF Settle, Broker!KeepOrder, Broker!FillBuy, Broker!FillSell
<1>1. /\ Broker!Order = o /\ o \in Broker!Orders
      /\ price \in Nat /\ today \in Days
  BY <1>0, OrderType, CalendarAssumption DEF Broker!Order, Days
<1>2. /\ o.qty \in Nat /\ o.sym \in Symbols /\ o.side \in Broker!Sides
      /\ o.id \in Nat /\ o.day \in Broker!Days
  BY <1>1 DEF Broker!Orders
<1>3. ASSUME NEW q \in Nat, Broker!Report(q)
      PROVE  \E r \in FillRecords : /\ fills' = Append(fills, r) /\ r.sym = o.sym
                                    /\ r.side = o.side /\ r.qty = q /\ r.price = price
  <2>. DEFINE r == [id |-> o.id, sym |-> o.sym, side |-> o.side, qty |-> q,
                    price |-> price, decided |-> o.day, at |-> today]
  <2>1. fills' = Append(fills, r)
    BY <1>1, <1>3 DEF Broker!Report
  <2>2. r \in FillRecords
    BY <1>1, <1>2 DEF FillRecords, Broker!Days, Days
  <2>3. r.sym = o.sym /\ r.side = o.side /\ r.qty = q /\ r.price = price
    OBVIOUS
  <2>. HIDE DEF r, o, price
  <2>. QED
    BY <2>1, <2>2, <2>3
<1>4. CASE Broker!FillBuy
  <2>1. PICK q \in 0..o.qty :
           /\ cash' = cash - q * price
           /\ pos' = [pos EXCEPT ![o.sym] = @ + q]
           /\ IF q > 0 THEN Broker!Report(q) /\ pending' = [pending EXCEPT ![next].qty = q]
                       ELSE UNCHANGED <<fills, pending>>
    BY <1>1, <1>4 DEF Broker!FillBuy
  <2>2. q \in Nat /\ o.side = "buy"
    BY <1>1, <1>2, <1>4, <2>1 DEF Broker!FillBuy
  <2>3. /\ Len(pending') = Len(pending)
        /\ \A j \in 1..Len(pending) : pending'[j].sym = pending[j].sym
                                      /\ (j # next => pending'[j] = pending[j])
    <3>1. CASE pending' = [pending EXCEPT ![next].qty = q]
      <4>. DEFINE e == [pending[next] EXCEPT !.qty = q]
      <4>1. e.sym = pending[next].sym
        BY <1>1 DEF Broker!Orders
      <4>2. pending' = [pending EXCEPT ![next] = e] /\ pending \in Seq(Broker!Orders)
        BY <3>1
      <4>. HIDE DEF e
      <4>. QED
        BY <1>0, <4>1, <4>2
    <3>2. CASE UNCHANGED pending
      BY <3>2
    <3>. QED
      BY <2>1, <3>1, <3>2
  <2>4. \A s \in Symbols : s # o.sym => pos'[s] = pos[s]
    BY <2>1
  <2>5. ASSUME q > 0 PROVE \E r \in FillRecords : Booked(r)
    <3>1. PICK r \in FillRecords : /\ fills' = Append(fills, r) /\ r.sym = o.sym
                                   /\ r.side = o.side /\ r.qty = q /\ r.price = price
      BY <1>3, <2>1, <2>2, <2>5
    <3>2. Bought(r, r.sym) = q /\ Paid(r) = q * price
      BY <2>2, <3>1 DEF Bought, Paid
    <3>. QED
      BY <2>1, <3>1, <3>2 DEF Booked
  <2>6. ASSUME q = 0 PROVE UNCHANGED <<fills, pos, cash>>
    <3>1. 0 * price = 0 /\ cash - 0 = cash
      BY <1>1
    <3>2. cash' = cash
      BY <2>1, <2>6, <3>1
    <3>3. pos' = pos
      BY <1>2, <2>1, <2>6
    <3>. QED
      BY <2>1, <2>6, <3>2, <3>3
  <2>. HIDE DEF o, price
  <2>. QED
    BY <1>0, <2>2, <2>3, <2>4, <2>5, <2>6 DEF o
<1>5. CASE Broker!FillSell
  <2>0. o.side = "sell"
    BY <1>1, <1>5 DEF Broker!FillSell
  <2>1. /\ 0 < o.qty /\ o.qty <= pos[o.sym]
        /\ o.exit => o.qty = pos[o.sym]
    <3>1. next \in Nat /\ next >= next
      BY <1>0
    <3>. QED
      BY <1>0, <2>0, <3>1, Zenon DEF Lined
  <2>2. Broker!SharesSold(o) = o.qty /\ pos[o.sym] > 0 /\ pos[o.sym] \in Nat
    BY <1>2, <2>1 DEF Broker!SharesSold
  <2>3. /\ cash' = cash + o.qty * price
        /\ pos' = [pos EXCEPT ![o.sym] = @ - o.qty]
        /\ Broker!Report(o.qty) /\ pending' = pending
    BY <1>1, <1>5, <2>2 DEF Broker!FillSell
  <2>4. PICK r \in FillRecords : /\ fills' = Append(fills, r) /\ r.sym = o.sym
                                 /\ r.side = o.side /\ r.qty = o.qty /\ r.price = price
    BY <1>2, <1>3, <2>3
  <2>5. Bought(r, r.sym) = -o.qty /\ Paid(r) = -(o.qty * price)
    BY <2>0, <2>4 DEF Bought, Paid
  <2>6. Booked(r)
    <3>1. o.qty * price \in Nat
      BY <1>1, <1>2, NatProduct
    <3>2. cash' = cash - Paid(r)
      BY <2>3, <2>5, <3>1
    <3>3. pos[o.sym] + (-o.qty) = pos[o.sym] - o.qty
      BY <1>2, <2>2
    <3>4. pos' = [pos EXCEPT ![r.sym] = @ + Bought(r, r.sym)]
      BY <2>3, <2>4, <2>5, <3>3
    <3>. QED
      BY <2>4, <3>2, <3>4 DEF Booked
  <2>7. \A s \in Symbols : s # o.sym => pos'[s] = pos[s]
    BY <2>3
  <2>. HIDE DEF price
  <2>. QED
    BY <1>0, <2>3, <2>6, <2>7
<1>. QED
  BY <1>0, <1>4, <1>5

(* What routing a symbol queues: for that symbol, and a sell for what is   *)
(* held, or less.                                                          *)
LEMMA RouteLines ==
  ASSUME Typed, NEW s \in Symbols,
         RouteNothing(s) \/ RouteBuy(s) \/ RouteTrim(s) \/ RouteExit(s)
  PROVE  /\ s \in todo /\ todo' = todo \ {s} /\ UNCHANGED <<cash, pos>>
         /\ \/ UNCHANGED pending
            \/ \E o \in Broker!Orders :
                  /\ pending' = Append(pending, o) /\ o.sym = s
                  /\ o.side = "sell" => /\ 0 < o.qty /\ o.qty <= pos[s]
                                        /\ o.exit => o.qty = pos[s]
<1>1. s \in todo /\ todo' = todo \ {s}
  BY DEF RouteNothing, RouteBuy, RouteTrim, RouteExit, Routed
<1>2. ASSUME NEW side \in Broker!Sides, NEW qty \in Nat, NEW exit \in BOOLEAN,
             Broker!Queue(s, side, qty, exit),
             side = "sell" => 0 < qty /\ qty <= pos[s],
             side = "sell" /\ exit => qty = pos[s]
      PROVE  /\ UNCHANGED <<cash, pos>>
             /\ \E o \in Broker!Orders :
                  /\ pending' = Append(pending, o) /\ o.sym = s
                  /\ o.side = "sell" => /\ 0 < o.qty /\ o.qty <= pos[s]
                                        /\ o.exit => o.qty = pos[s]
  <2>. DEFINE o == [id |-> lastOrder + 1, sym |-> s, side |-> side,
                    qty |-> qty, exit |-> exit, day |-> today]
  <2>1. o \in Broker!Orders
    BY CalendarAssumption DEF Typed, TypeOK, Broker!Orders, Broker!Days, Days
  <2>2. o.sym = s /\ o.side = side /\ o.qty = qty /\ o.exit = exit
    BY Zenon
  <2>3. pending' = Append(pending, o) /\ UNCHANGED <<cash, pos>>
    BY <1>2 DEF Broker!Queue
  <2>. HIDE DEF o
  <2>4. /\ o.side = "sell" => 0 < o.qty /\ o.qty <= pos[s]
        /\ o.side = "sell" /\ o.exit => o.qty = pos[s]
    BY <1>2, <2>2, Zenon
  <2>. QED
    BY <2>1, <2>2, <2>3, <2>4
<1>3. CASE RouteNothing(s)
  BY <1>1, <1>3 DEF RouteNothing, brokerVars
<1>4. CASE RouteBuy(s)
  <2>1. PICK qty \in 1..MaxQty : Broker!Queue(s, "buy", qty, FALSE)
    BY <1>4 DEF RouteBuy, Broker!SubmitMarket
  <2>2. qty \in Nat /\ FALSE \in BOOLEAN /\ "buy" \in Broker!Sides /\ "buy" # "sell"
    BY BacktestAssumption DEF Broker!Sides
  <2>. QED
    BY <1>1, <1>2, <2>1, <2>2
<1>5. CASE RouteTrim(s)
  <2>1. PICK qty \in 1..MaxQty : qty < pos[s] /\ Broker!Queue(s, "sell", qty, FALSE)
    BY <1>5 DEF RouteTrim, Broker!SubmitMarket
  <2>2. /\ qty \in Nat /\ FALSE \in BOOLEAN /\ "sell" \in Broker!Sides
        /\ 0 < qty /\ qty <= pos[s]
    BY <2>1, BacktestAssumption DEF Broker!Sides, Typed, TypeOK
  <2>. QED
    BY <1>1, <1>2, <2>1, <2>2
<1>6. CASE RouteExit(s)
  <2>1. Broker!Queue(s, "sell", pos[s], TRUE) /\ pos[s] > 0
    BY <1>6 DEF RouteExit, Broker!ClosePosition
  <2>2. /\ pos[s] \in Nat /\ TRUE \in BOOLEAN /\ "sell" \in Broker!Sides
        /\ 0 < pos[s] /\ pos[s] <= pos[s]
    BY <2>1 DEF Broker!Sides, Typed, TypeOK
  <2>. QED
    BY <1>1, <1>2, <2>1, <2>2
<1>. QED
  BY <1>3, <1>4, <1>5, <1>6

LEMMA MishapsStay == Typed /\ [Next]_vars /\ mishaps' = {} => mishaps = {}
  BY RouteEffect DEF Next, vars, Settle, Settled, CycleRaises, Advance

AllLined == mishaps = {} => Lined

LEMMA LinedPreserved == Typed /\ FillsTyped /\ Dated /\ AllLined /\ [Next]_vars => AllLined'
<1>. SUFFICES ASSUME Typed, FillsTyped, Dated, AllLined, [Next]_vars, mishaps' = {}
     PROVE  Lined'
  BY DEF AllLined
<1>0. /\ mishaps = {} /\ Lined /\ unfilled = <<>>
      /\ pending \in Seq(Broker!Orders) /\ next \in Nat
  BY MishapsStay DEF AllLined, Dated, Typed, TypeOK
<1>1. CASE Settle
  <2>. DEFINE k == next
  <2>1. /\ phase' = phase /\ phase = "settle"
        /\ k \in 1..Len(pending) /\ next' = k + 1
        /\ Len(pending') = Len(pending)
        /\ \A j \in 1..Len(pending) : pending'[j].sym = pending[j].sym
                                      /\ (j # k => pending'[j] = pending[j])
        /\ \A s \in Symbols : s # pending[k].sym => pos'[s] = pos[s]
    BY <1>0, <1>1, SettleBooks, SettleEffect
  <2>2. \A i, j \in 1..Len(pending') : pending'[i].sym = pending'[j].sym => i = j
    BY <1>0, <2>1 DEF Lined
  <2>3. ASSUME NEW j \in 1..Len(pending'), j >= next', pending'[j].side = "sell"
        PROVE  /\ 0 < pending'[j].qty /\ pending'[j].qty <= pos'[pending'[j].sym]
               /\ pending'[j].exit => pending'[j].qty = pos'[pending'[j].sym]
    <3>1. j \in 1..Len(pending) /\ j >= k /\ j # k
      BY <1>0, <2>1, <2>3
    <3>2. pending'[j] = pending[j] /\ pending[j].sym # pending[k].sym
      BY <1>0, <2>1, <3>1 DEF Lined
    <3>3. pending[j].sym \in Symbols
      <4>1. pending[j] \in Broker!Orders
        BY <1>0, <3>1, ElementOfSeq
      <4>. QED
        BY <4>1 DEF Broker!Orders
    <3>4. pos'[pending[j].sym] = pos[pending[j].sym]
      BY <2>1, <3>2, <3>3
    <3>5. pending[j].side = "sell"
      BY <2>3, <3>2
    <3>6. /\ 0 < pending[j].qty /\ pending[j].qty <= pos[pending[j].sym]
          /\ pending[j].exit => pending[j].qty = pos[pending[j].sym]
      BY <1>0, <3>1, <3>5, Zenon DEF Lined
    <3>. QED
      BY <3>2, <3>4, <3>6, Zenon
  <2>. QED
    BY <2>1, <2>2, <2>3, Zenon DEF Lined
<1>2. CASE Settled \/ CycleRaises
  <2>1. pending' = <<>>
    BY <1>0, <1>2 DEF Settled, CycleRaises, Broker!SettleDone
  <2>. QED
    BY <2>1 DEF Lined
<1>3. ASSUME NEW s \in Symbols,
             RouteNothing(s) \/ RouteBuy(s) \/ RouteTrim(s) \/ RouteExit(s)
      PROVE  Lined'
  <2>1. /\ s \in todo /\ todo' = todo \ {s} /\ pos' = pos
        /\ \/ UNCHANGED pending
           \/ \E o \in Broker!Orders :
                 /\ pending' = Append(pending, o) /\ o.sym = s
                 /\ o.side = "sell" => /\ 0 < o.qty /\ o.qty <= pos[s]
                                       /\ o.exit => o.qty = pos[s]
    BY <1>3, RouteLines
  <2>2. phase = "route" /\ next' = next /\ next = 1
    BY <1>3, RouteEffect DEF Dated
  <2>3. CASE UNCHANGED pending
    BY <1>0, <2>1, <2>2, <2>3, Zenon DEF Lined
  <2>4. ASSUME NEW o \in Broker!Orders, pending' = Append(pending, o), o.sym = s,
               o.side = "sell" => 0 < o.qty /\ o.qty <= pos[s] /\ (o.exit => o.qty = pos[s])
        PROVE  Lined'
    <3>1. /\ Len(pending') = Len(pending) + 1 /\ Len(pending) \in Nat
          /\ \A i \in 1..Len(pending) : pending'[i] = pending[i]
          /\ pending'[Len(pending) + 1] = o
      BY <1>0, <2>4
    <3>2. \A i \in 1..Len(pending') : \/ i \in 1..Len(pending) /\ pending'[i] = pending[i]
                                      \/ i = Len(pending) + 1 /\ pending'[i] = o
      BY <3>1
    <3>3. \A i \in 1..Len(pending) : pending[i].sym # s
      BY <1>0, <2>1, <2>2 DEF Lined
    <3>4. \A i, j \in 1..Len(pending') : pending'[i].sym = pending'[j].sym => i = j
      BY <1>0, <2>4, <3>2, <3>3 DEF Lined
    <3>5. \A i \in 1..Len(pending') : pending'[i].sym \notin todo'
      BY <1>0, <2>1, <2>2, <2>4, <3>2 DEF Lined
    <3>6. ASSUME NEW j \in 1..Len(pending'), pending'[j].side = "sell"
          PROVE  /\ 0 < pending'[j].qty /\ pending'[j].qty <= pos'[pending'[j].sym]
                 /\ pending'[j].exit => pending'[j].qty = pos'[pending'[j].sym]
      <4>1. CASE j \in 1..Len(pending) /\ pending'[j] = pending[j]
        <5>1. j >= next /\ pending[j].side = "sell"
          BY <2>2, <3>6, <4>1
        <5>2. /\ 0 < pending[j].qty /\ pending[j].qty <= pos[pending[j].sym]
              /\ pending[j].exit => pending[j].qty = pos[pending[j].sym]
          BY <1>0, <4>1, <5>1, Zenon DEF Lined
        <5>. QED
          BY <2>1, <4>1, <5>2, Zenon
      <4>2. CASE pending'[j] = o
        BY <2>1, <2>4, <3>6, <4>2, Zenon
      <4>. QED
        BY <3>2, <4>1, <4>2
    <3>. QED
      BY <3>4, <3>5, <3>6, Zenon DEF Lined
  <2>. QED
    BY <2>1, <2>3, <2>4
<1>4. CASE Advance
  <2>1. phase' # "route" /\ UNCHANGED <<pending, pos, next>>
    BY <1>4 DEF Advance, brokerVars
  <2>. QED
    BY <1>0, <2>1, Zenon DEF Lined
<1>5. CASE UNCHANGED vars
  BY <1>0, <1>5, Zenon DEF vars, brokerVars, Lined
<1>. QED
  BY <1>1, <1>2, <1>3, <1>4, <1>5 DEF Next

LEMMA LedgerPreserved ==
  Orderly /\ AllLined /\ LedgerMatches /\ [Next]_vars => LedgerMatches'
<1>. SUFFICES ASSUME Orderly, AllLined, LedgerMatches, [Next]_vars, mishaps' = {}
     PROVE  /\ \A s \in Symbols : pos'[s] = SharesReported(s)'
            /\ cash' = CashReported'
  BY DEF LedgerMatches
<1>. USE DEF Orderly
<1>0. /\ mishaps = {} /\ Lined
      /\ \A s \in Symbols : pos[s] = SharesReported(s)
      /\ cash = CashReported
  BY MishapsStay DEF AllLined, LedgerMatches
<1>1. ASSUME UNCHANGED <<fills, pos, cash>>
      PROVE  /\ \A s \in Symbols : pos'[s] = SharesReported(s)'
             /\ cash' = CashReported'
  BY <1>0, <1>1 DEF SharesReported, CashReported
<1>2. ASSUME NEW r \in FillRecords, Booked(r)
      PROVE  /\ \A s \in Symbols : pos'[s] = SharesReported(s)'
             /\ cash' = CashReported'
  <2>. DEFINE paid == Total([i \in 1..Len(fills) |-> Paid(fills[i])])
  <2>1. /\ \A s \in Symbols : SharesReported(s)' = SharesReported(s) + Bought(r, s)
        /\ paid' = paid + Paid(r)
    BY <1>2, ReportAppend DEF Booked
  <2>2. ASSUME NEW s \in Symbols PROVE pos'[s] = pos[s] + Bought(r, s)
    <3>1. pos[s] \in Nat /\ pos[s] + 0 = pos[s]
      BY DEF Typed, TypeOK
    <3>2. pos' = [pos EXCEPT ![r.sym] = @ + Bought(r, r.sym)] /\ pos \in [Symbols -> Nat]
      BY <1>2 DEF Booked, Typed, TypeOK
    <3>3. CASE s = r.sym
      BY <3>2, <3>3
    <3>4. CASE s # r.sym
      <4>1. Bought(r, s) = 0
        BY <3>4 DEF Bought
      <4>. QED
        BY <3>1, <3>2, <3>4, <4>1
    <3>. QED
      BY <3>3, <3>4
  <2>3. cash' = CashReported'
    <3>1. cash' = cash - Paid(r) /\ cash = InitialCash - paid /\ CashReported' = InitialCash - paid'
      BY <1>0, <1>2 DEF Booked, CashReported
    <3>2. InitialCash \in Nat /\ Paid(r) \in Int /\ paid \in Int
      <4>1. r.qty \in Nat /\ r.price \in Nat
        BY DEF FillRecords
      <4>2. r.qty * r.price \in Nat
        BY <4>1, NatProduct
      <4>3. Paid(r) \in Int
        BY <4>2 DEF Paid
      <4>4. paid \in Int
        BY PaidInt
      <4>5. InitialCash \in Nat
        BY BacktestAssumption
      <4>. QED
        BY <4>3, <4>4, <4>5
    <3>. HIDE DEF paid
    <3>. QED
      BY <2>1, <3>1, <3>2
  <2>. QED
    BY <1>0, <2>1, <2>2, <2>3
<1>3. CASE Settle
  BY <1>0, <1>1, <1>2, <1>3, SettleBooks
<1>4. CASE ~Settle
  <2>1. UNCHANGED <<fills, pos, cash>>
    BY <1>4, RouteEffect, RouteLines
       DEF Next, vars, brokerVars, Settled, CycleRaises, Broker!SettleDone,
           Broker!SettleRaises, Advance
  <2>. QED
    BY <1>1, <2>1
<1>. QED
  BY <1>3, <1>4

(* broker.py, SimBrokerFill: as long as no order has met a missing bar and *)
(* no cycle has raised, the fills as reported account for every share held *)
(* and for the whole of the cash, in every fill model.                     *)
THEOREM LedgerBalances == Spec => []LedgerMatches
<1>1. Init => AllLined /\ LedgerMatches
  <2>. SUFFICES ASSUME Init PROVE AllLined /\ LedgerMatches
    OBVIOUS
  <2>1. /\ pending = <<>> /\ fills = <<>> /\ cash = InitialCash
        /\ pos = [s \in Symbols |-> 0]
    BY DEF Init, Broker!BrokerInit
  <2>2. Len([i \in 1..Len(fills) |-> Paid(fills[i])]) = 0
    BY <2>1
  <2>3. ASSUME NEW s \in Symbols PROVE SharesReported(s) = 0
    <3>1. Len([i \in 1..Len(fills) |-> Bought(fills[i], s)]) = 0
      BY <2>1
    <3>. QED
      BY <3>1, TotalEmpty DEF SharesReported
  <2>4. CashReported = InitialCash
    BY <2>2, TotalEmpty, BacktestAssumption DEF CashReported
  <2>5. AllLined
    BY <2>1, EmptySeq DEF AllLined, Lined
  <2>. QED
    BY <2>1, <2>3, <2>4, <2>5 DEF LedgerMatches
<1>2. Orderly /\ AllLined /\ LedgerMatches /\ [Next]_vars => (AllLined /\ LedgerMatches)'
  BY LinedPreserved, LedgerPreserved DEF Orderly
<1>. QED
  BY <1>1, <1>2, OrderlyAlways, PTL DEF Spec
===============================================================================
