------------------------------- MODULE Backtest -------------------------------
(***************************************************************************)
(* backtest/engine.py: the cycle of the main curve on every trading day.   *)
(* settle the orders of the days before, note the buys to the PDT tracker, *)
(* route today's orders through the PDT gate.  Signals and weights are     *)
(* abstracted to what they ask of the router: any order for any symbol.    *)
(***************************************************************************)
EXTENDS PDTTracker

CONSTANTS InitialCash, FillModel, Haircut, Prices, WallBar,
          MaxQty,       \* bound: shares of an order
          MaxOrders,    \* bound: orders of a run
          Gaps,         \* TRUE: a symbol may have no bar on a trading day
          Raises        \* TRUE: a call to the database may raise

ASSUME BacktestAssumption ==
    /\ TradingDays # {}                   \* SimClock refuses an empty window
    /\ InitialCash \in Nat /\ WallBar \in Nat
    /\ FillModel \in {"next_open", "vwap", "delayed_mid", "close"}
    /\ Prices \subseteq Nat \ {0}
    /\ Haircut \in Nat /\ \A p \in Prices : Haircut < p
    /\ MaxQty \in Nat /\ MaxOrders \in Nat
    /\ Gaps \in BOOLEAN /\ Raises \in BOOLEAN

VARIABLES today, bars, cash, pos, lastOrder, pending, next, unfilled, fills,
          phase,        \* "settle", "route" or "over"
          todo,         \* symbols the router has not reached
          mishaps       \* history: a bar was missing, settle has raised

Broker == INSTANCE SimBroker

brokerVars == <<cash, pos, lastOrder, pending, next, unfilled, fills>>
vars == <<today, bars, brokerVars, phase, todo, mishaps, pdtVars>>

Mishaps == {"gap", "raise"}
BarsOfADay == [Symbols -> Prices \cup (IF Gaps THEN {Broker!NoBar} ELSE {})]

Init ==
    /\ today \in TradingDays /\ \A d \in TradingDays : today <= d
    /\ bars \in BarsOfADay
    /\ Broker!BrokerInit
    /\ PDTInit
    /\ phase = "settle" /\ todo = {} /\ mishaps = {}
-----------------------------------------------------------------------------
Settle ==
    /\ phase = "settle"
    /\ \/ Broker!KeepOrder /\ mishaps' = mishaps \cup {"gap"}
       \/ (Broker!FillBuy \/ Broker!FillSell) /\ UNCHANGED mishaps
    /\ UNCHANGED <<today, bars, phase, todo, pdtVars>>

(* Every buy that settle returned opens its position for the tracker.      *)
NoteBuys ==
    /\ openDates' = [s \in Symbols |->
           IF /\ openDates[s] = NoDate
              /\ \E i \in 1..Len(fills) :
                     fills[i].at = today /\ fills[i].sym = s /\ fills[i].side = "buy"
           THEN today ELSE openDates[s]]
    /\ UNCHANGED trades

(* Then the cycle goes on to its orders, unless there is nothing to work   *)
(* on or a later step raises.                                              *)
Settled ==
    /\ phase = "settle"
    /\ Broker!SettleDone
    /\ NoteBuys
    /\ \/ phase' = "route" /\ todo' = Symbols
       \/ phase' = "over" /\ UNCHANGED todo
    /\ UNCHANGED <<today, bars, mishaps>>

(* The cycle raises in settle, or as the fills it returned are stored.     *)
(* run() logs the exception and goes on with the next day.                 *)
CycleRaises ==
    /\ phase = "settle" /\ Raises
    /\ \/ Broker!SettleRaises /\ mishaps' = mishaps \cup {"raise"}
       \/ Broker!SettleDone /\ UNCHANGED mishaps
    /\ phase' = "over"
    /\ UNCHANGED <<today, bars, todo, pdtVars>>

Routed(s) ==
    /\ phase = "route" /\ s \in todo
    /\ todo' = todo \ {s}
    /\ phase' = IF todo = {s} THEN "over" ELSE "route"
    /\ UNCHANGED <<today, bars, mishaps, pdtVars>>

Gate(s) == MinHoldSatisfied(s, today) /\ CanCloseToday(s, today)

RouteNothing(s) == Routed(s) /\ UNCHANGED brokerVars

RouteBuy(s) ==
    /\ Routed(s)
    /\ lastOrder < MaxOrders
    /\ \E qty \in 1..MaxQty : Broker!SubmitMarket(s, "buy", qty)

RouteTrim(s) ==
    /\ Routed(s)
    /\ Gate(s)
    /\ lastOrder < MaxOrders
    /\ \E qty \in 1..MaxQty : qty < pos[s] /\ Broker!SubmitMarket(s, "sell", qty)

RouteExit(s) ==
    /\ Routed(s)
    /\ Gate(s)
    /\ lastOrder < MaxOrders
    /\ Broker!ClosePosition(s)

(* Mutant: the cursor may stay where it is.                                *)
AdvanceStays ==
    /\ phase = "over"
    /\ bars' \in BarsOfADay
    /\ phase' = "settle"
    /\ UNCHANGED <<today, brokerVars, todo, mishaps, pdtVars>>

(* SimClock.advance.                                                       *)
Advance ==
    /\ phase = "over"
    /\ \E d \in TradingDays :
           /\ d > today /\ \A e \in TradingDays : e > today => d <= e
           /\ today' = d
    /\ bars' \in BarsOfADay
    /\ phase' = "settle"
    /\ UNCHANGED <<brokerVars, todo, mishaps, pdtVars>>

Next ==
    \/ Settle \/ Settled \/ CycleRaises
    \/ \E s \in Symbols : RouteNothing(s) \/ RouteBuy(s) \/ RouteTrim(s) \/ RouteExit(s)
    \/ Advance

Spec == Init /\ [][Next]_vars
-----------------------------------------------------------------------------
TypeOK ==
    /\ PDTTypeOK
    /\ today \in TradingDays /\ bars \in [Symbols -> Nat]
    /\ cash \in Nat /\ pos \in [Symbols -> Nat]
    /\ lastOrder \in Nat
    /\ pending \in Seq(Broker!Orders) /\ unfilled \in Seq(Broker!Orders)
    /\ next \in 1..(Len(pending) + 1)
    /\ phase \in {"settle", "route", "over"} /\ todo \subseteq Symbols
    /\ mishaps \subseteq Mishaps

(* No fill is made on the day its order was decided: no order sees a price *)
(* it was computed from (settle runs before routing, on orders of earlier  *)
(* days, in every model).                                                  *)
NoLookAhead == \A i \in 1..Len(fills) : fills[i].decided < fills[i].at

(* broker.py:13, settle "drains the pending queue": an order fills at most *)
(* once, as long as settle has not raised half way through the queue.      *)
FilledOnce ==
    "raise" \notin mishaps =>
        \A i, j \in 1..Len(fills) : fills[i].id = fills[j].id => i = j

Total(amounts) ==
    LET sum[i \in 0..Len(amounts)] == IF i = 0 THEN 0 ELSE sum[i - 1] + amounts[i]
    IN  sum[Len(amounts)]

(* What the fills report of a symbol's shares, and of the cash.            *)
Bought(f, s) == IF f.sym # s THEN 0 ELSE IF f.side = "buy" THEN f.qty ELSE -f.qty
Paid(f) == IF f.side = "buy" THEN f.qty * f.price ELSE -(f.qty * f.price)

SharesReported(s) == Total([i \in 1..Len(fills) |-> Bought(fills[i], s)])
CashReported == InitialCash - Total([i \in 1..Len(fills) |-> Paid(fills[i])])

(* broker.py:43, SimBrokerFill is "one materialized fill": the fills as    *)
(* reported account for every share and every cent, until an order waits   *)
(* for a bar: a sell that meets another one is reported in full then.      *)
LedgerMatches ==
    mishaps = {} => /\ \A s \in Symbols : pos[s] = SharesReported(s)
                    /\ cash = CashReported

(* engine.py:292, "no open orders (SimBroker settles synchronously each    *)
(* cycle)": once a cycle has settled, an order of an earlier day is        *)
(* pending only where a bar was missing.                                   *)
NoneLeft ==
    phase = "route" /\ mishaps = {}
        => \A i \in 1..Len(pending) : pending[i].day = today

(* settle "drains the pending queue": what it has filled has left the      *)
(* queue, and nothing stays behind.                                        *)
QueueDrained == FilledOnce /\ NoneLeft
=============================================================================
