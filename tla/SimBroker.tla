------------------------------ MODULE SimBroker ------------------------------
(***************************************************************************)
(* backtest/broker.py: cash, positions, the queue of pending orders, and   *)
(* settle, which walks the queue order by order.  Quantities and prices    *)
(* are whole numbers of the code's smallest unit.                          *)
(***************************************************************************)
EXTENDS TradingCalendar, Sequences

CONSTANTS Symbols,
          InitialCash,
          FillModel,    \* "next_open", "vwap", "delayed_mid" or "close"
          Haircut,      \* what delayed_mid moves the price by
          Prices,       \* what a bar's open or vwap may be
          WallBar       \* the close of the wall clock's own day, 0 if it has no bar

VARIABLES today,
          bars,       \* today's bar of each symbol, NoBar where there is none
          cash, pos,
          lastOrder,  \* orders are numbered as they are queued
          pending,    \* _pending, oldest first
          next,       \* settle: the place reached in the queue
          unfilled,   \* settle: its list of orders to keep
          fills       \* _fills, with the days of the decision and the fill

brokerVars == <<cash, pos, lastOrder, pending, next, unfilled, fills>>

NoBar == 0
Sides == {"buy", "sell"}
Orders == [id : Nat, sym : Symbols, side : Sides, qty : Nat, exit : BOOLEAN, day : Days]

BrokerInit ==
    /\ cash = InitialCash
    /\ pos = [s \in Symbols |-> 0]
    /\ lastOrder = 0
    /\ pending = <<>> /\ next = 1 /\ unfilled = <<>>
    /\ fills = <<>>
-----------------------------------------------------------------------------
Queue(s, side, qty, exit) ==
    /\ lastOrder' = lastOrder + 1
    /\ pending' = Append(pending, [id |-> lastOrder + 1, sym |-> s, side |-> side,
                                   qty |-> qty, exit |-> exit, day |-> today])
    /\ UNCHANGED <<cash, pos, next, unfilled, fills>>

SubmitMarket(s, side, qty) == qty > 0 /\ Queue(s, side, qty, FALSE)

ClosePosition(s) == pos[s] > 0 /\ Queue(s, "sell", pos[s], TRUE)
-----------------------------------------------------------------------------
(* _resolve_fill.  Three models take today's bar.  "close" asks for the    *)
(* bar of the date the order is stamped with, and the stamp is the wall    *)
(* clock's: not a day of the window, and often a day without a bar.        *)
FillPrice(order) ==
    LET bar == bars[order.sym]
    IN  IF FillModel = "close" THEN WallBar
        ELSE IF bar = NoBar \/ FillModel # "delayed_mid" THEN bar
        ELSE IF order.side = "buy" THEN bar + Haircut ELSE bar - Haircut

Order == pending[next]
Price == FillPrice(Order)

(* An order without a bar stays pending for the next settle.               *)
KeepOrder ==
    /\ next <= Len(pending)
    /\ Price = NoBar
    /\ unfilled' = Append(unfilled, Order)
    /\ next' = next + 1
    /\ UNCHANGED <<cash, pos, lastOrder, pending, fills>>

(* The days are history fields.                                            *)
Report(qty) ==
    fills' = Append(fills, [id |-> Order.id, sym |-> Order.sym, side |-> Order.side,
                            qty |-> qty, price |-> Price,
                            decided |-> Order.day, at |-> today])

(* Mutant: the order is taken as it is, whatever the cash.                 *)
AffordableAnyway(q, qty, price) == q = qty

(* q is the largest part of an order for qty that the cash pays for.       *)
Affordable(q, qty, price) ==
    /\ q * price <= cash
    /\ q = qty \/ (q + 1) * price > cash

(* Mutant: a degraded order is reported at the quantity that was asked.    *)
FillBuyReportsAsked ==
    /\ next <= Len(pending)
    /\ Price # NoBar /\ Order.side = "buy"
    /\ \E q \in 0..Order.qty :
           /\ Affordable(q, Order.qty, Price)
           /\ cash' = cash - q * Price
           /\ pos' = [pos EXCEPT ![Order.sym] = @ + q]
           /\ IF q > 0 THEN Report(Order.qty) ELSE UNCHANGED fills
    /\ next' = next + 1
    /\ UNCHANGED <<lastOrder, pending, unfilled>>

(* The order keeps the quantity it was degraded to; one that is degraded   *)
(* to nothing is dropped without a fill.                                   *)
FillBuy ==
    /\ next <= Len(pending)
    /\ Price # NoBar /\ Order.side = "buy"
    /\ \E q \in 0..Order.qty :
           /\ Affordable(q, Order.qty, Price)
           /\ cash' = cash - q * Price
           /\ pos' = [pos EXCEPT ![Order.sym] = @ + q]
           /\ IF q > 0 THEN Report(q) /\ pending' = [pending EXCEPT ![next].qty = q]
                       ELSE UNCHANGED <<fills, pending>>
    /\ next' = next + 1
    /\ UNCHANGED <<lastOrder, unfilled>>

(* A full exit sells what is held by now, any other order at most that.    *)
SharesSold(order) ==
    IF order.exit \/ order.qty > pos[order.sym] THEN pos[order.sym] ELSE order.qty

(* A sell with nothing left to sell is dropped.                            *)
FillSell ==
    /\ next <= Len(pending)
    /\ Price # NoBar /\ Order.side = "sell"
    /\ cash' = cash + SharesSold(Order) * Price
    /\ pos' = [pos EXCEPT ![Order.sym] = @ - SharesSold(Order)]
    /\ IF pos[Order.sym] > 0 THEN Report(Order.qty)
                             ELSE UNCHANGED fills
    /\ next' = next + 1
    /\ UNCHANGED <<lastOrder, pending, unfilled>>

(* Mutant: the orders settled are not taken off the queue.                 *)
SettleKeepsQueue ==
    /\ next > Len(pending)
    /\ next' = 1 /\ unfilled' = <<>>
    /\ UNCHANGED <<cash, pos, lastOrder, pending, fills>>

SettleDone ==
    /\ next > Len(pending)
    /\ pending' = unfilled
    /\ next' = 1 /\ unfilled' = <<>>
    /\ UNCHANGED <<cash, pos, lastOrder, fills>>

(* A bar that is not in the loader's cache is asked of the database, which *)
(* may raise: the fills applied stay applied, and the queue is as it was.  *)
SettleRaises ==
    /\ next <= Len(pending)
    /\ Price = NoBar
    /\ next' = 1 /\ unfilled' = <<>>
    /\ UNCHANGED <<cash, pos, lastOrder, pending, fills>>
=============================================================================
