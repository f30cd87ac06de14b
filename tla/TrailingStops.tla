---------------------------- MODULE TrailingStops ----------------------------
(***************************************************************************)
(* TrailingStopManager.manage_cycle, run by the trading process and by the *)
(* trigger_stops tool, each call to the broker or the database a step of   *)
(* its own.  The broker (external) holds positions and standing DAY stops; *)
(* shares under a standing stop are not available to another order.        *)
(***************************************************************************)
EXTENDS StopLevel, FiniteSets, FiniteSetsExt

CONSTANTS Symbols,
          Procs,         \* "main" and, when it is run, "tool"
          Prices,        \* closes, in ticks
          MaxQty,        \* bound: shares held per symbol
          MaxOrders,     \* bound: stop orders submitted
          LastDay,       \* bound: trading days considered
          Atr,           \* the average true range, in ticks
          Vols,          \* daily volatilities; 0 where features lack one
          Canary,        \* the symbols canary_symbols lets through
          Failures,      \* the kinds of call that may fail
          MaxFaults      \* bound: failures per day

ASSUME TrailingStopsAssumption ==
    /\ "main" \in Procs
    /\ Prices \subseteq Nat \ {0}
    /\ MaxQty \in Nat /\ MaxOrders \in Nat /\ LastDay \in Nat /\ MaxFaults \in Nat
    /\ Atr \in Nat /\ Vols \subseteq Nat
    /\ Canary \subseteq Symbols
    /\ Failures \subseteq {"prior", "standing", "entry", "bars", "cancel", "submit",
                           "reply", "persist", "record", "skip", "crash"}

VARIABLES day, close,
          held,      \* broker: shares and average entry price per symbol
          stops,     \* broker: standing stop orders
          lastId,    \* broker: the newest order id
          lastBuy,   \* executions: the day of the newest buy row per symbol
          rows,      \* active_stops: the newest row per symbol
          cycle,     \* per process: where its manage_cycle is
          faults     \* failures so far today

envVars == <<day, close, held, lastBuy>>
orderVars == <<stops, lastId>>

NoDate == -1
NoOrder == 0
NoSymbol == "none"
NoRow == [stop |-> 0, hwm |-> 0, order |-> NoOrder]
NoStop == [id |-> NoOrder, sym |-> NoSymbol, price |-> 0, qty |-> 0]

(* cycle_type "1555" submits afresh; every other type only replaces.       *)
Modes == {"fresh", "replace"}

(* The local state of one manage_cycle: today and the closes of its        *)
(* snapshot, the positions and tables as read, the symbols left, and the   *)
(* order about to be submitted.                                            *)
Idle == [pc |-> "idle", mode |-> "replace", today |-> NoDate, todo |-> {},
         close    |-> [s \in Symbols |-> 0],
         seen     |-> [s \in Symbols |-> [qty |-> 0, entry |-> 0]],
         prior    |-> [s \in Symbols |-> NoPrior],
         standing |-> [s \in Symbols |-> NoStop],
         bought   |-> [s \in Symbols |-> NoDate],
         cur |-> NoSymbol, target |-> 0, hwm |-> 0]

Fault(kind) == /\ kind \in Failures /\ faults < MaxFaults
               /\ faults' = faults + 1
NoFault == UNCHANGED faults
-----------------------------------------------------------------------------
(* External: the broker.                                                   *)
StopsOf(s) == {o \in stops : o.sym = s}
Shares(orders) == MapThenSumSet(LAMBDA o : o.qty, orders)
Covered(s) == Shares(StopsOf(s))
Available(s) == held[s].qty - Covered(s)

(* _load_broker_stops: the newest of a symbol's stops.                     *)
Newest(s) == IF StopsOf(s) = {} THEN NoStop
             ELSE CHOOSE o \in StopsOf(s) : \A x \in StopsOf(s) : x.id <= o.id

Cancel(id) == stops' = {o \in stops : o.id # id}

Less(position, n) == IF position.qty = n THEN [qty |-> 0, entry |-> 0]
                     ELSE [position EXCEPT !.qty = @ - n]
-----------------------------------------------------------------------------
(* manage_cycle.  The caller reads the positions, qty_available for the    *)
(* quantity; then the three tables are read one after the other, and one   *)
(* that cannot be read counts as empty.                                    *)
GetPositions(p, mode) ==
    cycle' = [cycle EXCEPT ![p] =
        IF \A s \in Symbols : held[s].qty = 0 THEN Idle
        ELSE [Idle EXCEPT
                !.pc = "prior", !.mode = mode, !.today = day, !.close = close,
                !.todo = {s \in Symbols : held[s].qty > 0},
                !.seen = [s \in Symbols |-> [qty   |-> Available(s),
                                             entry |-> held[s].entry]]]]

LoadPrior(p) ==
    /\ cycle[p].pc = "prior"
    /\ \/ /\ cycle' = [cycle EXCEPT ![p].pc = "standing",
                         ![p].prior = [s \in Symbols |->
                             [stop |-> rows[s].stop, hwm |-> rows[s].hwm]]]
          /\ NoFault
       \/ /\ Fault("prior")
          /\ cycle' = [cycle EXCEPT ![p].pc = "standing"]
    /\ UNCHANGED <<envVars, orderVars, rows>>

LoadStanding(p) ==
    /\ cycle[p].pc = "standing"
    /\ \/ /\ cycle' = [cycle EXCEPT ![p].pc = "entry",
                         ![p].standing = [s \in Symbols |-> Newest(s)]]
          /\ NoFault
       \/ /\ Fault("standing")
          /\ cycle' = [cycle EXCEPT ![p].pc = "entry"]
    /\ UNCHANGED <<envVars, orderVars, rows>>

LoadEntry(p) ==
    /\ cycle[p].pc = "entry"
    /\ \/ cycle' = [cycle EXCEPT ![p].pc = "symbols", ![p].bought = lastBuy] /\ NoFault
       \/ Fault("entry") /\ cycle' = [cycle EXCEPT ![p].pc = "symbols"]
    /\ UNCHANGED <<envVars, orderVars, rows>>

(* The symbol is done; after the last one the cycle is over.               *)
Done(c, s) == IF c.todo = {s} THEN Idle
              ELSE [c EXCEPT !.pc = "symbols", !.todo = @ \ {s},
                             !.cur = NoSymbol, !.target = 0, !.hwm = 0]

(* The row is appended, or the append raises and the cycle is abandoned    *)
(* with the symbols it has not reached.                                    *)
Persist(p, s, stop, hwm, order) ==
    \/ /\ rows' = [rows EXCEPT ![s] = [stop |-> stop, hwm |-> hwm, order |-> order]]
       /\ cycle' = [cycle EXCEPT ![p] = Done(@, s)]
       /\ NoFault
    \/ /\ Fault("persist")
       /\ cycle' = [cycle EXCEPT ![p] = Idle]
       /\ UNCHANGED rows

(* Mutants: the exemption lasts one day too long; there is none; shares    *)
(* that are not available are not looked at.                               *)
ExemptTwoDays(c, s) == c.seen[s].qty <= 0 \/ c.bought[s] >= c.today - 1
ExemptNothing(c, s) == c.seen[s].qty <= 0
ExemptIgnoresQty(c, s) == c.bought[s] = c.today

(* Nothing available, or the entry-day exemption.                          *)
Exempt(c, s) == c.seen[s].qty <= 0 \/ c.bought[s] = c.today

SkipSymbol(p, s) ==
    /\ cycle[p].pc = "symbols" /\ s \in cycle[p].todo
    /\ \/ Exempt(cycle[p], s) /\ NoFault
       \/ ~Exempt(cycle[p], s) /\ Fault("bars")
    /\ cycle' = [cycle EXCEPT ![p] = Done(@, s)]
    /\ UNCHANGED <<envVars, orderVars, rows>>

(* The level of s from what the cycle has loaded.  The volatility and the  *)
(* sign of the model's conservative edge are fresh in every cycle.         *)
Level(c, s, vol, edge) ==
    ComputeLevel(c.prior[s], c.seen[s].entry, c.close[s], Atr, vol, edge)

(* Not in the canary list, or no valid price below the market: the level   *)
(* is persisted and nothing is sent.                                       *)
ShadowSymbol(p, s, vol, edge) ==
    LET c == cycle[p]
        level == Level(c, s, vol, edge)
    IN  /\ c.pc = "symbols" /\ s \in c.todo
        /\ ~Exempt(c, s)
        /\ \/ s \notin Canary
           \/ SnapToBrokerTick(level.stop, c.close[s]) = TooClose
        /\ Persist(p, s, level.stop, level.hwm, NoOrder)
        /\ UNCHANGED <<envVars, orderVars>>

(* What becomes of the standing stop: "fresh" cancels it and submits;      *)
(* "replace" submits where there is none, and otherwise cancels and        *)
(* submits when the new level is far enough above it, or keeps it.         *)
DecideSymbol(p, s, vol, edge) ==
    LET c == cycle[p]
        level == Level(c, s, vol, edge)
        target == SnapToBrokerTick(level.stop, c.close[s])
        standing == c.standing[s]
        keep == /\ standing # NoStop /\ c.mode = "replace"
                /\ ~ShouldReplace(target, standing.price)
    IN  /\ c.pc = "symbols" /\ s \in c.todo
        /\ ~Exempt(c, s)
        /\ s \in Canary /\ target # TooClose
        /\ \/ keep /\ Persist(p, s, target, level.hwm, standing.id)
           \/ /\ ~keep
              /\ cycle' = [cycle EXCEPT
                     ![p].pc = IF standing = NoStop THEN "submit" ELSE "cancel",
                     ![p].cur = s, ![p].target = target, ![p].hwm = level.hwm]
              /\ NoFault
              /\ UNCHANGED rows
        /\ UNCHANGED <<envVars, orderVars>>

(* A cancel that fails is logged and the submission goes ahead.            *)
CancelStanding(p) ==
    /\ cycle[p].pc = "cancel"
    /\ \/ Cancel(cycle[p].standing[cycle[p].cur].id) /\ NoFault
       \/ Fault("cancel") /\ UNCHANGED stops
    /\ cycle' = [cycle EXCEPT ![p].pc = "submit"]
    /\ UNCHANGED <<envVars, lastId, rows>>

(* The quantity is what was available when the positions were read.  The   *)
(* broker refuses more than is available now.                              *)
SubmitStop(p) ==
    LET c == cycle[p]
        qty == c.seen[c.cur].qty
    IN  /\ c.pc = "submit"
        /\ qty <= Available(c.cur) /\ lastId < MaxOrders
        /\ stops' = stops \cup {[id |-> lastId + 1, sym |-> c.cur,
                                 price |-> c.target, qty |-> qty]}
        /\ lastId' = lastId + 1
        /\ Persist(p, c.cur, c.target, c.hwm, lastId + 1)
        /\ UNCHANGED envVars

(* A submission that raises is counted; the row names no order.            *)
SubmitRefused(p) ==
    LET c == cycle[p]
    IN  /\ c.pc = "submit"
        /\ \/ c.seen[c.cur].qty > Available(c.cur) /\ NoFault
           \/ c.seen[c.cur].qty <= Available(c.cur) /\ Fault("submit")
        /\ rows' = [rows EXCEPT ![c.cur] =
                       [stop |-> c.target, hwm |-> c.hwm, order |-> NoOrder]]
        /\ cycle' = [cycle EXCEPT ![p] = Done(@, c.cur)]
        /\ UNCHANGED <<envVars, orderVars>>

(* The broker accepts the order and the reply is lost: to the caller the   *)
(* submission raised.                                                      *)
SubmitReplyLost(p) ==
    LET c == cycle[p]
    IN  /\ c.pc = "submit"
        /\ Fault("reply")
        /\ c.seen[c.cur].qty <= Available(c.cur) /\ lastId < MaxOrders
        /\ stops' = stops \cup {[id |-> lastId + 1, sym |-> c.cur,
                                 price |-> c.target, qty |-> c.seen[c.cur].qty]}
        /\ lastId' = lastId + 1
        /\ rows' = [rows EXCEPT ![c.cur] =
                       [stop |-> c.target, hwm |-> c.hwm, order |-> NoOrder]]
        /\ cycle' = [cycle EXCEPT ![p] = Done(@, c.cur)]
        /\ UNCHANGED envVars

(* The process dies between two calls.                                     *)
Crash(p) ==
    /\ Fault("crash")
    /\ cycle[p].pc # "idle"
    /\ cycle' = [cycle EXCEPT ![p] = Idle]
    /\ UNCHANGED <<envVars, orderVars, rows>>

ManageStep(p) ==
    \/ LoadPrior(p) \/ LoadStanding(p) \/ LoadEntry(p)
    \/ \E s \in Symbols : SkipSymbol(p, s)
    \/ \E s \in Symbols, vol \in Vols, edge \in {-1, 0} :
           ShadowSymbol(p, s, vol, edge) \/ DecideSymbol(p, s, vol, edge)
    \/ CancelStanding(p) \/ SubmitStop(p) \/ SubmitRefused(p) \/ SubmitReplyLost(p)
    \/ Crash(p)
=============================================================================
