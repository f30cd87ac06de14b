------------------------------ MODULE LiveCycle ------------------------------
(***************************************************************************)
(* The trading day: two phantom cycles that only manage stops, the live    *)
(* cycle at 15:55 that routes orders and then manages stops, the hourly    *)
(* resolution loop that may manage them in between, the expiry of DAY      *)
(* orders at 16:00, and the trigger_stops tool at any time.  The handlers  *)
(* of the trading process never await, so "main" runs one at a time.       *)
(***************************************************************************)
EXTENDS TrailingStops

VARIABLES clock,     \* the next event of the schedule
          dropped,   \* symbols the current live cycle gave no weight
          boughtOn   \* history: the day of the newest buy at the broker

liveVars == <<clock, dropped, boughtOn>>
vars == <<envVars, orderVars, rows, cycle, faults, liveVars>>

Main == cycle["main"]
Busy == Main.pc # "idle"
Quiet == \A p \in Procs : cycle[p].pc = "idle"
Closes == [Symbols -> Prices]

Init ==
    /\ day = 0 /\ clock = "0940"
    /\ close \in Closes
    /\ held = [s \in Symbols |-> [qty |-> 0, entry |-> 0]]
    /\ stops = {} /\ lastId = NoOrder
    /\ lastBuy = [s \in Symbols |-> NoDate]
    /\ rows = [s \in Symbols |-> NoRow]
    /\ cycle = [p \in Procs |-> Idle]
    /\ faults = 0
    /\ dropped = {}
    /\ boughtOn = [s \in Symbols |-> NoDate]
-----------------------------------------------------------------------------
(* External: the price.  A stop at or above the new price has filled.      *)
MarketMoves ==
    \E px \in Closes :
        LET filled == {o \in stops : o.price >= px[o.sym]}
            sold(s) == Shares({o \in filled : o.sym = s})
        IN  /\ close' = px
            /\ stops' = stops \ filled
            /\ held' = [s \in Symbols |-> Less(held[s], sold(s))]

(* The schedule of a trading day; the market has moved by each event, and  *)
(* main is then due to run its cycle.  Hours pass: a run of the tool is    *)
(* over by then.                                                           *)
Schedule == <<"night", "0940", "1230", "1555">>

Tick ==
    /\ Quiet
    /\ \E i \in 1..3 : clock = Schedule[i] /\ clock' = Schedule[i + 1]
    /\ MarketMoves
    /\ cycle' = [cycle EXCEPT !["main"].pc = "due"]
    /\ UNCHANGED <<day, lastBuy, lastId, rows, faults, dropped, boughtOn>>

(* 16:00: DAY orders expire, and the next trading day is another day.  The *)
(* stop step of the live cycle may still be running.                       *)
CloseOfDay ==
    /\ clock = "1555" /\ Main.pc \notin {"due", "routing", "routed"}
    /\ day < LastDay
    /\ day' = day + 1 /\ clock' = "night"
    /\ stops' = {}
    /\ faults' = 0
    /\ UNCHANGED <<close, held, lastId, lastBuy, rows, cycle, dropped, boughtOn>>

(* A standing stop fills on a move between two events.                     *)
StopFill(o) ==
    /\ clock # "night"
    /\ stops' = stops \ {o}
    /\ held' = [held EXCEPT ![o.sym] = Less(@, o.qty)]
    /\ UNCHANGED <<day, close, lastBuy, lastId, rows, cycle, faults, clock, dropped, boughtOn>>
-----------------------------------------------------------------------------
(* _daily_decision_cycle(execute=False) places no order: its last step is  *)
(* to manage the stops.                                                    *)
PhantomCycle ==
    /\ Main.pc = "due" /\ clock # "1555"
    /\ GetPositions("main", "replace")
    /\ UNCHANGED <<envVars, orderVars, rows, faults, liveVars>>

(* The live cycle reads the quantities available for sale, once.           *)
LiveCycle ==
    /\ Main.pc = "due" /\ clock = "1555"
    /\ cycle' = [cycle EXCEPT !["main"] =
          [Idle EXCEPT !.pc = "routing", !.today = day, !.todo = Symbols,
                       !.seen = [s \in Symbols |->
                           [qty |-> Available(s), entry |-> held[s].entry]]]]
    /\ dropped' = {}
    /\ UNCHANGED <<envVars, orderVars, rows, faults, clock, boughtOn>>

(* A cycle that is missed, or that raises before its stop step.            *)
CycleFails ==
    /\ Main.pc \in {"due", "routed"}
    /\ Fault("skip")
    /\ cycle' = [cycle EXCEPT !["main"] = Idle]
    /\ UNCHANGED <<envVars, orderVars, rows, liveVars>>

Routed(s) == cycle' = [cycle EXCEPT
    !["main"].pc = IF Main.todo = {s} THEN "routed" ELSE "routing",
    !["main"].todo = @ \ {s}]

(* hold, reject, inside the dead band, or refused on the way.              *)
RouteNothing(s) == UNCHANGED <<envVars, orderVars, faults, dropped, boughtOn>>

(* entry and add.  The executions row may be lost: the order is not.       *)
RouteBuy(s) ==
    /\ \E n \in 1..(MaxQty - held[s].qty) :
           held' = [held EXCEPT ![s] =
               [qty   |-> @.qty + n,
                entry |-> (@.qty * @.entry + n * close[s]) \div (@.qty + n)]]
    /\ \/ lastBuy' = [lastBuy EXCEPT ![s] = day] /\ NoFault
       \/ Fault("record") /\ UNCHANGED lastBuy
    /\ boughtOn' = [boughtOn EXCEPT ![s] = day]
    /\ UNCHANGED <<day, close, orderVars, dropped>>

(* A partial sell of shares that were available when routing started.      *)
RouteTrim(s) ==
    \E n \in 1..MaxQty :
        /\ n < Main.seen[s].qty /\ n <= Available(s)
        /\ held' = [held EXCEPT ![s] = Less(@, n)]
        /\ UNCHANGED <<day, close, lastBuy, orderVars, faults, dropped, boughtOn>>

(* No weight is left for s: nothing is sold unless shares are available,   *)
(* and then the broker closes the position, or refuses while an order      *)
(* holds a part of it.                                                     *)
RouteExit(s) ==
    /\ held[s].qty > 0
    /\ dropped' = dropped \cup {s}
    /\ \/ /\ Main.seen[s].qty > 0 /\ Available(s) = held[s].qty
          /\ held' = [held EXCEPT ![s] = Less(@, @.qty)]
       \/ /\ Main.seen[s].qty <= 0 \/ Available(s) # held[s].qty
          /\ UNCHANGED held
    /\ UNCHANGED <<day, close, lastBuy, orderVars, faults, boughtOn>>

RouteOrder(s) ==
    /\ Main.pc = "routing" /\ s \in Main.todo
    /\ RouteNothing(s) \/ RouteBuy(s) \/ RouteTrim(s) \/ RouteExit(s)
    /\ Routed(s)
    /\ UNCHANGED <<rows, clock>>

(* Step 6.5, on the positions after the orders.                            *)
ManageFresh ==
    /\ Main.pc = "routed"
    /\ GetPositions("main", "fresh")
    /\ UNCHANGED <<envVars, orderVars, rows, faults, liveVars>>

(* The resolution loop, after a retrain that gained samples.               *)
ModelUpdate ==
    /\ ~Busy
    /\ GetPositions("main", "replace")
    /\ UNCHANGED <<envVars, orderVars, rows, faults, liveVars>>

(* The tool, in either mode, at any time of day.                           *)
RunTool ==
    /\ "tool" \in Procs /\ cycle["tool"].pc = "idle"
    /\ \E mode \in Modes : GetPositions("tool", mode)
    /\ UNCHANGED <<envVars, orderVars, rows, faults, liveVars>>

Manage == \E p \in Procs : ManageStep(p) /\ UNCHANGED liveVars

Next ==
    \/ Tick \/ CloseOfDay
    \/ \E o \in stops : StopFill(o)
    \/ PhantomCycle \/ LiveCycle \/ CycleFails
    \/ \E s \in Symbols : RouteOrder(s)
    \/ ManageFresh \/ ModelUpdate \/ RunTool
    \/ Manage

Spec == Init /\ [][Next]_vars
-----------------------------------------------------------------------------
TypeOK ==
    /\ day \in 0..LastDay /\ clock \in {Schedule[i] : i \in 1..4}
    /\ close \in Closes
    /\ \A s \in Symbols : held[s].qty \in 0..MaxQty /\ held[s].entry \in Nat
    /\ \A o \in stops : o.id \in 1..lastId /\ o.sym \in Symbols /\ o.qty \in 1..MaxQty
    /\ lastId \in 0..MaxOrders
    /\ \A s \in Symbols : lastBuy[s] \in (0..day) \cup {NoDate} /\ lastBuy[s] <= boughtOn[s]
    /\ \A s \in Symbols : rows[s].stop \in Int /\ rows[s].hwm \in Nat
                          /\ rows[s].order \in 0..lastId
    /\ \A p \in Procs : cycle[p].todo \subseteq Symbols /\ cycle[p].mode \in Modes
    /\ faults \in 0..MaxFaults
    /\ dropped \subseteq Symbols

Uncovered(s) == /\ held[s].qty > 0 /\ s \in Canary
                /\ boughtOn[s] # day
                /\ Covered(s) < held[s].qty

(* No failures: once the 09:40 cycle is over, every share of a position    *)
(* not bought today is under a stop until the close, whatever the resol-   *)
(* ution loop and the tool do in between (manage_cycle's cancel-then-      *)
(* submit on quantities read before it).                                   *)
CoveredIntraday ==
    clock # "night" /\ Quiet => \A s \in Symbols : ~Uncovered(s)

(* At most one failure a day: the 12:30 cycle repairs what the 09:40 cycle *)
(* left undone, so the live cycle finds every share of an older position   *)
(* under a stop, unless the executions row of its purchase was lost: a     *)
(* stop step that runs past 16:00 on the day of the purchase then covers a *)
(* part of the shares for the whole of the next day.  A failing read of    *)
(* the entry days ("entry") does the same.                                 *)
RepairedByLive ==
    clock \in {"1230", "1555"} /\ Quiet =>
        \A s \in Symbols : lastBuy[s] = boughtOn[s] => ~Uncovered(s)

(* trailing_stops.py:30, "never submit a stop on entry day (would fire as  *)
(* a day trade)": no order is submitted for a symbol bought that day.      *)
NoSubmitOnEntryDay ==
    [][\A o \in stops' \ stops : boughtOn[o.sym] # day]_vars

(* The broker never holds two stops for a symbol at once.                  *)
OneStopPerSymbol == \A s \in Symbols : Cardinality(StopsOf(s)) <= 1

(* The hysteresis compares with the standing order and not with the row,   *)
(* so levels that rise little by little cannot drift away from it: a row   *)
(* that names a standing order is above its price by the hysteresis at     *)
(* most (should_replace and the kept branch of manage_cycle).              *)
RowNearOrder ==
    \A o \in stops : rows[o.sym].order = o.id => rows[o.sym].stop <= o.price + Hysteresis

(* trailing_stops.py:118, "High-water mark ratchets up on every recompute  *)
(* - never resets", and the stop falls between two rows of a symbol only   *)
(* to the cap below the market of the cycle that writes it: across failed  *)
(* writes, failed submissions, crashes and sales (compute_level's ratchet, *)
(* which goes from row to row).  A cycle that could not read the rows      *)
(* starts both anew.                                                       *)
RowRatchets ==
    [][\A s \in Symbols, p \in Procs :
           LET c == cycle[p]
           IN  rows'[s] # rows[s] /\ cycle'[p] # c /\ c.prior[s] # NoPrior =>
                   /\ rows'[s].hwm >= rows[s].hwm
                   /\ \/ rows'[s].stop >= rows[s].stop
                      \/ rows'[s].stop = MaxAllowed(c.close[s])]_vars

(* main.py:472, a full exit "must bypass dead-band or tiny positions       *)
(* become permanent orphans": a symbol the live cycle gives no weight is   *)
(* not held when routing ends.                                             *)
DroppedIsSold == Main.pc = "routed" => \A s \in dropped : held[s].qty = 0
-----------------------------------------------------------------------------
(* A stop stands for s, alone, and for the whole of it unless it was       *)
(* bought or added to today.                                               *)
UnderOneStop(s) ==
    \E o \in stops : /\ StopsOf(s) = {o}
                     /\ o.qty = held[s].qty \/ boughtOn[s] = day

DayPart == CASE clock = "night" -> "night" [] clock = "0940" -> "first" [] OTHER -> "session"
Owned == {s \in Canary : held[s].qty > 0}
BoughtToday == {s \in Canary : boughtOn[s] = day}
UnderStops == {s \in Canary : UnderOneStop(s)}

Promise == INSTANCE StopPromise WITH
    Names <- Canary, time <- DayPart, owned <- Owned, fresh <- BoughtToday, guarded <- UnderStops

(* No failures: the day keeps what StopPromise states, whatever the        *)
(* scheduler, the resolution loop and the tool do at the same time         *)
(* (manage_cycle's quantities and tables, read before it acts).            *)
KeepsPromise == Promise!Spec
=============================================================================
