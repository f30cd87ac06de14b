---------------------------- MODULE OrderRouting ----------------------------
(***************************************************************************)
(* OrderManager.route and the full exit of the live cycle, the two writers *)
(* of the PDT tracker, against the positions the broker holds.  Any caller *)
(* may route any symbol at any time of day: this is the contract of the    *)
(* classes; LiveCycle adds the schedule.                                   *)
(*                                                                         *)
(* Two history variables record what the tracker should know: lastBuy is   *)
(* the day of the last buy of each position held, and exits the log of     *)
(* every exit noted since boot.  Same-day sells by a stop or a rotation    *)
(* are never noted.                                                        *)
(***************************************************************************)
EXTENDS PDTTracker

CONSTANTS MaxExits,      \* bound: exits since boot
          BrokerCloses,  \* TRUE: standing stops may fill at the broker
          Restarts       \* TRUE: the process may be restarted

VARIABLES today, lastBuy, exits

vars == <<pdtVars, today, lastBuy, exits>>

Exit == [symbol : Symbols, day : Days]

Init ==
    /\ PDTInit
    /\ today = 0
    /\ lastBuy = [s \in Symbols |-> NoDate]
    /\ exits = <<>>

TypeOK ==
    /\ PDTTypeOK
    /\ today \in Days
    /\ lastBuy \in [Symbols -> Days \cup {NoDate}]
    /\ exits \in Seq(Exit)

Held(s) == lastBuy[s] # NoDate
-----------------------------------------------------------------------------
(* route(BUY): no PDT gate.  The order is noted as an open as soon as it   *)
(* is submitted, whether or not the broker fills it.                       *)
RouteBuy(s) ==
    /\ NoteOpen(s, today)
    /\ \E filled \in BOOLEAN :
           lastBuy' = IF filled THEN [lastBuy EXCEPT ![s] = today] ELSE lastBuy
    /\ UNCHANGED <<trades, today, exits>>

(* route(ROTATE): both gates, then a partial sell, then note_open.         *)
RouteRotate(s) ==
    /\ Held(s)
    /\ CanCloseToday(s, today)
    /\ MinHoldSatisfied(s, today)
    /\ NoteOpen(s, today)
    /\ UNCHANGED <<trades, today, lastBuy, exits>>

(* A full exit goes to close_position and is noted as opened and closed    *)
(* now; route and its gates are not involved.                              *)
FullExit(s) ==
    /\ Held(s)
    /\ Len(exits) < MaxExits
    /\ NoteClose(s, today, today)
    /\ exits' = Append(exits, [symbol |-> s, day |-> today])
    /\ lastBuy' = [lastBuy EXCEPT ![s] = NoDate]
    /\ UNCHANGED today

(* A standing stop fills: nothing in the process calls note_close.         *)
StopFill(s) ==
    /\ BrokerCloses
    /\ Held(s)
    /\ lastBuy' = [lastBuy EXCEPT ![s] = NoDate]
    /\ UNCHANGED <<pdtVars, today, exits>>

(* A new process builds an empty tracker; nothing calls hydrate.           *)
Restart ==
    /\ Restarts
    /\ trades' = <<>>
    /\ openDates' = [s \in Symbols |-> NoDate]
    /\ exits' = <<>>
    /\ UNCHANGED <<today, lastBuy>>

NextDay ==
    /\ today < LastDay
    /\ today' = today + 1
    /\ UNCHANGED <<pdtVars, lastBuy, exits>>

Next ==
    \/ \E s \in Symbols :
           RouteBuy(s) \/ RouteRotate(s) \/ FullExit(s) \/ StopFill(s)
    \/ Restart
    \/ NextDay

Spec == Init /\ [][Next]_vars
-----------------------------------------------------------------------------
CapReached(log) == CountInWindow(log, today) >= MAX_DAY_TRADES

(* The deque forgets its oldest trades at MaxLen.  Whatever it forgot, the *)
(* answer it gives to "is the cap reached" is the one the log of this      *)
(* process would give in full (count_in_window over a deque with a maxlen).*)
EvictionHarmless == CapReached(trades) <=> CapReached(exits)
=============================================================================
