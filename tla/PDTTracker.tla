----------------------------- MODULE PDTTracker -----------------------------
(***************************************************************************)
(* PDTTracker: the bounded log of day trades and the open date of every    *)
(* symbol, with the queries its callers gate on.  The operations are       *)
(* written as actions on the tracker's two fields; OrderRouting and        *)
(* Backtest say who calls them and when.                                   *)
(***************************************************************************)
EXTENDS TradingCalendar, Sequences

CONSTANTS Symbols,
          MaxLen,               \* deque(maxlen=64)
          WINDOW_TRADING_DAYS,  \* 5
          MAX_DAY_TRADES,       \* 3
          PDT_ENFORCE           \* the environment's kill switch

ASSUME PDTAssumption ==
    /\ MaxLen \in Nat /\ WINDOW_TRADING_DAYS \in Nat /\ MAX_DAY_TRADES \in Nat
    /\ 0 < MAX_DAY_TRADES /\ MAX_DAY_TRADES <= MaxLen
    /\ PDT_ENFORCE \in BOOLEAN

VARIABLES trades,      \* _trades, oldest first
          openDates    \* _open_dates, NoDate for a missing key

pdtVars == <<trades, openDates>>

DayTrade == [symbol : Symbols, day : Days]

PDTInit ==
    /\ trades = <<>>
    /\ openDates = [s \in Symbols |-> NoDate]

PDTTypeOK ==
    /\ trades \in Seq(DayTrade)
    /\ Len(trades) <= MaxLen
    /\ openDates \in [Symbols -> Days \cup {NoDate}]
-----------------------------------------------------------------------------
(* Mutant: a full log refuses the new entry.                               *)
PushDropsNewest(log, t) == IF Len(log) < MaxLen THEN Append(log, t) ELSE log

(* Mutant: a deque without a bound.                                        *)
PushUnbounded(log, t) == Append(log, t)

(* A bounded deque drops its oldest element when a new one is appended.    *)
Push(log, t) == Append(IF Len(log) < MaxLen THEN log ELSE Tail(log), t)

NoteOpen(s, d) ==
    openDates' = [openDates EXCEPT ![s] = IF @ = NoDate THEN d ELSE @]

NoteClose(s, openDay, closeDay) ==
    /\ openDates' = [openDates EXCEPT ![s] = NoDate]
    /\ trades' = IF openDay = closeDay
                 THEN Push(trades, [symbol |-> s, day |-> closeDay])
                 ELSE trades
-----------------------------------------------------------------------------
InWindow(day, asOf) == TradingDaysBetween(day, asOf) < WINDOW_TRADING_DAYS

CountInWindow(log, asOf) ==
    Cardinality({i \in 1..Len(log) : InWindow(log[i].day, asOf)})

CanCloseToday(s, now) ==
    \/ ~PDT_ENFORCE
    \/ openDates[s] # now
    \/ CountInWindow(trades, now) < MAX_DAY_TRADES

MinHoldSatisfied(s, now) ==
    \/ ~PDT_ENFORCE
    \/ openDates[s] = NoDate
    \/ TradingDaysBetween(openDates[s], now) >= 1
=============================================================================
