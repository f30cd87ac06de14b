--------------------------- MODULE TradingCalendar ---------------------------
(***************************************************************************)
(* The NYSE calendar as juniauto.utils.time_utils presents it.  A day is   *)
(* a weekday number; the scheduler's cron jobs fire on every one of them.  *)
(* TradingDays are the days the exchange is open; the others are holidays. *)
(***************************************************************************)
EXTENDS Integers, FiniteSets

CONSTANTS LastDay,      \* bound of the model: the last day considered
          TradingDays   \* the days NYSE.schedule lists

ASSUME CalendarAssumption ==
    /\ LastDay \in Nat
    /\ TradingDays \subseteq 0..LastDay

Days == 0..LastDay

NoDate == -1            \* "no entry" where the code has None or a missing key

(* Both ends count, so a trading day is at distance 1 from itself, and a   *)
(* holiday at distance 0.                                                  *)
TradingDaysBetween(a, b) ==
    Cardinality({d \in TradingDays : (a <= d /\ d <= b) \/ (b <= d /\ d <= a)})
=============================================================================
