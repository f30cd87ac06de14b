---------------------------- MODULE StopPenalties ----------------------------
(***************************************************************************)
(* The hourly reconciliation of stop fills: reconcile_triggered_stops,     *)
(* _register_penalty and _deactivate_expired_penalties.  The tables are    *)
(* append-only.  Each write is a step of its own; a run may be missed, may *)
(* raise at a write, or may die with its process between two of them.      *)
(***************************************************************************)
EXTENDS Integers, Sequences, FiniteSets

CONSTANTS Symbols,
          MaxFills,        \* bound: stop orders that fill
          LastHour,        \* bound: hours considered
          HoursPerSession, \* hours of one trading day
          Window,          \* hours reconciled, 2
          ExpireSessions,  \* sessions until the bump is under the threshold
          Failures         \* the calls that may fail

ASSUME PenaltiesAssumption ==
    /\ MaxFills \in Nat /\ LastHour \in Nat /\ Window \in Nat
    /\ HoursPerSession \in Nat \ {0} /\ ExpireSessions \in Nat
    /\ Failures \subseteq {"missed", "seen", "decay", "write"}

VARIABLES hour,
          fills,       \* broker: filled stop orders, with the hours they
                       \* were sent and filled in
          triggers,    \* stop_triggers: the order of each row
          penalties,   \* stop_penalties, oldest first
          loop,        \* where reconcile_triggered_stops is
          upset,       \* history: no run is complete since one was missed
                       \* or cut short
          cuts,        \* history: the runs that were cut short
          blind        \* history: the fills that were seen and counted as new

vars == <<hour, fills, triggers, penalties, loop, upset, cuts, blind>>

Fill == [id : 1..MaxFills, sym : Symbols, sent : 0..LastHour, at : 0..LastHour]
Resting == [pc |-> "idle", todo |-> {}]

(* The order an active row stands for is a history field: the table has    *)
(* the symbol only.                                                        *)
NoFill == 0

(* Mutant: a row is stamped with the end of its hour.                      *)
RowStampedAhead(s, id, active) ==
    [sym |-> s, at |-> hour + 1, fill |-> id, active |-> active]

Row(s, id, active) == [sym |-> s, at |-> hour, fill |-> id, active |-> active]

Init ==
    /\ hour = 0
    /\ fills = {}
    /\ triggers = <<>> /\ penalties = <<>>
    /\ loop = Resting
    /\ upset = FALSE /\ cuts = 0 /\ blind = {}
-----------------------------------------------------------------------------
(* External: a stop sent this session, a DAY order, fills in the course of *)
(* the hour.                                                               *)
StopFill(s) ==
    /\ Cardinality(fills) < MaxFills
    /\ loop = Resting
    /\ \E sent \in 0..hour :
           /\ sent \div HoursPerSession = hour \div HoursPerSession
           /\ fills' = fills \cup {[id |-> Cardinality(fills) + 1, sym |-> s,
                                   sent |-> sent, at |-> hour]}
    /\ UNCHANGED <<hour, triggers, penalties, loop, upset, cuts, blind>>

(* Mutant: the window is the loop's own hour.                              *)
RecentFillsOneHour(now) == {f \in fills : f.sent >= now - 1}

(* list_recent_stop_fills(since), of a run at the start of hour now: the   *)
(* query asks for orders sent after since, and keeps the filled ones.      *)
RecentFills(now) == {f \in fills : f.sent >= now - Window}

(* The hourly run, or the hour goes by without one, or the broker does not *)
(* answer and the run returns.  One that follows a missed or broken run    *)
(* goes through: the window is meant for one.                              *)
Hour ==
    /\ loop = Resting
    /\ hour < LastHour
    /\ hour' = hour + 1
    /\ \/ loop' = [pc |-> "fills", todo |-> RecentFills(hour + 1)] /\ UNCHANGED upset
       \/ "missed" \in Failures /\ ~upset /\ upset' = TRUE /\ UNCHANGED loop
    /\ UNCHANGED <<fills, triggers, penalties, cuts, blind>>

Reconciled(f) == \E i \in 1..Len(triggers) : triggers[i] = f.id

(* A fill with a stop_triggers row is skipped.                             *)
SkipSeen(f) ==
    /\ loop.pc = "fills" /\ f \in loop.todo
    /\ Reconciled(f)
    /\ loop' = [loop EXCEPT !.todo = @ \ {f}]
    /\ UNCHANGED <<hour, fills, triggers, penalties, upset, cuts, blind>>

(* Mutant: a fill that has its row is not skipped.                         *)
InsertTriggerAlways(f) ==
    /\ loop.pc = "fills" /\ f \in loop.todo
    /\ triggers' = Append(triggers, f.id)
    /\ loop' = [pc |-> "penalty", todo |-> loop.todo, fill |-> f]
    /\ UNCHANGED <<hour, fills, penalties, upset, cuts, blind>>

(* A fill counts as new without its row, and when the query for the row    *)
(* fails.                                                                  *)
InsertTrigger(f) ==
    /\ loop.pc = "fills" /\ f \in loop.todo
    /\ \/ ~Reconciled(f) /\ UNCHANGED blind
       \/ Reconciled(f) /\ "seen" \in Failures /\ blind' = blind \cup {f.id}
    /\ triggers' = Append(triggers, f.id)
    /\ loop' = [pc |-> "penalty", todo |-> loop.todo, fill |-> f]
    /\ UNCHANGED <<hour, fills, penalties, upset, cuts>>

(* Mutant: a symbol that has a penalty gets no other.                      *)
RegisterFirstPenalty ==
    /\ loop.pc = "penalty"
    /\ penalties' = IF \E i \in 1..Len(penalties) : penalties[i].sym = loop.fill.sym
                    THEN penalties
                    ELSE Append(penalties, Row(loop.fill.sym, loop.fill.id, TRUE))
    /\ loop' = [pc |-> "fills", todo |-> loop.todo \ {loop.fill}]
    /\ UNCHANGED <<hour, fills, triggers, upset, cuts, blind>>

RegisterPenalty ==
    /\ loop.pc = "penalty"
    /\ penalties' = Append(penalties, Row(loop.fill.sym, loop.fill.id, TRUE))
    /\ loop' = [pc |-> "fills", todo |-> loop.todo \ {loop.fill}]
    /\ UNCHANGED <<hour, fills, triggers, upset, cuts, blind>>

(* trading_days_between counts both ends.                                  *)
SessionsSince(row) == hour \div HoursPerSession - row.at \div HoursPerSession + 1
Expired(row) == SessionsSince(row) >= ExpireSessions

(* When the fills are done the decayed rows are read.  If they cannot be   *)
(* read, none is deactivated and the run is complete.                      *)
ReadExpired ==
    /\ loop.pc = "fills" /\ loop.todo = {}
    /\ \/ /\ loop' = [pc |-> "decay", todo |-> {i \in 1..Len(penalties) :
                                  penalties[i].active /\ Expired(penalties[i])}]
          /\ UNCHANGED upset
       \/ "decay" \in Failures /\ loop' = Resting /\ upset' = FALSE
    /\ UNCHANGED <<hour, fills, triggers, penalties, cuts, blind>>

(* Every decayed row, the oldest first, gets an inactive row of its symbol.*)
Deactivate ==
    /\ loop.pc = "decay"
    /\ \E i \in loop.todo :
           /\ \A j \in loop.todo : i <= j
           /\ penalties' = Append(penalties, Row(penalties[i].sym, NoFill, FALSE))
           /\ loop' = [loop EXCEPT !.todo = @ \ {i}]
    /\ UNCHANGED <<hour, fills, triggers, upset, cuts, blind>>

Complete ==
    /\ loop.pc = "decay" /\ loop.todo = {}
    /\ loop' = Resting /\ upset' = FALSE
    /\ UNCHANGED <<hour, fills, triggers, penalties, cuts, blind>>

(* A write raises, or the process dies: the rest of the run is not done.   *)
BreakOff ==
    /\ "write" \in Failures /\ ~upset
    /\ loop # Resting
    /\ loop' = Resting /\ upset' = TRUE /\ cuts' = cuts + 1
    /\ UNCHANGED <<hour, fills, triggers, penalties, blind>>

Next ==
    \/ \E s \in Symbols : StopFill(s)
    \/ Hour
    \/ \E f \in fills : SkipSeen(f) \/ InsertTrigger(f)
    \/ RegisterPenalty \/ ReadExpired \/ Deactivate \/ Complete \/ BreakOff

Spec == Init /\ [][Next]_vars
-----------------------------------------------------------------------------
TypeOK ==
    /\ hour \in 0..LastHour
    /\ fills \subseteq Fill
    /\ triggers \in Seq(1..MaxFills)
    /\ penalties \in Seq([sym : Symbols, at : 0..hour, fill : 0..MaxFills,
                          active : BOOLEAN])
    /\ loop.pc \in {"idle", "fills", "penalty", "decay"}
    /\ loop.todo \subseteq IF loop.pc = "decay" THEN 1..Len(penalties) ELSE fills
    /\ upset \in BOOLEAN /\ cuts \in 0..LastHour
    /\ blind \subseteq 1..MaxFills

PenaltiesOf(f) == {i \in 1..Len(penalties) : penalties[i].fill = f.id}

(* A fill is seen by the runs of two overlapping windows, yet raises the   *)
(* hurdle once; a query for its row that fails lets the second run raise   *)
(* it again, and the window ends it there, whatever fails                  *)
(* (reconcile_triggered_stops, "De-dup: don't register the same fill       *)
(* twice").                                                                *)
PenaltyOnce ==
    \A f \in fills :
        Cardinality(PenaltiesOf(f)) <= IF f.id \in blind THEN Window ELSE 1

(* A stop that fills in the hour it was sent is on record two hours later, *)
(* with a missed or broken run between good ones (list_recent_stop_fills   *)
(* under main.py:1344, "2h window covers 1h loop + jitter").               *)
PromptFillsKept ==
    loop = Resting =>
        \A f \in fills : f.sent = f.at /\ f.at <= hour - 2 => Reconciled(f)

(* main.py:1337, "Alpaca-side fills of DAY stop orders that fired during   *)
(* the last hour", and :1344, "2h window covers 1h loop + jitter": every   *)
(* fill is on record two hours later.                                      *)
NoFillLost ==
    loop = Resting => \A f \in fills : f.at <= hour - 2 => Reconciled(f)

(* trailing_stops.py:608, "For each: insert a stop_triggers row, register  *)
(* a stop_penalties row": the row that marks a fill as seen is written     *)
(* first, so a run cut short may lose the penalty of the one fill it was   *)
(* at, and never of another.                                               *)
OnePenaltyLostPerCut ==
    loop = Resting =>
        Cardinality({f \in fills : Reconciled(f) /\ PenaltiesOf(f) = {}}) <= cuts
=============================================================================
