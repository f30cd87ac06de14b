------------------------------ MODULE Learning ------------------------------
(***************************************************************************)
(* What the model learns from: the cycles of the scheduler write bars,     *)
(* features, executions and phantom rows; the hourly resolution loop       *)
(* labels the rows and fits the ridge again; the backfill tool, another    *)
(* process, writes rows of its own.  A price is abstracted to the moment   *)
(* it was taken, so a label is the moment of the close it was computed     *)
(* from.                                                                   *)
(*                                                                         *)
(* A day has four moments: 0 from 09:40, 1 from 12:30, 2 from 15:55 and 3  *)
(* from 16:00 until the next 09:40.  Moment 4 * d + k is moment k of day d.*)
(***************************************************************************)
EXTENDS Integers, FiniteSets

CONSTANTS Symbols,
          FirstDay,       \* bound: the day the process is first started
          LastDay,        \* bound: the last calendar day considered
          Weekdays,       \* the days the cron jobs of the cycles fire
          TradingDays,    \* the days that have a bar
          NewYear,        \* the day the second calendar year begins
          NumberedParams, \* TRUE: the driver takes the $1 of resolution.py
          BatchLimit,     \* resolve_stale_phantoms: batch_limit
          MinBuild,       \* _MIN_ROWS_TO_BUILD
          MinTrain,       \* _MIN_ROWS_TO_TRAIN
          MaxRuns,        \* bound: runs of the backfill tool
          ToolMoments,    \* bound: the moments it is run at
          Failures,       \* calls that may fail
          MaxFaults       \* bound: failures of a behaviour

ASSUME LearningAssumption ==
    /\ IsFiniteSet(Symbols)
    /\ LastDay \in Nat /\ FirstDay \in 0..LastDay /\ NewYear \in Nat
    /\ Weekdays \subseteq 0..LastDay /\ TradingDays \subseteq Weekdays
    /\ NumberedParams \in BOOLEAN
    /\ {BatchLimit, MinBuild, MinTrain, MaxRuns, MaxFaults} \subseteq Nat
    /\ ToolMoments \subseteq Nat
    /\ Failures \subseteq {"cycle", "persist", "row", "batch", "update", "restart"}

VARIABLES t,          \* the present moment
          due,        \* the cycle of this moment has not run
          fetched,    \* per symbol, when its bars were last written
          features,   \* table features
          rows,       \* table executions: buys, rotations and backfill rows
          phantoms,   \* table phantom_gateway_actions, rows with a weight
          runs,       \* runs of the backfill tool so far
          loop,       \* where the resolution loop stands
          posterior,  \* the samples the ridge has accumulated
          recounted,  \* it has accumulated one of them more than once
          nSamples,   \* _n_samples
          faults      \* failures so far

tables == <<features, rows, phantoms>>
model == <<posterior, recounted, nSamples>>
vars == <<t, due, fetched, tables, runs, loop, model, faults>>

None == -1
Moments == 0..(4 * LastDay + 3)
Day(x) == x \div 4
Moment(x) == x % 4
Year(d) == IF d < NewYear THEN 1 ELSE 2

(* The bar of day d is written whole, with a history of 252 others, and    *)
(* its close moves until the session ends.                                 *)
BarDays(s) == {d \in TradingDays : 4 * d <= fetched[s]}
(* Mutant: the bar under the date of the next day.                        *)
CloseOfDayAfter(d, when) == 4 * (d + 1) + 3
CloseOf(d, when) == IF when < 4 * d + 3 THEN when ELSE 4 * d + 3

Init ==
    /\ t = 4 * FirstDay /\ due = (FirstDay \in Weekdays)
    /\ fetched = [s \in Symbols |-> None]
    /\ features = {} /\ rows = {} /\ phantoms = {} /\ runs = 0
    /\ loop = "idle"
    /\ posterior = {} /\ recounted = FALSE /\ nSamples = 0
    /\ faults = 0

Fault(f) == f \in Failures /\ faults < MaxFaults /\ faults' = faults + 1
NoFault == UNCHANGED faults
-----------------------------------------------------------------------------
(* External: the hours pass.  A cycle that has not run is missed.          *)
PassTime ==
    /\ loop = "idle"
    /\ IF due THEN Fault("cycle") ELSE NoFault
    /\ t + 1 \in Moments
    /\ t' = t + 1
    /\ due' = (Day(t + 1) \in Weekdays /\ Moment(t + 1) # 3)
    /\ UNCHANGED <<fetched, tables, runs, loop, model>>

Fetch(symbols) == fetched' = [s \in Symbols |-> IF s \in symbols THEN t ELSE fetched[s]]

(* A failed write of the snapshot is logged, and the cycle goes on.        *)
Snapshot ==
    \/ Fetch(Symbols) /\ NoFault
    \/ Fault("persist") /\ \E stored \in SUBSET Symbols : Fetch(stored)

FeatureRows(symbols, from) == {[sym |-> s, at |-> t, from |-> from] : s \in symbols}

(* A cycle whose snapshot or feature step fails writes no other row.       *)
CycleFails ==
    /\ loop = "idle" /\ due
    /\ due' = FALSE
    /\ Fault("cycle")
    /\ Fetch(Symbols) \/ UNCHANGED fetched
    /\ UNCHANGED <<t, tables, runs, loop, model>>

(* 09:40 and 12:30: any choice of symbols may be given a weight.           *)
PhantomCycle ==
    /\ loop = "idle" /\ due /\ Moment(t) # 2
    /\ due' = FALSE
    /\ Snapshot
    /\ features' = features \cup FeatureRows(Symbols, "cycle")
    /\ \E chosen \in SUBSET Symbols :
           phantoms' = phantoms \cup
               {[sym |-> s, at |-> t, base |-> None, next |-> None] : s \in chosen}
    /\ UNCHANGED <<t, rows, runs, loop, model>>

(* 15:55: the orders routed leave a row each, with the return still zero.  *)
LiveCycle ==
    /\ loop = "idle" /\ due /\ Moment(t) = 2
    /\ due' = FALSE
    /\ Snapshot
    /\ features' = features \cup FeatureRows(Symbols, "cycle")
    /\ \E routed \in SUBSET Symbols :
           rows' = rows \cup
               {[sym |-> s, at |-> t, run |-> 0, label |-> None] : s \in routed}
    /\ UNCHANGED <<t, phantoms, runs, loop, model>>
-----------------------------------------------------------------------------
(* Rows older than a day of the calendar.                                  *)
Stale(x) == x <= t - 4

(* Mutant: the filter on the return is lost.                               *)
StaleRowsAll == {r \in rows : r.run = 0 /\ Stale(r.at)}
StaleRows == {r \in rows : r.label = None /\ r.run = 0 /\ Stale(r.at)}

(* Mutant: the bars in ascending order.                                    *)
FirstClose(s) ==
    CloseOf(CHOOSE d \in BarDays(s) : \A e \in BarDays(s) : d <= e, fetched[s])

LatestClose(s) ==
    CloseOf(CHOOSE d \in BarDays(s) : \A e \in BarDays(s) : e <= d, fetched[s])

Resolvable == {r \in StaleRows : NumberedParams /\ BarDays(r.sym) # {}}

(* Each row is looked up and updated by itself; a row that fails, or whose *)
(* price has not moved, is left for the next hour.                         *)
ResolveExecutions(done) ==
    rows' = (rows \ done) \cup {[r EXCEPT !.label = LatestClose(r.sym)] : r \in done}

Pending == {p \in phantoms : p.next = None /\ Stale(p.at)}

(* Mutant: rows that are resolved already take places in the batch.        *)
BatchOfAll == {p \in phantoms :
    Stale(p.at) /\ Cardinality({q \in phantoms : q.at < p.at}) < BatchLimit}

(* The rows of a table come oldest first.                                  *)
Batch == {p \in Pending : Cardinality({q \in Pending : q.at < p.at}) < BatchLimit}

(* Mutant: bars of the day itself count as later.                          *)
SameOrLaterBars(p) == {d \in BarDays(p.sym) : d >= Day(p.at)}

LaterBars(p) == {d \in BarDays(p.sym) : d > Day(p.at)}

HasBars(p) == Day(p.at) \in BarDays(p.sym) /\ LaterBars(p) # {}

Complete == {p \in Batch : HasBars(p)}

Resolved(p) ==
    LET later == CHOOSE d \in LaterBars(p) : \A e \in LaterBars(p) : d <= e
    IN  [p EXCEPT !.base = CloseOf(Day(p.at), fetched[p.sym]),
                  !.next = CloseOf(later, fetched[p.sym])]

ResolvePhantoms(done) ==
    phantoms' = (phantoms \ done) \cup {Resolved(p) : p \in done}

(* The loop runs at five past every hour, never between 15:55 and 16:00.   *)
Resolve(execs, shadows) ==
    /\ loop = "idle" /\ Moment(t) # 2
    /\ loop' = "fit"
    /\ ResolveExecutions(execs)
    /\ ResolvePhantoms(shadows)
    /\ IF execs = Resolvable /\ shadows = Complete THEN NoFault ELSE Fault("row")
    /\ UNCHANGED <<t, due, fetched, features, runs, model>>

ResolutionLoop == \E execs \in SUBSET Resolvable, shadows \in SUBSET Complete :
    Resolve(execs, shadows)

(* The loop of an hour in which no phantom row fails.                      *)
ResolutionLoopSucceeds == \E execs \in SUBSET Resolvable :
    Resolve(execs, Complete)
-----------------------------------------------------------------------------
(* build_training_matrix: the rows with a return, joined to every feature  *)
(* row of their symbol and date.  The tables are read year by year, and a  *)
(* year that cannot be read is left out.                                   *)
Matrix(lost) ==
    {x \in [row : rows, feature : features] :
        /\ x.row.label # None
        /\ x.row.sym = x.feature.sym /\ Day(x.row.at) = Day(x.feature.at)
        /\ Year(Day(x.row.at)) \notin lost}

(* GroupedRidge::update adds to what it has accumulated.                   *)
Update(samples) ==
    /\ posterior' = posterior \cup samples
    /\ recounted' = (recounted \/ posterior \cap samples # {})

(* Returns of different rows are taken to differ.                          *)
Enough(samples) ==
    /\ Cardinality(samples) >= MinBuild
    /\ Cardinality({x.row : x \in samples}) > 1

(* Too few rows, or rows of one and the same return: no fit, and the count *)
(* of the last fit stands.                                                 *)
SkipFit(samples) == ~Enough(samples) /\ UNCHANGED <<fetched, model>>

(* A fit that gained samples and counts as trained fetches the bars of the *)
(* held symbols, for the stops.                                            *)
Fit(samples) ==
    /\ Enough(samples)
    /\ Update(samples)
    /\ nSamples' = Cardinality(samples)
    /\ IF loop = "fit" /\ nSamples' > nSamples /\ nSamples' >= MinTrain
       THEN \E held \in SUBSET Symbols : Fetch(held)
       ELSE UNCHANGED fetched

FitRaises(samples) ==
    /\ Enough(samples)
    /\ nSamples' = 0
    /\ UNCHANGED <<fetched, posterior, recounted>>

Retrain ==
    /\ loop \in {"fit", "boot"}
    /\ loop' = "idle"
    /\ \/ NoFault /\ (SkipFit(Matrix({})) \/ Fit(Matrix({})))
       \/ Fault("update") /\ FitRaises(Matrix({}))
       \/ /\ Fault("batch")
          /\ \E lost \in SUBSET {1, 2} : SkipFit(Matrix(lost)) \/ Fit(Matrix(lost))
    /\ UNCHANGED <<t, due, tables, runs>>

(* The process is started anew: the model is fitted from the tables.       *)
Restart ==
    /\ Fault("restart")
    /\ posterior' = {} /\ recounted' = FALSE /\ nSamples' = 0
    /\ loop' = "boot"
    /\ UNCHANGED <<t, due, fetched, tables, runs>>
-----------------------------------------------------------------------------
(* The tool stores every bar it was given; a bar seen before is replaced.  *)
PersistBars == fetched' = [s \in Symbols |-> t]

(* The backfill tool: a row for every day whose next bar is there, at      *)
(* 13:00 of that day.  Days may be left out, all of them by --bars-only.   *)
Known == {d \in TradingDays : 4 * d <= t}
NextBar(d) == CHOOSE e \in Known : e > d /\ \A f \in Known : f > d => e <= f

Backfill ==
    /\ runs < MaxRuns /\ t \in ToolMoments
    /\ runs' = runs + 1
    /\ PersistBars
    /\ \E days \in SUBSET {d \in Known : \E e \in Known : e > d} :
           /\ features' = features \cup
                  {[sym |-> s, at |-> 4 * d + 1, from |-> "backfill"] :
                       s \in Symbols, d \in days}
           /\ rows' = rows \cup
                  {[sym |-> s, at |-> 4 * d + 1, run |-> runs + 1,
                    label |-> CloseOf(NextBar(d), t)] : s \in Symbols, d \in days}
    /\ UNCHANGED <<t, due, phantoms, loop, model, faults>>

Next ==
    \/ PassTime \/ CycleFails \/ PhantomCycle \/ LiveCycle
    \/ ResolutionLoop \/ Retrain \/ Restart \/ Backfill

Spec == Init /\ [][Next]_vars

(* Hours pass and the cron jobs fire, the loop every hour.  A lookup that  *)
(* fails is tried again, and does not fail for ever.                       *)
Clockwork == PassTime \/ CycleFails \/ PhantomCycle \/ LiveCycle

Fairness == /\ SF_vars(Clockwork) /\ WF_vars(Retrain)
            /\ SF_vars(ResolutionLoopSucceeds)

FairSpec == Spec /\ Fairness
-----------------------------------------------------------------------------
TypeOK ==
    LET marks == Moments \cup {None}
    IN  /\ t \in Moments /\ due \in BOOLEAN
        /\ fetched \in [Symbols -> marks]
        /\ features \subseteq [sym : Symbols, at : Moments, from : {"cycle", "backfill"}]
        /\ rows \subseteq [sym : Symbols, at : Moments, run : 0..MaxRuns, label : marks]
        /\ phantoms \subseteq [sym : Symbols, at : Moments, base : marks, next : marks]
        /\ runs \in 0..MaxRuns
        /\ loop \in {"idle", "fit", "boot"}
        /\ recounted \in BOOLEAN /\ nSamples \in Nat

(* main.py:1352-1354, the ridge learns from executions only: every sample  *)
(* it has accumulated is of a row that still has the label it was counted  *)
(* with, so no row is labelled again once it may have been learned from.   *)
LabelsStand == \A x \in posterior : x.row \in rows

(* When the market last traded, at or before x.                            *)
LastPrint(x) ==
    LET sessions == {d \in TradingDays : 4 * d <= x}
    IN  IF sessions = {} THEN None
        ELSE CloseOf(CHOOSE d \in sessions : \A e \in sessions : e <= d, x)

(* resolution.py:39-40, a label is the "most-recent close from bars with a *)
(* timestamp on or after the execution timestamp".  The query has no such  *)
(* filter, and the bar of the order's own day, which is stamped before the *)
(* order, may label it.  What remains true: once bars have been written    *)
(* since an order was routed, it is not labelled with a price from before  *)
(* the market last traded.                                                 *)
LabelNotBeforeOrder == [][\A r \in rows, q \in rows' :
    /\ r.label = None /\ q.label # None
    /\ <<r.sym, r.at, r.run>> = <<q.sym, q.at, q.run>>
    /\ fetched[r.sym] >= r.at
    => q.label >= LastPrint(r.at)]_vars

(* phantom_resolution.py:8-11: the return of a phantom row runs from the   *)
(* final close of its own day to a close of a later day, however its bars  *)
(* were written.                                                           *)
PhantomSpansASession == \A p \in phantoms : p.next # None =>
    p.base = 4 * Day(p.at) + 3 /\ p.next > p.base

(* training.py:383, "Rebuild the ridge posterior from all resolved         *)
(* executions": no sample has been accumulated twice.                      *)
CountedOnce == ~recounted

(* phantom_resolution.py:36-37, a row that misses its bars is left to "try *)
(* again next hour": rows that can never be resolved do not keep a row     *)
(* whose bars are there from being resolved, as long as a batch has room   *)
(* for one more than those.                                                *)
Hopeless == {p \in phantoms : Day(p.at) \notin TradingDays}

PhantomsResolved == []<>(\/ Cardinality(Hopeless) >= BatchLimit
                        \/ \A p \in Pending : ~HasBars(p))
=============================================================================
