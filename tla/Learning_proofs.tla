--------------------------- MODULE Learning_proofs ---------------------------
(***************************************************************************)
(* What the model learns from, for every calendar, every number of symbols,*)
(* failures and runs of the tool: a row that may have been learned from is *)
(* never labelled again, a label is not older than its order, and a        *)
(* phantom return spans a session.                                         *)
(***************************************************************************)
EXTENDS Learning, FiniteSetTheorems, WellFoundedInduction, TLAPS

(* The rows of the posterior have a label, which is why the lookup,        *)
(* confined to rows without one, leaves them alone.                        *)
Learned == \A x \in posterior : x.row \in rows /\ x.row.label # None

(* A row is only added, or labelled while it has no label.                 *)
RowsKept == \A r \in rows : r.label # None => r \in rows'

LEMMA ResolveKeepsRows ==
    ASSUME NEW execs, NEW shadows,
           execs \subseteq Resolvable, Resolve(execs, shadows)
    PROVE  RowsKept /\ UNCHANGED posterior
<1>1. \A r \in execs : r.label = None
      BY DEF Resolvable, StaleRows
<1>2. \A r \in rows : r.label # None => r \in rows'
      BY <1>1 DEF Resolve, ResolveExecutions
<1> QED BY <1>2 DEF Resolve, RowsKept, model

(* Every row of the training matrix is a labelled row of the table.        *)
LEMMA MatrixLabelled ==
    ASSUME NEW lost, NEW x \in Matrix(lost)
    PROVE  x.row \in rows /\ x.row.label # None
BY DEF Matrix

LEMMA FitLearns ==
    ASSUME NEW lost, Learned, UNCHANGED rows,
           SkipFit(Matrix(lost)) \/ Fit(Matrix(lost))
    PROVE  Learned'
<1>1. CASE SkipFit(Matrix(lost))
      BY <1>1 DEF SkipFit, model, Learned
<1>2. CASE Fit(Matrix(lost))
      <2>1. posterior' = posterior \cup Matrix(lost)
            BY <1>2 DEF Fit, Update
      <2> QED BY <2>1, MatrixLabelled DEF Learned
<1> QED BY <1>1, <1>2

LEMMA LearnedStep == Learned /\ [Next]_vars => Learned'
<1> SUFFICES ASSUME Learned, [Next]_vars PROVE Learned'
    OBVIOUS
<1>1. ASSUME RowsKept, UNCHANGED posterior PROVE Learned'
      BY <1>1 DEF Learned, RowsKept
<1>2. CASE PassTime \/ CycleFails \/ PhantomCycle
      <2>1. UNCHANGED <<rows, posterior>>
            BY <1>2 DEF PassTime, CycleFails, PhantomCycle, tables, model
      <2> QED BY <2>1, <1>1 DEF RowsKept
<1>3. CASE LiveCycle
      <2>1. RowsKept /\ UNCHANGED posterior
            BY <1>3 DEF LiveCycle, RowsKept, model
      <2> QED BY <2>1, <1>1
<1>4. CASE ResolutionLoop
      <2>1. PICK execs \in SUBSET Resolvable, shadows \in SUBSET Complete :
                Resolve(execs, shadows)
            BY <1>4 DEF ResolutionLoop
      <2> QED BY <2>1, <1>1, ResolveKeepsRows
<1>5. CASE Retrain
      <2>1. UNCHANGED rows
            BY <1>5 DEF Retrain, tables
      <2>2. ASSUME NEW lost, SkipFit(Matrix(lost)) \/ Fit(Matrix(lost)) PROVE Learned'
            BY <2>1, <2>2, FitLearns
      <2>3. ASSUME FitRaises(Matrix({})) PROVE Learned'
            BY <2>1, <2>3 DEF FitRaises, Learned
      <2> QED BY <1>5, <2>2, <2>3 DEF Retrain
<1>6. CASE Restart
      BY <1>6 DEF Restart, Learned
<1>7. CASE Backfill
      <2>1. RowsKept /\ UNCHANGED posterior
            BY <1>7 DEF Backfill, PersistBars, RowsKept, model
      <2> QED BY <2>1, <1>1
<1>8. CASE UNCHANGED vars
      BY <1>8 DEF vars, tables, model, Learned
<1> QED BY <1>2, <1>3, <1>4, <1>5, <1>6, <1>7, <1>8 DEF Next

(* resolution.py:44, "already-resolved rows are never re-processed", read  *)
(* with main.py:1352: every sample the ridge has accumulated is of a row   *)
(* that still has the label it was counted with, in every behaviour.       *)
THEOREM LabelsAlwaysStand == Spec => []LabelsStand
<1>1. Init => Learned
      BY DEF Init, Learned
<1>2. Learned => LabelsStand
      BY DEF Learned, LabelsStand
<1> QED BY <1>1, <1>2, LearnedStep, PTL DEF Spec
-----------------------------------------------------------------------------
Below == {pair \in Nat \X Nat : pair[1] < pair[2]}

(* A set of days that is not empty has an earliest one.                    *)
LEMMA Earliest ==
    ASSUME NEW days \in SUBSET Nat, days # {}
    PROVE  \E d \in days : \A e \in days : d <= e
<1>1. IsWellFoundedOn(Below, Nat)
      BY NatLessThanWellFounded DEF OpToRel, Below
<1>2. PICK d \in days : \A e \in days : ~ (<<e, d>> \in Below)
      BY <1>1, WFMin
<1>3. ASSUME NEW e \in days PROVE d <= e
      <2>1. d \in Nat /\ e \in Nat
            OBVIOUS
      <2>2. ~ (e < d)
            BY <1>2, <2>1 DEF Below
      <2> QED BY <2>1, <2>2
<1> QED BY <1>3

Times == Moments \cup {None}
PhantomRows == [sym : Symbols, at : Moments, base : Int, next : Int]
Spans(p) == p.next # None => p.base = 4 * Day(p.at) + 3 /\ p.next > p.base

PhantomsSpan ==
    /\ t \in Moments
    /\ fetched \in [Symbols -> Times]
    /\ phantoms \subseteq PhantomRows
    /\ \A p \in phantoms : Spans(p)

LEMMA TradingDaysNat == TradingDays \subseteq Nat
BY LearningAssumption

(* What the phantom resolver writes: a later day has bars, so the bars     *)
(* were written after the row's own day was over.                          *)
LEMMA ResolvedSpans ==
    ASSUME PhantomsSpan, NEW p \in Complete
    PROVE  Resolved(p) \in PhantomRows /\ Spans(Resolved(p))
<1>1. p \in PhantomRows /\ HasBars(p)
      BY DEF Complete, Batch, Pending, PhantomsSpan
<1>2. fetched[p.sym] \in Int /\ Day(p.at) \in Int
      BY <1>1 DEF PhantomsSpan, PhantomRows, Times, Moments, None, Day
<1>3. LaterBars(p) \in SUBSET Nat /\ LaterBars(p) # {}
      BY <1>1, TradingDaysNat DEF LaterBars, BarDays, HasBars
<1> DEFINE later == CHOOSE d \in LaterBars(p) : \A e \in LaterBars(p) : d <= e
<1>4. later \in LaterBars(p)
      BY <1>3, Earliest
<1>5. later \in Nat /\ later > Day(p.at) /\ 4 * later <= fetched[p.sym]
      BY <1>3, <1>4 DEF LaterBars, BarDays
<1> HIDE DEF later
<1>6. CloseOf(Day(p.at), fetched[p.sym]) = 4 * Day(p.at) + 3
      BY <1>2, <1>5 DEF CloseOf
<1>7. /\ CloseOf(later, fetched[p.sym]) \in Int
      /\ CloseOf(later, fetched[p.sym]) > 4 * Day(p.at) + 3
      BY <1>2, <1>5 DEF CloseOf
<1> DEFINE last == 4 * Day(p.at) + 3
           close == CloseOf(later, fetched[p.sym])
           q == [p EXCEPT !.base = last, !.next = close]
<1>8. Resolved(p) = q
      BY <1>6 DEF Resolved, later
<1>9. last \in Int /\ close \in Int /\ close > last
      BY <1>2, <1>7
<1> HIDE DEF last, close
<1>10. q \in PhantomRows /\ q.at = p.at /\ q.base = last /\ q.next = close
      BY <1>1, <1>9 DEF PhantomRows
<1> HIDE DEF q
<1>11. Spans(q)
      BY <1>9, <1>10 DEF Spans, last
<1> QED BY <1>8, <1>10, <1>11

LEMMA FetchTyped ==
    ASSUME PhantomsSpan, NEW symbols, Fetch(symbols)
    PROVE  fetched' \in [Symbols -> Times]
BY DEF PhantomsSpan, Fetch, Times

LEMMA PhantomsStep == PhantomsSpan /\ [Next]_vars => PhantomsSpan'
<1> SUFFICES ASSUME PhantomsSpan, [Next]_vars PROVE PhantomsSpan'
    OBVIOUS
<1>1. ASSUME UNCHANGED <<t, phantoms>>, fetched' \in [Symbols -> Times]
      PROVE  PhantomsSpan'
      BY <1>1 DEF PhantomsSpan, Spans
<1>2. ASSUME Snapshot PROVE fetched' \in [Symbols -> Times]
      BY <1>2, FetchTyped DEF Snapshot
<1>3. fetched \in [Symbols -> Times]
      BY DEF PhantomsSpan
<1>4. CASE PassTime
      BY <1>4 DEF PassTime, tables, PhantomsSpan, Spans
<1>5. CASE CycleFails
      <2>1. fetched' \in [Symbols -> Times]
            BY <1>5, <1>3, FetchTyped DEF CycleFails
      <2> QED BY <1>5, <1>1, <2>1 DEF CycleFails, tables
<1>6. CASE PhantomCycle
      <2>1. PICK chosen \in SUBSET Symbols : phantoms' = phantoms \cup
                {[sym |-> s, at |-> t, base |-> None, next |-> None] : s \in chosen}
            BY <1>6 DEF PhantomCycle
      <2>2. ASSUME NEW s \in chosen
            PROVE  LET p == [sym |-> s, at |-> t, base |-> None, next |-> None]
                   IN  p \in PhantomRows /\ Spans(p)
            BY DEF PhantomRows, Spans, PhantomsSpan, None
      <2>3. fetched' \in [Symbols -> Times] /\ UNCHANGED t
            BY <1>6, <1>2 DEF PhantomCycle
      <2> QED BY <2>1, <2>2, <2>3 DEF PhantomsSpan, Spans
<1>7. CASE LiveCycle
      <2>1. fetched' \in [Symbols -> Times]
            BY <1>7, <1>2 DEF LiveCycle
      <2> QED BY <1>7, <1>1, <2>1 DEF LiveCycle
<1>8. CASE ResolutionLoop
      <2>1. PICK execs \in SUBSET Resolvable, shadows \in SUBSET Complete :
                Resolve(execs, shadows)
            BY <1>8 DEF ResolutionLoop
      <2>2. phantoms' = (phantoms \ shadows) \cup {Resolved(p) : p \in shadows}
            BY <2>1 DEF Resolve, ResolvePhantoms
      <2>3. UNCHANGED <<t, fetched>>
            BY <2>1 DEF Resolve
      <2>4. \A p \in shadows : Resolved(p) \in PhantomRows /\ Spans(Resolved(p))
            BY ResolvedSpans
      <2>5. \A p \in phantoms' : p \in PhantomRows /\ Spans(p)
            BY <2>2, <2>4 DEF PhantomsSpan
      <2> QED BY <2>3, <2>5 DEF PhantomsSpan, Spans
<1>9. CASE Retrain
      <2>1. fetched' \in [Symbols -> Times]
            <3>1. ASSUME NEW samples, SkipFit(samples) \/ Fit(samples)
                  PROVE  fetched' \in [Symbols -> Times]
                  BY <3>1, <1>3, FetchTyped DEF SkipFit, Fit
            <3>2. ASSUME FitRaises(Matrix({})) PROVE fetched' \in [Symbols -> Times]
                  BY <3>2, <1>3 DEF FitRaises
            <3> QED BY <1>9, <3>1, <3>2 DEF Retrain
      <2> QED BY <1>9, <1>1, <2>1 DEF Retrain, tables
<1>10. CASE Restart
      BY <1>10, <1>1, <1>3 DEF Restart, tables
<1>11. CASE Backfill
      <2>1. fetched' \in [Symbols -> Times]
            BY <1>11 DEF Backfill, PersistBars, PhantomsSpan, Times
      <2> QED BY <1>11, <1>1, <2>1 DEF Backfill, PersistBars
<1>12. CASE UNCHANGED vars
      BY <1>12, <1>1, <1>3 DEF vars, tables
<1> QED BY <1>4, <1>5, <1>6, <1>7, <1>8, <1>9, <1>10, <1>11, <1>12 DEF Next

(* phantom_resolution.py:8-11: the return of a phantom row runs from the   *)
(* final close of its own day to a close of a later day, for every         *)
(* calendar and however the cycles, the tool and the retrain trigger wrote *)
(* the bars.                                                               *)
THEOREM PhantomsAlwaysSpan == Spec => []PhantomSpansASession
<1>1. Init => PhantomsSpan
      <2>1. 4 * FirstDay \in Moments
            BY LearningAssumption DEF Moments
      <2> QED BY <2>1 DEF Init, PhantomsSpan, Times, Moments, None
<1>2. PhantomsSpan => PhantomSpansASession
      BY DEF PhantomsSpan, Spans, PhantomSpansASession
<1> QED BY <1>1, <1>2, PhantomsStep, PTL DEF Spec
-----------------------------------------------------------------------------
(* A set of days that is not empty has a latest one.                       *)
LEMMA Latest ==
    ASSUME NEW days \in SUBSET (0..LastDay), days # {}
    PROVE  \E d \in days : \A e \in days : e <= d
<1>. DEFINE back == {LastDay - d : d \in days}
<1>0. LastDay \in Nat
      BY LearningAssumption
<1>1. back \in SUBSET Nat /\ back # {}
      BY <1>0
<1>2. PICK x \in back : \A y \in back : x <= y
      <2>. HIDE DEF back
      <2>. QED BY <1>1, Earliest
<1>3. PICK d \in days : x = LastDay - d
      BY <1>2
<1>4. ASSUME NEW e \in days PROVE e <= d
      <2>1. LastDay - e \in back
            OBVIOUS
      <2>2. LastDay - d <= LastDay - e /\ d \in Nat /\ e \in Nat
            BY <1>2, <1>3, <2>1
      <2>. QED BY <1>0, <2>2
<1>. QED BY <1>4

(* Days and closes.                                                        *)
LEMMA CloseType ==
    ASSUME NEW d \in TradingDays, NEW x \in Moments, 4 * d <= x
    PROVE  CloseOf(d, x) \in Moments /\ CloseOf(d, x) <= x
<1>1. d \in Nat /\ x \in Nat /\ x <= 4 * LastDay + 3 /\ LastDay \in Nat
      BY TradingDaysNat, LearningAssumption DEF Moments
<1>2. CASE x < 4 * d + 3
      BY <1>1, <1>2 DEF CloseOf
<1>3. CASE ~(x < 4 * d + 3)
      <2>1. CloseOf(d, x) = 4 * d + 3
            BY <1>3 DEF CloseOf
      <2>. QED BY <1>1, <1>3, <2>1 DEF Moments
<1>. QED BY <1>2, <1>3

(* A later day seen from a later moment has a later close.                 *)
LEMMA CloseLater ==
    ASSUME NEW d \in Nat, NEW e \in Nat, NEW x \in Nat, NEW y \in Nat,
           d <= e, x <= y, 4 * d <= x, 4 * e <= y
    PROVE  CloseOf(d, x) <= CloseOf(e, y)
BY DEF CloseOf

LEMMA BarDaysType ==
    ASSUME NEW s \in Symbols, fetched \in [Symbols -> Times], BarDays(s) # {}
    PROVE  /\ BarDays(s) \in SUBSET (0..LastDay) /\ BarDays(s) \subseteq TradingDays
           /\ fetched[s] \in Moments
           /\ \A d \in BarDays(s) : 4 * d <= fetched[s]
<1>1. /\ BarDays(s) \in SUBSET (0..LastDay) /\ BarDays(s) \subseteq TradingDays
      /\ \A d \in BarDays(s) : 4 * d <= fetched[s]
      BY LearningAssumption DEF BarDays
<1>2. PICK d \in BarDays(s) : TRUE
      OBVIOUS
<1>3. d \in Nat /\ 4 * d <= fetched[s]
      BY <1>1, <1>2
<1>4. fetched[s] # None
      BY <1>3 DEF None
<1>. QED BY <1>1, <1>4 DEF Times

(* The label of an execution is the close of its symbol's latest bar.      *)
LEMMA LatestCloseIs ==
    ASSUME NEW s \in Symbols, fetched \in [Symbols -> Times], BarDays(s) # {}
    PROVE  /\ LatestClose(s) \in Moments
           /\ \E d \in BarDays(s) : /\ \A e \in BarDays(s) : e <= d
                                    /\ LatestClose(s) = CloseOf(d, fetched[s])
<1>. DEFINE d == CHOOSE d \in BarDays(s) : \A e \in BarDays(s) : e <= d
<1>1. d \in BarDays(s) /\ \A e \in BarDays(s) : e <= d
      BY BarDaysType, Latest
<1>2. LatestClose(s) = CloseOf(d, fetched[s])
      BY DEF LatestClose
<1>3. CloseOf(d, fetched[s]) \in Moments
      BY <1>1, BarDaysType, CloseType
<1>. HIDE DEF d
<1>. QED BY <1>1, <1>2, <1>3

(* The prices of a phantom row are moments of closes.                      *)
LEMMA ResolvedType ==
    ASSUME fetched \in [Symbols -> Times], NEW p, p.sym \in Symbols, HasBars(p)
    PROVE  LET later == CHOOSE d \in LaterBars(p) : \A e \in LaterBars(p) : d <= e
           IN  /\ CloseOf(Day(p.at), fetched[p.sym]) \in Moments
               /\ CloseOf(later, fetched[p.sym]) \in Moments
<1>. DEFINE later == CHOOSE d \in LaterBars(p) : \A e \in LaterBars(p) : d <= e
<1>1. Day(p.at) \in BarDays(p.sym) /\ LaterBars(p) # {} /\ LaterBars(p) \subseteq BarDays(p.sym)
      BY DEF HasBars, LaterBars
<1>2. LaterBars(p) \in SUBSET Nat
      BY <1>1, BarDaysType
<1>3. later \in LaterBars(p)
      BY <1>1, <1>2, Earliest
<1>. HIDE DEF later
<1>4. \A d \in BarDays(p.sym) : CloseOf(d, fetched[p.sym]) \in Moments
      BY <1>1, BarDaysType, CloseType
<1>. QED BY <1>1, <1>3, <1>4 DEF later
-----------------------------------------------------------------------------
FeatureSet == [sym : Symbols, at : Moments, from : {"cycle", "backfill"}]
RowSet == [sym : Symbols, at : Moments, run : 0..MaxRuns, label : Times]
PhantomSet == [sym : Symbols, at : Moments, base : Times, next : Times]

(* The tables cannot grow beyond what there is to write.                   *)
LEMMA FiniteTables == IsFiniteSet(RowSet) /\ IsFiniteSet(FeatureSet)
<1>1. IsFiniteSet(Moments) /\ IsFiniteSet(Times) /\ IsFiniteSet(0..MaxRuns)
      <2>1. 0 \in Int /\ MaxRuns \in Int /\ 4 * LastDay + 3 \in Int
            BY LearningAssumption
      <2>2. IsFiniteSet(Moments) /\ IsFiniteSet(0..MaxRuns)
            BY <2>1, FS_Interval, Zenon DEF Moments
      <2>3. IsFiniteSet({None})
            BY FS_Singleton
      <2>. QED BY <2>2, <2>3, FS_Union DEF Times
<1>2. IsFiniteSet(Symbols)
      BY LearningAssumption
<1>3. IsFiniteSet({"cycle", "backfill"})
      <2>1. IsFiniteSet({"cycle"} \cup {"backfill"})
            BY FS_Singleton, FS_Union
      <2>2. {"cycle"} \cup {"backfill"} = {"cycle", "backfill"}
            OBVIOUS
      <2>. QED BY <2>1, <2>2
<1>4. IsFiniteSet(RowSet)
      <2>. DEFINE Tuples == (Symbols \X Moments) \X ((0..MaxRuns) \X Times)
                  f == [r \in RowSet |-> <<<<r.sym, r.at>>, <<r.run, r.label>>>>]
      <2>1. IsFiniteSet(Tuples)
            <3>1. IsFiniteSet(Symbols \X Moments) /\ IsFiniteSet((0..MaxRuns) \X Times)
                  BY <1>1, <1>2, FS_Product
            <3>. QED BY <3>1, FS_Product
      <2>2. f \in [RowSet -> Tuples]
            BY DEF RowSet
      <2>3. ASSUME NEW r \in RowSet, NEW q \in RowSet, f[r] = f[q] PROVE r = q
            BY <2>3 DEF RowSet
      <2>4. f \in Injection(RowSet, Tuples)
            <3>. HIDE DEF f
            <3>. QED BY <2>2, <2>3 DEF Injection, IsInjective
      <2>. QED BY <2>1, <2>4, FS_Injection
<1>5. IsFiniteSet(FeatureSet)
      <2>. DEFINE Tuples == (Symbols \X Moments) \X {"cycle", "backfill"}
                  f == [r \in FeatureSet |-> <<<<r.sym, r.at>>, r.from>>]
      <2>1. IsFiniteSet(Tuples)
            <3>1. IsFiniteSet(Symbols \X Moments)
                  BY <1>1, <1>2, FS_Product
            <3>. QED BY <1>3, <3>1, FS_Product
      <2>2. f \in [FeatureSet -> Tuples]
            BY DEF FeatureSet
      <2>3. ASSUME NEW r \in FeatureSet, NEW q \in FeatureSet, f[r] = f[q] PROVE r = q
            BY <2>3 DEF FeatureSet
      <2>4. f \in Injection(FeatureSet, Tuples)
            <3>. HIDE DEF f
            <3>. QED BY <2>2, <2>3 DEF Injection, IsInjective
      <2>. QED BY <2>1, <2>4, FS_Injection
<1>. QED BY <1>4, <1>5

LEMMA FiniteMatrix ==
    ASSUME rows \subseteq RowSet, features \subseteq FeatureSet, NEW lost
    PROVE  Cardinality(Matrix(lost)) \in Nat
<1>. DEFINE Pairs == [row : rows, feature : features]
            f == [x \in Pairs |-> <<x.row, x.feature>>]
<1>1. IsFiniteSet(rows \X features)
      BY FiniteTables, FS_Subset, FS_Product
<1>2. f \in [Pairs -> rows \X features]
      OBVIOUS
<1>3. ASSUME NEW x \in Pairs, NEW y \in Pairs, f[x] = f[y] PROVE x = y
      BY <1>3
<1>4. f \in Injection(Pairs, rows \X features)
      <2>. HIDE DEF f, Pairs
      <2>. QED BY <1>2, <1>3 DEF Injection, IsInjective
<1>5. IsFiniteSet(Pairs)
      BY <1>1, <1>4, FS_Injection
<1>6. Matrix(lost) \in SUBSET Pairs
      BY DEF Matrix
<1>. QED BY <1>5, <1>6, FS_Subset, FS_CardinalityType

(* What a step may do to what is typed.                                    *)
TypeIs ==
    /\ t \in Moments /\ due \in BOOLEAN
    /\ fetched \in [Symbols -> Times]
    /\ features \subseteq FeatureSet
    /\ rows \subseteq RowSet
    /\ phantoms \subseteq PhantomSet
    /\ runs \in 0..MaxRuns
    /\ loop \in {"idle", "fit", "boot"}
    /\ recounted \in BOOLEAN /\ nSamples \in Nat

LEMMA TypeIsOK == TypeOK <=> TypeIs
BY DEF TypeOK, TypeIs, FeatureSet, RowSet, PhantomSet, Times

LEMMA SnapshotType ==
    ASSUME TypeIs, Snapshot PROVE fetched' \in [Symbols -> Times]
BY DEF TypeIs, Snapshot, Fetch, Times

LEMMA FeaturesType ==
    ASSUME TypeIs PROVE FeatureRows(Symbols, "cycle") \subseteq FeatureSet
BY DEF TypeIs, FeatureRows, FeatureSet

LEMMA ResolveType ==
    ASSUME TypeIs, NEW execs \in SUBSET Resolvable, NEW shadows \in SUBSET Complete,
           Resolve(execs, shadows)
    PROVE  TypeIs'
<1>1. /\ rows' = (rows \ execs) \cup {[r EXCEPT !.label = LatestClose(r.sym)] : r \in execs}
      /\ phantoms' = (phantoms \ shadows) \cup {Resolved(p) : p \in shadows}
      /\ loop' = "fit"
      /\ UNCHANGED <<t, due, fetched, features, runs, posterior, recounted, nSamples>>
      BY DEF Resolve, ResolveExecutions, ResolvePhantoms, model
<1>2. ASSUME NEW r \in execs PROVE [r EXCEPT !.label = LatestClose(r.sym)] \in RowSet
      <2>1. r \in RowSet /\ BarDays(r.sym) # {} /\ fetched \in [Symbols -> Times]
            BY DEF Resolvable, StaleRows, TypeIs
      <2>2. r.sym \in Symbols
            BY <2>1 DEF RowSet
      <2>3. LatestClose(r.sym) \in Times
            BY <2>1, <2>2, LatestCloseIs DEF Times
      <2>. QED BY <2>1, <2>3 DEF RowSet
<1>3. ASSUME NEW p \in shadows PROVE Resolved(p) \in PhantomSet
      <2>1. p \in PhantomSet /\ HasBars(p) /\ fetched \in [Symbols -> Times]
            BY DEF Complete, Batch, Pending, TypeIs
      <2>2. p.sym \in Symbols
            BY <2>1 DEF PhantomSet
      <2>. DEFINE later == CHOOSE d \in LaterBars(p) : \A e \in LaterBars(p) : d <= e
                  a == CloseOf(Day(p.at), fetched[p.sym])
                  b == CloseOf(later, fetched[p.sym])
      <2>3. a \in Times /\ b \in Times
            BY <2>1, <2>2, ResolvedType DEF Times
      <2>4. Resolved(p) = [p EXCEPT !.base = a, !.next = b]
            BY DEF Resolved
      <2>. HIDE DEF a, b
      <2>. QED BY <2>1, <2>3, <2>4 DEF PhantomSet
<1>4. rows' \subseteq RowSet /\ phantoms' \subseteq PhantomSet
      BY <1>1, <1>2, <1>3 DEF TypeIs
<1>. QED BY <1>1, <1>4 DEF TypeIs

(* The tool's rows: their labels are closes of the past.                   *)
LEMMA BackfillRows ==
    ASSUME TypeIs, Backfill
    PROVE  \E news \in SUBSET RowSet :
               /\ rows' = rows \cup news
               /\ \A q \in news : q.run = runs + 1 /\ q.label # None
<1>1. PICK days \in SUBSET {d \in Known : \E e \in Known : e > d} :
            rows' = rows \cup
                   {[sym |-> s, at |-> 4 * d + 1, run |-> runs + 1,
                     label |-> CloseOf(NextBar(d), t)] : s \in Symbols, d \in days}
      BY DEF Backfill
<1>2. t \in Moments /\ runs + 1 \in 0..MaxRuns
      BY LearningAssumption DEF TypeIs, Backfill
<1>3. ASSUME NEW d \in days PROVE NextBar(d) \in Known
      <2>. DEFINE after == {e \in Known : e > d}
      <2>1. after \in SUBSET Nat /\ after # {}
            BY TradingDaysNat DEF Known
      <2>2. \E e \in after : \A f \in after : e <= f
            <3>. HIDE DEF after
            <3>. QED BY <2>1, Earliest
      <2>3. \E e \in Known : e > d /\ \A f \in Known : f > d => e <= f
            BY <2>2
      <2>. QED BY <2>3 DEF NextBar
<1>4. ASSUME NEW d \in days PROVE CloseOf(NextBar(d), t) \in Moments
      <2>. DEFINE e == NextBar(d)
      <2>1. e \in TradingDays /\ 4 * e <= t
            BY <1>3 DEF Known
      <2>. HIDE DEF e
      <2>2. CloseOf(e, t) \in Moments
            BY <1>2, <2>1, CloseType
      <2>. QED BY <2>2 DEF e
<1>5. ASSUME NEW d \in days PROVE 4 * d + 1 \in Moments
      <2>1. d \in 0..LastDay /\ LastDay \in Nat
            BY LearningAssumption DEF Known
      <2>. QED BY <2>1 DEF Moments
<1>. DEFINE news == {[sym |-> s, at |-> 4 * d + 1, run |-> runs + 1,
                      label |-> CloseOf(NextBar(d), t)] : s \in Symbols, d \in days}
<1>6. news \in SUBSET RowSet /\ \A q \in news : q.run = runs + 1 /\ q.label # None
      <2>1. None \notin Moments
            BY LearningAssumption DEF None, Moments
      <2>2. ASSUME NEW s \in Symbols, NEW d \in days
            PROVE  LET q == [sym |-> s, at |-> 4 * d + 1, run |-> runs + 1,
                             label |-> CloseOf(NextBar(d), t)]
                   IN  q \in RowSet /\ q.run = runs + 1 /\ q.label # None
            <3>. DEFINE c == CloseOf(NextBar(d), t)
                        a == 4 * d + 1
            <3>1. c \in Times /\ c # None /\ a \in Moments
                  BY <1>4, <1>5, <2>1 DEF Times
            <3>. HIDE DEF c, a
            <3>2. LET q == [sym |-> s, at |-> a, run |-> runs + 1, label |-> c]
                  IN  q \in RowSet /\ q.run = runs + 1 /\ q.label # None
                  BY <1>2, <3>1 DEF RowSet
            <3>. QED BY <3>2 DEF a, c
      <2>. QED BY <2>2
<1>7. rows' = rows \cup news
      BY <1>1
<1>. HIDE DEF news
<1>. QED BY <1>6, <1>7

LEMMA BackfillType == ASSUME TypeIs, Backfill PROVE TypeIs'
<1>1. /\ UNCHANGED <<t, due, phantoms, loop, posterior, recounted, nSamples>>
      /\ runs < MaxRuns /\ runs' = runs + 1
      /\ fetched' = [s \in Symbols |-> t]
      BY DEF Backfill, PersistBars, model
<1>2. rows' \subseteq RowSet
      BY BackfillRows DEF TypeIs
<1>3. features' \subseteq FeatureSet
      <2>1. PICK days \in SUBSET TradingDays :
                features' = features \cup
                    {[sym |-> s, at |-> 4 * d + 1, from |-> "backfill"] :
                         s \in Symbols, d \in days}
            BY DEF Backfill, Known
      <2>2. ASSUME NEW d \in days PROVE 4 * d + 1 \in Moments
            <3>1. d \in 0..LastDay /\ LastDay \in Nat
                  BY LearningAssumption
            <3>. QED BY <3>1 DEF Moments
      <2>. QED BY <2>1, <2>2 DEF TypeIs, FeatureSet
<1>4. runs' \in 0..MaxRuns /\ fetched' \in [Symbols -> Times]
      BY <1>1, LearningAssumption DEF TypeIs, Times
<1>. QED BY <1>1, <1>2, <1>3, <1>4 DEF TypeIs

LEMMA RetrainType == ASSUME TypeIs, Retrain PROVE TypeIs'
<1>1. UNCHANGED <<t, due, features, rows, phantoms, runs>> /\ loop' = "idle"
      BY DEF Retrain, tables
<1>2. ASSUME NEW lost, SkipFit(Matrix(lost)) \/ Fit(Matrix(lost))
      PROVE  /\ fetched' \in [Symbols -> Times] /\ recounted' \in BOOLEAN /\ nSamples' \in Nat
      <2>1. CASE SkipFit(Matrix(lost))
            BY <2>1 DEF SkipFit, model, TypeIs
      <2>2. CASE Fit(Matrix(lost))
            <3>1. nSamples' \in Nat
                  BY <2>2, FiniteMatrix DEF Fit, TypeIs
            <3>2. recounted' \in BOOLEAN
                  BY <2>2 DEF Fit, Update, TypeIs
            <3>3. fetched' \in [Symbols -> Times]
                  BY <2>2 DEF Fit, Fetch, TypeIs, Times
            <3>. QED BY <3>1, <3>2, <3>3
      <2>. QED BY <1>2, <2>1, <2>2
<1>3. ASSUME FitRaises(Matrix({}))
      PROVE  /\ fetched' \in [Symbols -> Times] /\ recounted' \in BOOLEAN /\ nSamples' \in Nat
      BY <1>3 DEF FitRaises, TypeIs
<1>4. /\ fetched' \in [Symbols -> Times] /\ recounted' \in BOOLEAN /\ nSamples' \in Nat
      BY <1>2, <1>3 DEF Retrain
<1>. QED BY <1>1, <1>4 DEF TypeIs

LEMMA TypeStep == TypeIs /\ [Next]_vars => TypeIs'
<1>. SUFFICES ASSUME TypeIs, [Next]_vars PROVE TypeIs'
      OBVIOUS
<1>1. CASE PassTime
      BY <1>1 DEF PassTime, tables, model, TypeIs
<1>2. CASE CycleFails
      <2>1. fetched' \in [Symbols -> Times]
            BY <1>2 DEF CycleFails, Fetch, TypeIs, Times
      <2>. QED BY <1>2, <2>1 DEF CycleFails, tables, model, TypeIs
<1>3. CASE PhantomCycle
      <2>1. fetched' \in [Symbols -> Times] /\ features' \subseteq FeatureSet
            BY <1>3, SnapshotType, FeaturesType DEF PhantomCycle, TypeIs
      <2>2. phantoms' \subseteq PhantomSet
            BY <1>3 DEF PhantomCycle, PhantomSet, TypeIs, Times
      <2>. QED BY <1>3, <2>1, <2>2 DEF PhantomCycle, model, TypeIs
<1>4. CASE LiveCycle
      <2>1. fetched' \in [Symbols -> Times] /\ features' \subseteq FeatureSet
            BY <1>4, SnapshotType, FeaturesType DEF LiveCycle, TypeIs
      <2>2. rows' \subseteq RowSet
            BY <1>4, LearningAssumption DEF LiveCycle, RowSet, TypeIs, Times
      <2>. QED BY <1>4, <2>1, <2>2 DEF LiveCycle, model, TypeIs
<1>5. CASE ResolutionLoop
      BY <1>5, ResolveType DEF ResolutionLoop
<1>6. CASE Retrain
      BY <1>6, RetrainType
<1>7. CASE Restart
      BY <1>7 DEF Restart, tables, TypeIs
<1>8. CASE Backfill
      BY <1>8, BackfillType
<1>9. CASE UNCHANGED vars
      BY <1>9 DEF vars, tables, model, TypeIs
<1>. QED BY <1>1, <1>2, <1>3, <1>4, <1>5, <1>6, <1>7, <1>8, <1>9 DEF Next

LEMMA StartType == Init => TypeIs
<1>1. 4 * FirstDay \in Moments /\ 0 \in 0..MaxRuns
      <2>1. MaxRuns \in Nat /\ LastDay \in Nat /\ FirstDay \in 0..LastDay
            BY LearningAssumption
      <2>. QED BY <2>1 DEF Moments
<1>2. ASSUME Init PROVE due \in BOOLEAN
      BY <1>2 DEF Init
<1>3. ASSUME Init PROVE TypeIs
      <2>1. /\ t = 4 * FirstDay /\ fetched = [s \in Symbols |-> None]
            /\ features = {} /\ rows = {} /\ phantoms = {} /\ runs = 0
            /\ loop = "idle" /\ recounted = FALSE /\ nSamples = 0
            BY <1>3 DEF Init
      <2>. QED BY <1>1, <1>2, <1>3, <2>1 DEF TypeIs, Times
<1>. QED BY <1>3

(* The tables, the bars and the model are well-typed in every behaviour:   *)
(* a label and both prices of a phantom row are moments of the past, and   *)
(* the count of the last fit is a number.                                  *)
THEOREM TypeCorrect == Spec => []TypeOK
<1>. QED BY TypeIsOK, StartType, TypeStep, PTL DEF Spec
-----------------------------------------------------------------------------
SameOrder(r, q) == r.sym = q.sym /\ r.at = q.at /\ r.run = q.run

(* An order without a label is a routed one, it has no labelled double,    *)
(* and a routed order with a label is of the past.                         *)
Awaiting ==
    /\ \A r \in rows : r.label = None => r.run = 0
    /\ \A r \in rows : r.run = 0 /\ r.label # None => r.at < t
    /\ \A r, q \in rows : r.label = None /\ q.label # None => ~SameOrder(r, q)

(* What a run of the resolution writes into the rows.                      *)
LEMMA Labels ==
    ASSUME TypeIs, NEW execs \in SUBSET Resolvable, NEW r \in execs
    PROVE  LET q == [r EXCEPT !.label = LatestClose(r.sym)]
           IN  /\ q.label = LatestClose(r.sym) /\ q.label # None /\ SameOrder(r, q)
               /\ r.label = None /\ r.run = 0 /\ r.at < t
               /\ r \in rows /\ r.sym \in Symbols /\ BarDays(r.sym) # {}
<1>1. /\ r \in RowSet /\ r \in rows /\ r.label = None /\ r.run = 0 /\ r.at <= t - 4
      /\ BarDays(r.sym) # {} /\ fetched \in [Symbols -> Times] /\ t \in Moments
      BY DEF Resolvable, StaleRows, Stale, TypeIs
<1>2. r.sym \in Symbols /\ r.at \in Moments
      BY <1>1 DEF RowSet
<1>3. LatestClose(r.sym) \in Moments
      BY <1>1, <1>2, LatestCloseIs
<1>4. LatestClose(r.sym) # None
      BY <1>3 DEF Moments, None
<1>5. r.at < t
      BY <1>1, <1>2 DEF Moments
<1>. QED BY <1>1, <1>2, <1>4, <1>5 DEF RowSet, SameOrder

LEMMA AwaitingStep == TypeIs /\ Awaiting /\ [Next]_vars => Awaiting'
<1>. SUFFICES ASSUME TypeIs, Awaiting, [Next]_vars PROVE Awaiting'
      OBVIOUS
<1>1. ASSUME rows' = rows, t' \in {t, t + 1} PROVE Awaiting'
      <2>1. \A r \in rows : r.at \in Int /\ t \in Int
            BY DEF TypeIs, RowSet, Moments
      <2>2. \A r \in rows : r.at < t => r.at < t'
            BY <1>1, <2>1
      <2>. QED BY <1>1, <2>2 DEF Awaiting, SameOrder
<1>2. CASE LiveCycle
      <2>1. PICK routed \in SUBSET Symbols : rows' = rows \cup
                {[sym |-> s, at |-> t, run |-> 0, label |-> None] : s \in routed}
            BY <1>2 DEF LiveCycle
      <2>2. t' = t /\ t \in Int
            BY <1>2 DEF LiveCycle, TypeIs, Moments
      <2>. DEFINE news == {[sym |-> s, at |-> t, run |-> 0, label |-> None] : s \in routed}
      <2>3. \A r \in news : r.at = t /\ r.run = 0 /\ r.label = None
            OBVIOUS
      <2>4. rows' = rows \cup news
            BY <2>1
      <2>. HIDE DEF news
      <2>5. \A q \in rows : q.label # None /\ q.run = 0 => q.at # t
            BY <2>2 DEF Awaiting
      <2>6. \A r, q \in rows' : r.label = None /\ q.label # None => ~SameOrder(r, q)
            BY <2>3, <2>4, <2>5 DEF Awaiting, SameOrder
      <2>. QED BY <2>2, <2>3, <2>4, <2>6 DEF Awaiting
<1>3. CASE ResolutionLoop
      <2>1. PICK execs \in SUBSET Resolvable, shadows \in SUBSET Complete :
                Resolve(execs, shadows)
            BY <1>3 DEF ResolutionLoop
      <2>. DEFINE news == {[r EXCEPT !.label = LatestClose(r.sym)] : r \in execs}
      <2>2. rows' = (rows \ execs) \cup news /\ t' = t
            BY <2>1 DEF Resolve, ResolveExecutions
      <2>3. ASSUME NEW q \in news
            PROVE  /\ q.label # None
                   /\ \E r \in execs : SameOrder(r, q) /\ r.at < t
                                       /\ r.label = None /\ r.run = 0
            <3>1. PICK r \in execs : q = [r EXCEPT !.label = LatestClose(r.sym)]
                  OBVIOUS
            <3>2. /\ q.label # None /\ SameOrder(r, q)
                  /\ r.label = None /\ r.run = 0 /\ r.at < t
                  BY <3>1, Labels
            <3>. QED BY <3>2
      <2>4. \A r \in execs : r \in rows /\ r \in RowSet /\ r.label = None
            BY Labels DEF TypeIs
      <2>. HIDE DEF news
      <2>5. ASSUME NEW r \in rows', NEW q \in rows', r.label = None, q.label # None,
                   SameOrder(r, q)
            PROVE  FALSE
            <3>1. r \in rows /\ r \notin execs
                  BY <2>2, <2>3, <2>5
            <3>2. CASE q \in rows
                  BY <2>5, <3>1, <3>2 DEF Awaiting
            <3>3. CASE q \in news
                  <4>1. PICK p \in execs : SameOrder(p, q) /\ p.label = None
                        BY <2>3, <3>3
                  <4>2. p \in RowSet /\ r \in RowSet
                        BY <2>4, <3>1 DEF TypeIs
                  <4>3. p.sym = r.sym /\ p.at = r.at /\ p.run = r.run /\ p.label = r.label
                        BY <2>5, <4>1 DEF SameOrder
                  <4>4. p = r
                        BY <4>2, <4>3 DEF RowSet
                  <4>. QED BY <3>1, <4>4
            <3>. QED BY <2>2, <3>2, <3>3
      <2>6. \A q \in news : q.label # None /\ q.at < t
            BY <2>3 DEF SameOrder
      <2>7. \A r, q \in rows' : r.label = None /\ q.label # None => ~SameOrder(r, q)
            BY <2>5
      <2>. QED BY <2>2, <2>6, <2>7 DEF Awaiting
<1>4. CASE Backfill
      <2>1. PICK news \in SUBSET RowSet :
                /\ rows' = rows \cup news
                /\ \A q \in news : q.run = runs + 1 /\ q.label # None
            BY <1>4, BackfillRows
      <2>2. t' = t /\ runs + 1 # 0
            BY <1>4, LearningAssumption DEF Backfill, TypeIs
      <2>3. \A q \in news : q.run # 0 /\ q.label # None
            BY <2>1, <2>2
      <2>4. \A r, q \in rows' : r.label = None /\ q.label # None => ~SameOrder(r, q)
            BY <2>1, <2>3 DEF Awaiting, SameOrder
      <2>. QED BY <2>1, <2>2, <2>3, <2>4 DEF Awaiting
<1>5. CASE PassTime \/ CycleFails \/ PhantomCycle \/ Retrain \/ Restart \/ UNCHANGED vars
      <2>1. rows' = rows /\ t' \in {t, t + 1}
            BY <1>5 DEF PassTime, CycleFails, PhantomCycle, Retrain, Restart, vars, tables
      <2>. QED BY <1>1, <2>1
<1>. QED BY <1>2, <1>3, <1>4, <1>5 DEF Next

(* A label of this run is not older than the market was at the order.      *)
LEMMA LabelLater ==
    ASSUME TypeIs, NEW s \in Symbols, NEW x \in Moments, BarDays(s) # {}, fetched[s] >= x
    PROVE  LatestClose(s) >= LastPrint(x)
<1>0. fetched \in [Symbols -> Times] /\ x \in Nat
      BY DEF TypeIs, Moments
<1>1. PICK d \in BarDays(s) : /\ \A e \in BarDays(s) : e <= d
                              /\ LatestClose(s) = CloseOf(d, fetched[s])
      BY <1>0, LatestCloseIs
<1>2. /\ LatestClose(s) \in Nat /\ fetched[s] \in Nat /\ d \in Nat /\ 4 * d <= fetched[s]
      BY <1>0, <1>1, LatestCloseIs, BarDaysType, TradingDaysNat DEF Moments
<1>. DEFINE sessions == {c \in TradingDays : 4 * c <= x}
            e == CHOOSE c \in sessions : \A f \in sessions : f <= c
<1>3. CASE sessions = {}
      <2>1. LastPrint(x) = None
            BY <1>3 DEF LastPrint
      <2>. QED BY <1>2, <2>1 DEF None
<1>4. CASE sessions # {}
      <2>1. sessions \in SUBSET (0..LastDay)
            BY LearningAssumption
      <2>2. \E c \in sessions : \A f \in sessions : f <= c
            <3>. HIDE DEF sessions
            <3>. QED BY <1>4, <2>1, Latest
      <2>3. e \in sessions
            BY <2>2
      <2>4. LastPrint(x) = CloseOf(e, x)
            BY <1>4 DEF LastPrint
      <2>. HIDE DEF e
      <2>5. e \in TradingDays /\ 4 * e <= x /\ e \in Nat
            BY <2>3, TradingDaysNat
      <2>6. 4 * e <= fetched[s]
            BY <1>0, <1>2, <2>5
      <2>7. e \in BarDays(s)
            BY <2>5, <2>6 DEF BarDays
      <2>8. e <= d
            BY <1>1, <2>7
      <2>9. CloseOf(e, x) <= CloseOf(d, fetched[s])
            BY <1>0, <1>2, <2>5, <2>8, CloseLater
      <2>10. LatestClose(s) >= CloseOf(e, x)
            BY <1>0, <1>1, <1>2, <2>5, <2>9 DEF CloseOf
      <2>. QED BY <2>4, <2>10
<1>. QED BY <1>3, <1>4

LEMMA LabelStep ==
    ASSUME TypeIs, Awaiting, [Next]_vars,
           NEW r \in rows, NEW q \in rows',
           r.label = None, q.label # None, SameOrder(r, q), fetched[r.sym] >= r.at
    PROVE  q.label >= LastPrint(r.at)
<1>0. r.run = 0 /\ r.sym \in Symbols /\ r.at \in Moments
      BY DEF Awaiting, TypeIs, RowSet
<1>1. q \notin rows
      BY DEF Awaiting
<1>2. CASE ResolutionLoop
      <2>1. PICK execs \in SUBSET Resolvable, shadows \in SUBSET Complete :
                Resolve(execs, shadows)
            BY <1>2 DEF ResolutionLoop
      <2>2. PICK p \in execs : q = [p EXCEPT !.label = LatestClose(p.sym)]
            BY <1>1, <2>1 DEF Resolve, ResolveExecutions
      <2>3. q.label = LatestClose(p.sym) /\ SameOrder(p, q) /\ BarDays(p.sym) # {}
            BY <2>2, Labels
      <2>4. q.label = LatestClose(r.sym) /\ BarDays(r.sym) # {}
            BY <2>3 DEF SameOrder
      <2>. QED BY <1>0, <2>4, LabelLater
<1>3. CASE LiveCycle
      <2>1. q.label = None
            BY <1>1, <1>3 DEF LiveCycle
      <2>. QED BY <2>1
<1>4. CASE Backfill
      <2>1. q.run = runs + 1
            BY <1>1, <1>4, BackfillRows
      <2>2. q.run # 0
            BY <1>4, <2>1, LearningAssumption DEF TypeIs
      <2>. QED BY <1>0, <2>2 DEF SameOrder
<1>5. CASE PassTime \/ CycleFails \/ PhantomCycle \/ Retrain \/ Restart \/ UNCHANGED vars
      <2>1. rows' = rows
            BY <1>5 DEF PassTime, CycleFails, PhantomCycle, Retrain, Restart, vars, tables
      <2>. QED BY <1>1, <2>1
<1>. QED BY <1>2, <1>3, <1>4, <1>5 DEF Next

(* resolution.py:39, "most-recent close": for every calendar, failure and  *)
(* run of the tool, once bars have been written since an order was routed, *)
(* its label is not a price from before the market last traded.            *)
THEOREM LabelsFollowOrders == Spec => LabelNotBeforeOrder
<1>1. TypeIs /\ Awaiting /\ [Next]_vars =>
          (\A r \in rows, q \in rows' :
              /\ r.label = None /\ q.label # None
              /\ <<r.sym, r.at, r.run>> = <<q.sym, q.at, q.run>>
              /\ fetched[r.sym] >= r.at
              => q.label >= LastPrint(r.at))
      BY LabelStep DEF SameOrder
<1>2. Init => Awaiting
      BY DEF Init, Awaiting
<1>3. Spec => [](TypeIs /\ Awaiting)
      BY <1>2, StartType, TypeStep, AwaitingStep, PTL DEF Spec
<1>. QED BY <1>1, <1>3, PTL DEF Spec, LabelNotBeforeOrder
=============================================================================
