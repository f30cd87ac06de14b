------------------------ MODULE StopPenalties_proofs ------------------------
(***************************************************************************)
(* Proofs about the reconciliation of stop fills, for any number of fills, *)
(* hours and symbols and for every pattern of runs that are missed, cut    *)
(* short or half blind.                                                    *)
(***************************************************************************)
EXTENDS StopPenalties, FiniteSetTheorems, SequenceTheorems, TLAPS

USE PenaltiesAssumption

Rows == [sym : Symbols, at : 0..hour, fill : 0..MaxFills, active : BOOLEAN]
Ids == 1..Cardinality(fills)

(* The states of a run.                                                    *)
Run(T) == [pc |-> "fills", todo |-> T]
RunAt(T, f) == [pc |-> "penalty", todo |-> T, fill |-> f]
RunDecays(T) == [pc |-> "decay", todo |-> T]

LoopTyped ==
    \/ loop = Resting
    \/ \E T \in SUBSET fills : loop = Run(T)
    \/ \E T \in SUBSET fills : \E f \in T : loop = RunAt(T, f)
    \/ \E T \in SUBSET (1..Len(penalties)) : loop = RunDecays(T)

Typed ==
    /\ hour \in 0..LastHour
    /\ fills \subseteq Fill /\ IsFiniteSet(fills)
    /\ triggers \in Seq(1..MaxFills)
    /\ penalties \in Seq(Rows)
    /\ LoopTyped
    /\ upset \in BOOLEAN /\ cuts \in Nat /\ blind \subseteq 1..MaxFills

(* Fills are numbered as they come, and the tables know no others.         *)
Numbered ==
    /\ \A f \in fills : f.id \in Ids /\ f.sent <= f.at /\ f.at <= hour
    /\ \A f, g \in fills : f.id = g.id => f = g
    /\ \A i \in 1..Len(triggers) : triggers[i] \in Ids
    /\ \A i \in 1..Len(penalties) : penalties[i].fill \in Ids \cup {NoFill}

(* A run belongs to an hour, and is cut short once at most.                *)
CutsPerHour == IF loop = Resting THEN cuts <= hour ELSE cuts < hour
-----------------------------------------------------------------------------
(* What a run's states are, told apart by pc.                              *)
LEMMA LoopFacts ==
  ASSUME LoopTyped
  PROVE  /\ loop.pc \in {"idle", "fills", "penalty", "decay"}
         /\ loop.pc = "idle" <=> loop = Resting
         /\ loop.pc = "idle" => loop.todo = {}
         /\ loop.pc = "fills" => loop = Run(loop.todo)
         /\ loop.pc = "penalty" => loop = RunAt(loop.todo, loop.fill) /\ loop.fill \in loop.todo
         /\ loop.pc = "decay" => loop = RunDecays(loop.todo) /\ loop.todo \subseteq 1..Len(penalties)
         /\ loop.pc # "decay" => loop.todo \subseteq fills
<1>1. CASE loop = Resting
  BY <1>1 DEF Resting
<1>2. CASE \E T \in SUBSET fills : loop = Run(T)
  BY <1>2 DEF Run, Resting
<1>3. CASE \E T \in SUBSET fills : \E f \in T : loop = RunAt(T, f)
  BY <1>3 DEF RunAt, Resting
<1>4. CASE \E T \in SUBSET (1..Len(penalties)) : loop = RunDecays(T)
  BY <1>4 DEF RunDecays, Resting
<1>. QED
  BY <1>1, <1>2, <1>3, <1>4 DEF LoopTyped

(* One more element of a sequence is one more value in it.                 *)
LEMMA AppendedValues ==
  ASSUME NEW S, NEW q \in Seq(S), NEW e \in S
  PROVE  /\ Append(q, e) \in Seq(S) /\ Len(Append(q, e)) = Len(q) + 1
         /\ \A i \in 1..Len(q) : Append(q, e)[i] = q[i]
         /\ Append(q, e)[Len(q) + 1] = e
         /\ \A v : (\E i \in 1..Len(Append(q, e)) : Append(q, e)[i] = v)
                     <=> (\E i \in 1..Len(q) : q[i] = v) \/ v = e
<1>1. /\ Append(q, e) \in Seq(S) /\ Len(Append(q, e)) = Len(q) + 1
      /\ \A i \in 1..Len(q) : Append(q, e)[i] = q[i]
      /\ Append(q, e)[Len(q) + 1] = e
      /\ Len(q) \in Nat
  BY AppendProperties
<1>2. 1..Len(Append(q, e)) = 1..Len(q) \cup {Len(q) + 1}
  BY <1>1
<1>. QED
  BY <1>1, <1>2

(* A filled stop gets the next number.                                     *)
LEMMA StopFillFacts ==
  ASSUME Typed, NEW s \in Symbols, StopFill(s)
  PROVE  \E f \in Fill :
            /\ fills' = fills \cup {f} /\ IsFiniteSet(fills')
            /\ f \notin fills => Cardinality(fills') = Cardinality(fills) + 1
            /\ f.id = Cardinality(fills) + 1 /\ Cardinality(fills) \in Nat
            /\ f.at = hour /\ f.sent <= hour
            /\ UNCHANGED <<hour, triggers, penalties, loop, upset, cuts, blind>>
<1>1. PICK sent \in 0..hour :
          fills' = fills \cup {[id |-> Cardinality(fills) + 1, sym |-> s,
                               sent |-> sent, at |-> hour]}
  BY DEF StopFill
<1>. DEFINE f == [id |-> Cardinality(fills) + 1, sym |-> s, sent |-> sent, at |-> hour]
<1>2. fills' = fills \cup {f} /\ Cardinality(fills) < MaxFills /\ Cardinality(fills) \in Nat
  BY <1>1, FS_CardinalityType DEF Typed, StopFill
<1>3. f \in Fill /\ f.id = Cardinality(fills) + 1 /\ f.at = hour /\ f.sent <= hour
  BY <1>2 DEF Fill, Typed
<1>. HIDE DEF f
<1>4. IsFiniteSet(fills') /\ (f \notin fills => Cardinality(fills') = Cardinality(fills) + 1)
  BY <1>2, FS_AddElement DEF Typed
<1>. QED
  BY <1>2, <1>3, <1>4 DEF StopFill

(* What the steps of a run do to it.                                       *)
LEMMA RunSteps ==
  ASSUME LoopTyped
  PROVE  /\ Hour => /\ loop = Resting
                    /\ \/ loop' = Run(RecentFills(hour + 1)) /\ upset' = upset
                       \/ loop' = Resting /\ upset = FALSE /\ upset' = TRUE
         /\ \A f \in fills : SkipSeen(f) =>
                loop = Run(loop.todo) /\ f \in loop.todo /\ Reconciled(f) /\ loop' = Run(loop.todo \ {f})
         /\ \A f \in fills : InsertTrigger(f) =>
                loop = Run(loop.todo) /\ f \in loop.todo /\ loop' = RunAt(loop.todo, f)
         /\ RegisterPenalty =>
                /\ loop = RunAt(loop.todo, loop.fill) /\ loop.fill \in loop.todo
                /\ loop' = Run(loop.todo \ {loop.fill})
         /\ ReadExpired =>
                /\ loop = Run(loop.todo) /\ loop.todo = {}
                /\ \/ \E R \in SUBSET (1..Len(penalties)) : loop' = RunDecays(R) /\ upset' = upset
                   \/ loop' = Resting /\ upset' = FALSE
         /\ Deactivate => /\ loop = RunDecays(loop.todo)
                          /\ \E i \in loop.todo :
                                /\ penalties' = Append(penalties, Row(penalties[i].sym, NoFill, FALSE))
                                /\ loop' = RunDecays(loop.todo \ {i})
         /\ Complete => loop = RunDecays(loop.todo) /\ loop' = Resting /\ upset' = FALSE
         /\ BreakOff => /\ loop # Resting /\ loop' = Resting /\ cuts' = cuts + 1
                        /\ ~upset /\ upset'
<1>0. /\ loop.pc = "fills" => loop = Run(loop.todo)
      /\ loop.pc = "penalty" => loop = RunAt(loop.todo, loop.fill) /\ loop.fill \in loop.todo
      /\ loop.pc = "decay" => loop = RunDecays(loop.todo)
  BY LoopFacts
<1>1. Hour => /\ loop = Resting
              /\ \/ loop' = Run(RecentFills(hour + 1)) /\ upset' = upset
                 \/ loop' = Resting /\ upset = FALSE /\ upset' = TRUE
  BY DEF Hour, Run
<1>2. ASSUME NEW f \in fills, SkipSeen(f)
      PROVE  loop = Run(loop.todo) /\ f \in loop.todo /\ Reconciled(f) /\ loop' = Run(loop.todo \ {f})
  BY <1>0, <1>2 DEF SkipSeen, Run
<1>3. ASSUME NEW f \in fills, InsertTrigger(f)
      PROVE  loop = Run(loop.todo) /\ f \in loop.todo /\ loop' = RunAt(loop.todo, f)
  BY <1>0, <1>3 DEF InsertTrigger, RunAt
<1>4. ASSUME RegisterPenalty
      PROVE  /\ loop = RunAt(loop.todo, loop.fill) /\ loop.fill \in loop.todo
             /\ loop' = Run(loop.todo \ {loop.fill})
  BY <1>0, <1>4 DEF RegisterPenalty, Run
<1>5. ASSUME ReadExpired
      PROVE  /\ loop = Run(loop.todo) /\ loop.todo = {}
             /\ \/ \E R \in SUBSET (1..Len(penalties)) : loop' = RunDecays(R) /\ upset' = upset
                \/ loop' = Resting /\ upset' = FALSE
  <2>. DEFINE R == {i \in 1..Len(penalties) : penalties[i].active /\ Expired(penalties[i])}
  <2>1. R \in SUBSET (1..Len(penalties))
    OBVIOUS
  <2>2. \/ loop' = [pc |-> "decay", todo |-> R] /\ upset' = upset
        \/ loop' = Resting /\ upset' = FALSE
    BY <1>5 DEF ReadExpired
  <2>. HIDE DEF R
  <2>. QED
    BY <1>0, <1>5, <2>1, <2>2 DEF ReadExpired, RunDecays
<1>6. ASSUME Deactivate
      PROVE  /\ loop = RunDecays(loop.todo)
             /\ \E i \in loop.todo :
                   /\ penalties' = Append(penalties, Row(penalties[i].sym, NoFill, FALSE))
                   /\ loop' = RunDecays(loop.todo \ {i})
  BY <1>0, <1>6 DEF Deactivate, RunDecays
<1>7. Complete => loop = RunDecays(loop.todo) /\ loop' = Resting /\ upset' = FALSE
  BY <1>0 DEF Complete
<1>8. BreakOff => /\ loop # Resting /\ loop' = Resting /\ cuts' = cuts + 1
                  /\ ~upset /\ upset'
  BY DEF BreakOff
<1>. QED
  BY <1>1, <1>2, <1>3, <1>4, <1>5, <1>6, <1>7, <1>8

LEMMA TypedInit == Init => Typed /\ Numbered /\ CutsPerHour
<1>. SUFFICES ASSUME Init PROVE Typed /\ Numbered /\ CutsPerHour
  OBVIOUS
<1>1. Typed
  <2>1. hour \in 0..LastHour /\ cuts \in Nat
    BY DEF Init
  <2>2. IsFiniteSet(fills) /\ LoopTyped
    BY FS_EmptySet DEF Init, LoopTyped
  <2>3. triggers \in Seq(1..MaxFills) /\ penalties \in Seq(Rows)
    BY EmptySeq DEF Init
  <2>. QED
    BY <2>1, <2>2, <2>3 DEF Init, Typed
<1>. QED
  BY <1>1 DEF Init, Numbered, CutsPerHour

(* The row that is written is one of the table's.                          *)
LEMMA RowTyped ==
  ASSUME Typed, NEW s \in Symbols, NEW n \in 0..MaxFills, NEW b \in BOOLEAN
  PROVE  /\ Row(s, n, b) \in Rows
         /\ Row(s, n, b).fill = n /\ Row(s, n, b).at = hour /\ Row(s, n, b).active = b
  BY DEF Typed, Row, Rows

LEMMA TypedPreserved == Typed /\ [Next]_vars => Typed'
<1>. SUFFICES ASSUME Typed, [Next]_vars PROVE Typed'
  OBVIOUS
<1>0. LoopTyped /\ hour \in 0..LastHour /\ penalties \in Seq(Rows)
  BY DEF Typed
<1>1. ASSUME NEW s \in Symbols, StopFill(s) PROVE Typed'
  <2>1. PICK f \in Fill :
            /\ fills' = fills \cup {f} /\ IsFiniteSet(fills')
            /\ UNCHANGED <<hour, triggers, penalties, loop, upset, cuts, blind>>
    BY <1>1, StopFillFacts
  <2>2. LoopTyped'
    BY <1>0, <2>1 DEF LoopTyped
  <2>3. Rows' = Rows
    BY <2>1 DEF Rows
  <2>. QED
    BY <2>1, <2>2, <2>3 DEF Typed
<1>2. CASE Hour
  <2>1. hour' = hour + 1 /\ hour' \in 0..LastHour /\ 0..hour \subseteq 0..hour'
        /\ UNCHANGED <<fills, triggers, penalties, cuts, blind>>
    BY <1>0, <1>2 DEF Hour
  <2>2. Rows \subseteq Rows'
    BY <2>1 DEF Rows
  <2>3. LoopTyped'
    <3>1. RecentFills(hour + 1) \in SUBSET fills'
      BY <2>1 DEF RecentFills
    <3>. QED
      BY <1>0, <1>2, <3>1, RunSteps DEF LoopTyped
  <2>4. upset' \in BOOLEAN
    BY <1>2 DEF Hour, Typed
  <2>5. penalties' \in Seq(Rows')
    BY <1>0, <2>1, <2>2, SeqMonotonic
  <2>. QED
    BY <2>1, <2>3, <2>4, <2>5 DEF Typed
<1>3. ASSUME NEW f \in fills, SkipSeen(f) PROVE Typed'
  <2>1. LoopTyped'
    <3>1. loop' = Run(loop.todo \ {f}) /\ loop.todo \subseteq fills /\ fills' = fills
      BY <1>0, <1>3, RunSteps, LoopFacts DEF SkipSeen
    <3>. QED
      BY <3>1 DEF LoopTyped
  <2>. QED
    BY <1>3, <2>1 DEF SkipSeen, Typed, Rows
<1>4. ASSUME NEW f \in fills, InsertTrigger(f) PROVE Typed'
  <2>1. LoopTyped'
    <3>1. /\ loop' = RunAt(loop.todo, f) /\ f \in loop.todo
          /\ loop.todo \subseteq fills /\ fills' = fills
      BY <1>0, <1>4, RunSteps, LoopFacts DEF InsertTrigger
    <3>. QED
      BY <3>1 DEF LoopTyped
  <2>2. f.id \in 1..MaxFills
    BY DEF Typed, Fill
  <2>3. triggers' \in Seq(1..MaxFills) /\ blind' \subseteq 1..MaxFills
    <3>1. triggers' = Append(triggers, f.id) /\ blind' \subseteq blind \cup {f.id}
      BY <1>4 DEF InsertTrigger
    <3>2. triggers \in Seq(1..MaxFills) /\ blind \subseteq 1..MaxFills
      BY DEF Typed
    <3>. DEFINE S == 1..MaxFills
    <3>. HIDE DEF S
    <3>3. triggers' \in Seq(S)
      BY <2>2, <3>1, <3>2, AppendedValues DEF S
    <3>. QED
      BY <2>2, <3>1, <3>2, <3>3 DEF S
  <2>. QED
    BY <1>4, <2>1, <2>3 DEF InsertTrigger, Typed, Rows
<1>5. CASE RegisterPenalty
  <2>1. loop.fill \in fills /\ Rows' = Rows
    BY <1>0, <1>5, RunSteps, LoopFacts DEF RegisterPenalty, Rows
  <2>2. loop.fill.sym \in Symbols /\ loop.fill.id \in 0..MaxFills
    BY <2>1 DEF Typed, Fill
  <2>3. Row(loop.fill.sym, loop.fill.id, TRUE) \in Rows
    BY <2>2, RowTyped
  <2>4. penalties' \in Seq(Rows')
    <3>1. penalties' = Append(penalties, Row(loop.fill.sym, loop.fill.id, TRUE))
      BY <1>5 DEF RegisterPenalty
    <3>. QED
      BY <1>0, <2>1, <2>3, <3>1, AppendedValues
  <2>5. LoopTyped'
    <3>1. /\ loop' = Run(loop.todo \ {loop.fill})
          /\ loop.todo \subseteq fills /\ fills' = fills
      BY <1>0, <1>5, RunSteps, LoopFacts DEF RegisterPenalty
    <3>. QED
      BY <3>1 DEF LoopTyped
  <2>. QED
    BY <1>5, <2>4, <2>5 DEF RegisterPenalty, Typed
<1>6. CASE ReadExpired
  <2>1. LoopTyped' /\ upset' \in BOOLEAN
    BY <1>0, <1>6, RunSteps DEF LoopTyped, ReadExpired, Typed
  <2>. QED
    BY <1>6, <2>1 DEF ReadExpired, Typed, Rows
<1>7. CASE Deactivate
  <2>1. PICK i \in loop.todo :
           /\ penalties' = Append(penalties, Row(penalties[i].sym, NoFill, FALSE))
           /\ loop' = RunDecays(loop.todo \ {i})
    BY <1>0, <1>7, RunSteps
  <2>2. loop.todo \subseteq 1..Len(penalties) /\ Rows' = Rows
    BY <1>0, <1>7, LoopFacts DEF Deactivate, Rows
  <2>3. penalties[i].sym \in Symbols /\ NoFill \in 0..MaxFills
    <3>1. penalties[i] \in Rows
      BY <1>0, <2>2, ElementOfSeq
    <3>. QED
      BY <3>1 DEF Rows, NoFill
  <2>4. Row(penalties[i].sym, NoFill, FALSE) \in Rows
    BY <2>3, RowTyped
  <2>5. penalties' \in Seq(Rows') /\ Len(penalties') = Len(penalties) + 1
    <3>. DEFINE e == Row(penalties[i].sym, NoFill, FALSE)
    <3>1. penalties' = Append(penalties, e) /\ e \in Rows
      BY <2>1, <2>4
    <3>. HIDE DEF e
    <3>. QED
      BY <1>0, <2>2, <3>1, AppendedValues
  <2>6. loop.todo \ {i} \subseteq 1..Len(penalties')
    BY <1>0, <2>2, <2>5
  <2>7. LoopTyped'
    BY <2>1, <2>6 DEF LoopTyped
  <2>. QED
    BY <1>7, <2>5, <2>7 DEF Deactivate, Typed
<1>8. CASE Complete \/ BreakOff
  <2>1. LoopTyped' /\ upset' \in BOOLEAN
    BY <1>8 DEF LoopTyped, Complete, BreakOff
  <2>2. cuts' \in Nat
    BY <1>8 DEF Complete, BreakOff, Typed
  <2>3. Rows' = Rows /\ UNCHANGED <<hour, fills, triggers, penalties, blind>>
    BY <1>8 DEF Complete, BreakOff, Rows
  <2>. QED
    BY <2>1, <2>2, <2>3 DEF Typed
<1>9. CASE UNCHANGED vars
  BY <1>9 DEF vars, Typed, LoopTyped, Rows
<1>. QED
  BY <1>1, <1>2, <1>3, <1>4, <1>5, <1>6, <1>7, <1>8, <1>9 DEF Next

LEMMA CutsPreserved == Typed /\ CutsPerHour /\ [Next]_vars => CutsPerHour'
<1>. SUFFICES ASSUME Typed, CutsPerHour, [Next]_vars PROVE CutsPerHour'
  OBVIOUS
<1>0. hour \in Nat /\ cuts \in Nat /\ LoopTyped
  BY DEF Typed
<1>1. CASE Hour
  <2>1. cuts <= hour /\ cuts' = cuts /\ hour' = hour + 1
    BY <1>1, RunSteps, <1>0 DEF Hour, CutsPerHour
  <2>2. cuts' <= hour' /\ cuts' < hour'
    BY <1>0, <2>1
  <2>. QED
    BY <2>2 DEF CutsPerHour
<1>2. CASE BreakOff
  <2>1. cuts < hour /\ cuts' = cuts + 1 /\ hour' = hour /\ loop' = Resting
    BY <1>2, RunSteps, <1>0 DEF BreakOff, CutsPerHour
  <2>2. cuts' <= hour'
    BY <1>0, <2>1
  <2>. QED
    BY <2>1, <2>2 DEF CutsPerHour
<1>3. CASE UNCHANGED <<hour, loop, cuts>>
  BY <1>3 DEF CutsPerHour
<1>4. CASE ReadExpired \/ Deactivate \/ Complete \/ RegisterPenalty \/ \E f \in fills : SkipSeen(f) \/ InsertTrigger(f)
  <2>1. cuts < hour /\ UNCHANGED <<hour, cuts>>
    <3>1. loop # Resting
      <4>1. loop.pc \in {"fills", "penalty", "decay"}
        BY <1>4 DEF ReadExpired, Deactivate, Complete, RegisterPenalty, SkipSeen, InsertTrigger
      <4>. QED
        BY <4>1 DEF Resting
    <3>. QED
      BY <1>4, <3>1 DEF CutsPerHour, ReadExpired, Deactivate, Complete, RegisterPenalty, SkipSeen, InsertTrigger
  <2>2. cuts' <= hour' /\ cuts' < hour'
    BY <1>0, <2>1
  <2>. QED
    BY <2>2 DEF CutsPerHour
<1>. QED
  BY <1>1, <1>2, <1>3, <1>4 DEF Next, vars, StopFill

LEMMA NumberedPreserved == Typed /\ Numbered /\ [Next]_vars => Numbered'
<1>. SUFFICES ASSUME Typed, Numbered, [Next]_vars PROVE Numbered'
  OBVIOUS
<1>0. hour \in Nat /\ LoopTyped /\ Cardinality(fills) \in Nat /\ penalties \in Seq(Rows)
      /\ triggers \in Seq(1..MaxFills)
  BY FS_CardinalityType DEF Typed
<1>1. ASSUME NEW s \in Symbols, StopFill(s) PROVE Numbered'
  <2>1. PICK f \in Fill :
            /\ f.id = Cardinality(fills) + 1 /\ f.at = hour /\ f.sent <= hour
            /\ fills' = fills \cup {f}
            /\ f \notin fills => Cardinality(fills') = Cardinality(fills) + 1
            /\ UNCHANGED <<hour, triggers, penalties>>
    BY <1>1, StopFillFacts
  <2>2. \A g \in fills : g.id \in 1..Cardinality(fills)
    BY DEF Numbered, Ids
  <2>3. f \notin fills /\ \A g \in fills : g.id # f.id
    BY <1>0, <2>1, <2>2
  <2>4. Ids' = Ids \cup {Cardinality(fills) + 1}
    BY <1>0, <2>1, <2>3 DEF Ids
  <2>5. f.id \in Ids' /\ f.sent <= f.at /\ f.at <= hour'
    BY <1>0, <2>1, <2>4
  <2>. QED
    BY <2>1, <2>3, <2>4, <2>5 DEF Numbered
<1>2. CASE Hour
  <2>1. hour' = hour + 1 /\ UNCHANGED <<fills, triggers, penalties>>
    BY <1>2 DEF Hour
  <2>2. \A f \in fills : f.at <= hour'
    <3>1. \A f \in fills : f.at \in Nat /\ f.at <= hour
      BY DEF Numbered, Typed, Fill
    <3>. QED
      BY <1>0, <2>1, <3>1
  <2>. QED
    BY <2>1, <2>2 DEF Numbered, Ids
<1>3. ASSUME NEW f \in fills, InsertTrigger(f) PROVE Numbered'
  <2>1. triggers' = Append(triggers, f.id) /\ UNCHANGED <<hour, fills, penalties>>
    BY <1>3 DEF InsertTrigger
  <2>2. f.id \in Ids /\ \A i \in 1..Len(triggers) : triggers[i] \in Ids
    BY DEF Numbered
  <2>3. \A i \in 1..Len(triggers') : triggers'[i] \in Ids
    BY <1>0, <2>1, <2>2
  <2>. QED
    BY <2>1, <2>3 DEF Numbered, Ids
<1>4. CASE RegisterPenalty \/ Deactivate
  <2>1. \E s \in Symbols, n \in Ids \cup {NoFill}, b \in BOOLEAN :
            penalties' = Append(penalties, Row(s, n, b))
    <3>1. CASE RegisterPenalty
      <4>1. loop.fill \in fills
        BY <1>0, <3>1, RunSteps, LoopFacts DEF RegisterPenalty
      <4>2. loop.fill.sym \in Symbols /\ loop.fill.id \in Ids
        BY <4>1 DEF Typed, Fill, Numbered
      <4>. QED
        BY <3>1, <4>2 DEF RegisterPenalty
    <3>2. CASE Deactivate
      <4>1. PICK i \in loop.todo : penalties' = Append(penalties, Row(penalties[i].sym, NoFill, FALSE))
        BY <3>2 DEF Deactivate
      <4>2. penalties[i] \in Rows
        BY <1>0, <3>2, LoopFacts, ElementOfSeq DEF Deactivate
      <4>. QED
        BY <4>1, <4>2 DEF Rows
    <3>. QED
      BY <1>4, <3>1, <3>2
  <2>2. PICK s \in Symbols, n \in Ids \cup {NoFill}, b \in BOOLEAN :
            penalties' = Append(penalties, Row(s, n, b))
    BY <2>1
  <2>3. UNCHANGED <<hour, fills, triggers>>
    BY <1>4 DEF RegisterPenalty, Deactivate
  <2>4. Row(s, n, b).fill = n
    BY DEF Row
  <2>5. \A i \in 1..Len(penalties') : penalties'[i].fill \in Ids \cup {NoFill}
    <3>. DEFINE e == Row(s, n, b)
    <3>1. penalties' = Append(penalties, e) /\ e.fill \in Ids \cup {NoFill}
      BY <2>2, <2>4
    <3>2. \A i \in 1..Len(penalties) : penalties[i].fill \in Ids \cup {NoFill}
      BY DEF Numbered
    <3>. HIDE DEF e
    <3>. QED
      BY <1>0, <3>1, <3>2
  <2>. QED
    BY <2>3, <2>5 DEF Numbered, Ids
<1>5. CASE UNCHANGED <<hour, fills, triggers, penalties>>
  BY <1>5 DEF Numbered, Ids
<1>. QED
  BY <1>1, <1>2, <1>3, <1>4, <1>5 DEF Next, vars, SkipSeen, ReadExpired, Complete, BreakOff

LEMMA Basis == Spec => [](Typed /\ Numbered /\ CutsPerHour)
<1>1. Typed /\ Numbered /\ CutsPerHour /\ [Next]_vars => (Typed /\ Numbered /\ CutsPerHour)'
  BY TypedPreserved, NumberedPreserved, CutsPreserved
<1>. QED
  BY <1>1, TypedInit, PTL DEF Spec

(* Type correctness: the tables name known fills only, no row is dated     *)
(* ahead of its hour, and there is one cut an hour at most.                *)
THEOREM TypeCorrect == Spec => []TypeOK
<1>1. Typed /\ CutsPerHour => TypeOK
  <2>. SUFFICES ASSUME Typed, CutsPerHour PROVE TypeOK
    OBVIOUS
  <2>1. cuts \in 0..LastHour
    BY DEF Typed, CutsPerHour
  <2>2. loop.pc \in {"idle", "fills", "penalty", "decay"}
    BY LoopFacts DEF Typed
  <2>3. loop.todo \subseteq IF loop.pc = "decay" THEN 1..Len(penalties) ELSE fills
    BY LoopFacts DEF Typed
  <2>. QED
    BY <2>1, <2>2, <2>3 DEF Typed, TypeOK, Rows
<1>. QED
  BY <1>1, Basis, PTL
-----------------------------------------------------------------------------
LEMMA PenaltiesFinite ==
  ASSUME Typed, NEW f
  PROVE  IsFiniteSet(PenaltiesOf(f)) /\ Cardinality(PenaltiesOf(f)) \in Nat
<1>1. IsFiniteSet(1..Len(penalties))
  BY FS_Interval DEF Typed
<1>2. PenaltiesOf(f) \subseteq 1..Len(penalties)
  BY DEF PenaltiesOf
<1>. QED
  BY <1>1, <1>2, FS_Subset, FS_CardinalityType

(* Only _register_penalty adds to the penalties of a fill, and adds one.   *)
LEMMA PenaltiesChange ==
  ASSUME Typed, Numbered, [Next]_vars, NEW f \in fills
  PROVE  \/ PenaltiesOf(f)' = PenaltiesOf(f) /\ ~(RegisterPenalty /\ loop.fill = f)
         \/ /\ RegisterPenalty /\ loop.fill = f
            /\ PenaltiesOf(f)' # {}
            /\ Cardinality(PenaltiesOf(f)') = Cardinality(PenaltiesOf(f)) + 1
<1>0. LoopTyped /\ penalties \in Seq(Rows) /\ f.id \in 1..MaxFills /\ f.id # NoFill
  BY DEF Typed, Fill, NoFill
<1>1. ASSUME NEW r, penalties' = Append(penalties, r)
      PROVE  PenaltiesOf(f)' = IF r.fill = f.id THEN PenaltiesOf(f) \cup {Len(penalties) + 1}
                               ELSE PenaltiesOf(f)
  <2>1. /\ Len(penalties') = Len(penalties) + 1 /\ Len(penalties) \in Nat
        /\ \A i \in 1..Len(penalties) : penalties'[i] = penalties[i]
        /\ penalties'[Len(penalties) + 1] = r
    BY <1>0, <1>1
  <2>2. 1..Len(penalties') = 1..Len(penalties) \cup {Len(penalties) + 1}
    BY <2>1
  <2>. QED
    BY <2>1, <2>2 DEF PenaltiesOf
<1>2. CASE RegisterPenalty
  <2>. DEFINE r == Row(loop.fill.sym, loop.fill.id, TRUE)
  <2>1. penalties' = Append(penalties, r) /\ r.fill = loop.fill.id
    BY <1>2 DEF RegisterPenalty, Row
  <2>2. loop.fill \in fills
    BY <1>0, <1>2, LoopFacts DEF RegisterPenalty
  <2>3. loop.fill.id = f.id <=> loop.fill = f
    BY <2>2 DEF Numbered
  <2>4. Len(penalties) + 1 \notin PenaltiesOf(f)
    BY <1>0 DEF PenaltiesOf
  <2>. HIDE DEF r
  <2>5. CASE loop.fill = f
    <3>1. PenaltiesOf(f)' = PenaltiesOf(f) \cup {Len(penalties) + 1}
      BY <1>1, <2>1, <2>3, <2>5
    <3>2. Cardinality(PenaltiesOf(f) \cup {Len(penalties) + 1}) = Cardinality(PenaltiesOf(f)) + 1
      BY <2>4, PenaltiesFinite, FS_AddElement
    <3>. QED
      BY <1>2, <2>5, <3>1, <3>2
  <2>6. CASE loop.fill # f
    BY <1>1, <2>1, <2>3, <2>6
  <2>. QED
    BY <2>5, <2>6
<1>3. CASE Deactivate
  <2>1. PICK i \in loop.todo : penalties' = Append(penalties, Row(penalties[i].sym, NoFill, FALSE))
    BY <1>3 DEF Deactivate
  <2>2. Row(penalties[i].sym, NoFill, FALSE).fill # f.id
    BY <1>0 DEF Row
  <2>3. ~RegisterPenalty
    BY <1>3 DEF Deactivate, RegisterPenalty
  <2>. QED
    BY <1>1, <2>1, <2>2, <2>3
<1>4. CASE UNCHANGED penalties
  <2>1. ~RegisterPenalty
    <3>1. \A e : Append(penalties, e) # penalties
      BY <1>0
    <3>. QED
      BY <1>4, <3>1 DEF RegisterPenalty
  <2>. QED
    BY <1>4, <2>1 DEF PenaltiesOf
<1>. QED
  BY <1>2, <1>3, <1>4
     DEF Next, vars, StopFill, Hour, SkipSeen, InsertTrigger, ReadExpired, Complete, BreakOff

(* Only an inserted row makes a fill a reconciled one.                     *)
LEMMA ReconciledChange ==
  ASSUME Typed, Numbered, [Next]_vars, NEW f \in fills
  PROVE  /\ Reconciled(f) => Reconciled(f)'
         /\ Reconciled(f)' <=> Reconciled(f) \/ InsertTrigger(f)
<1>0. triggers \in Seq(1..MaxFills)
  BY DEF Typed
<1>1. ASSUME NEW g \in fills, InsertTrigger(g)
      PROVE  Reconciled(f)' <=> Reconciled(f) \/ f = g
  <2>1. triggers' = Append(triggers, g.id) /\ g.id \in 1..MaxFills
    BY <1>1 DEF InsertTrigger, Typed, Fill
  <2>2. (\E i \in 1..Len(triggers') : triggers'[i] = f.id)
            <=> (\E i \in 1..Len(triggers) : triggers[i] = f.id) \/ f.id = g.id
    <3>. DEFINE S == 1..MaxFills
    <3>. HIDE DEF S
    <3>1. triggers \in Seq(S) /\ g.id \in S
      BY <1>0, <2>1 DEF S
    <3>. QED
      BY <2>1, <3>1, AppendedValues
  <2>3. f.id = g.id <=> f = g
    BY DEF Numbered
  <2>. QED
    BY <2>2, <2>3 DEF Reconciled
<1>2. ASSUME NEW g \in fills, InsertTrigger(g), InsertTrigger(f)
      PROVE  f = g
  BY <1>0, <1>1, <1>2 DEF InsertTrigger, Numbered
<1>3. CASE \E g \in fills : InsertTrigger(g)
  BY <1>1, <1>2, <1>3
<1>4. CASE UNCHANGED triggers
  <2>1. ~InsertTrigger(f)
    BY <1>0, <1>4 DEF InsertTrigger
  <2>. QED
    BY <1>4, <2>1 DEF Reconciled
<1>. QED
  BY <1>3, <1>4
     DEF Next, vars, StopFill, Hour, SkipSeen, RegisterPenalty, ReadExpired, Deactivate,
         Complete, BreakOff

(* A fill that has just happened is on no record.                          *)
LEMMA NewFill ==
  ASSUME Typed, Numbered, [Next]_vars, NEW f \in fills', f \notin fills
  PROVE  /\ \E s \in Symbols : StopFill(s)
         /\ f.at = hour /\ ~Reconciled(f)' /\ PenaltiesOf(f)' = {}
         /\ fills' = fills \cup {f}
         /\ UNCHANGED <<hour, triggers, penalties, loop, upset, cuts, blind>>
<1>1. PICK s \in Symbols : StopFill(s)
  BY DEF Next, vars, Hour, SkipSeen, InsertTrigger, RegisterPenalty, ReadExpired, Deactivate,
         Complete, BreakOff
<1>2. PICK g \in Fill :
          /\ fills' = fills \cup {g} /\ g.at = hour
          /\ g.id = Cardinality(fills) + 1 /\ Cardinality(fills) \in Nat
          /\ UNCHANGED <<hour, triggers, penalties, loop, upset, cuts, blind>>
  BY <1>1, StopFillFacts
<1>3. /\ f.at = hour /\ f.id = Cardinality(fills) + 1 /\ Cardinality(fills) \in Nat
      /\ fills' = fills \cup {f}
      /\ UNCHANGED <<hour, triggers, penalties, loop, upset, cuts, blind>>
  BY <1>2
<1>4. \A i \in 1..Len(triggers) : triggers[i] # f.id
  BY <1>3 DEF Numbered, Ids
<1>5. \A i \in 1..Len(penalties) : penalties[i].fill # f.id
  BY <1>3 DEF Numbered, Ids, NoFill
<1>. QED
  BY <1>1, <1>2, <1>3, <1>4, <1>5 DEF Reconciled, PenaltiesOf
-----------------------------------------------------------------------------
InRun(f) == loop.pc \in {"fills", "penalty"} /\ f \in loop.todo
Owed(f) == IF InRun(f) THEN 1 ELSE 0

(* The run has written the row of f and not yet its penalty.               *)
At(f) == loop.pc = "penalty" /\ loop.fill = f

(* A fill is penalised after it is put on record, and while it counts as   *)
(* new for the first time it has no penalty yet.                           *)
RowFirst ==
    \A f \in fills :
        /\ PenaltiesOf(f) # {} => Reconciled(f)
        /\ At(f) => Reconciled(f)
        /\ At(f) /\ f.id \notin blind => PenaltiesOf(f) = {}
        /\ f.id \notin blind => Cardinality(PenaltiesOf(f)) <= 1

(* The penalties a fill has, and the one the run under way may add, are no *)
(* more than the hours since the fill and no more than those of a window.  *)
WithinWindow ==
    \A f \in fills : /\ Cardinality(PenaltiesOf(f)) + Owed(f) <= Window
                     /\ Cardinality(PenaltiesOf(f)) + Owed(f) <= hour - f.at

Basic == Typed /\ Numbered /\ CutsPerHour

LEMMA AtChange ==
  ASSUME Typed, [Next]_vars, NEW f \in fills, At(f)'
  PROVE  InsertTrigger(f) \/ (At(f) /\ UNCHANGED <<triggers, penalties, blind>>)
<1>0. LoopTyped
  BY DEF Typed
<1>1. ASSUME NEW g \in fills, InsertTrigger(g) PROVE InsertTrigger(f)
  BY <1>1 DEF InsertTrigger, At
<1>2. ASSUME loop' = Resting \/ \E T : loop' = Run(T) \/ loop' = RunDecays(T) PROVE FALSE
  BY <1>2 DEF At, Run, RunDecays, Resting
<1>3. ~(Hour \/ RegisterPenalty \/ Complete \/ BreakOff)
  BY <1>0, <1>2, RunSteps
<1>4. ~ReadExpired /\ ~Deactivate
  BY <1>0, <1>2, RunSteps
<1>5. ~\E g \in fills : SkipSeen(g)
  BY <1>0, <1>2, RunSteps
<1>6. CASE UNCHANGED <<triggers, penalties, loop, blind>>
  BY <1>6 DEF At
<1>. QED
  BY <1>1, <1>3, <1>4, <1>5, <1>6 DEF Next, vars, StopFill

LEMMA RowFirstPreserved == Basic /\ RowFirst /\ [Next]_vars => RowFirst'
<1>. SUFFICES ASSUME Basic, RowFirst, [Next]_vars, NEW f \in fills'
     PROVE  /\ PenaltiesOf(f)' # {} => Reconciled(f)'
            /\ At(f)' => Reconciled(f)'
            /\ At(f)' /\ f.id \notin blind' => PenaltiesOf(f)' = {}
            /\ f.id \notin blind' => Cardinality(PenaltiesOf(f)') <= 1
  BY DEF RowFirst
<1>. USE DEF Basic
<1>0. blind \subseteq blind'
  BY DEF Next, vars, StopFill, Hour, SkipSeen, InsertTrigger, RegisterPenalty, ReadExpired,
         Deactivate, Complete, BreakOff
<1>1. CASE f \notin fills
  <2>1. ~Reconciled(f)' /\ PenaltiesOf(f)' = {} /\ loop' = loop
    BY <1>1, NewFill
  <2>2. ~At(f)'
    <3>1. loop.pc = "penalty" => loop.fill \in fills
      BY LoopFacts DEF Typed
    <3>. QED
      BY <1>1, <2>1, <3>1 DEF At
  <2>. QED
    BY <2>1, <2>2, FS_EmptySet
<1>2. CASE f \in fills
  <2>0. /\ PenaltiesOf(f) # {} => Reconciled(f)
        /\ At(f) => Reconciled(f)
        /\ At(f) /\ f.id \notin blind => PenaltiesOf(f) = {}
        /\ f.id \notin blind => Cardinality(PenaltiesOf(f)) <= 1
    BY <1>2 DEF RowFirst
  <2>1. PenaltiesOf(f)' # {} => Reconciled(f)'
    BY <1>2, <2>0, PenaltiesChange, ReconciledChange DEF At, RegisterPenalty
  <2>2. ASSUME At(f)'
        PROVE  Reconciled(f)' /\ (f.id \notin blind' => PenaltiesOf(f)' = {})
    <3>1. CASE InsertTrigger(f)
      <4>1. Reconciled(f)'
        BY <1>2, <3>1, ReconciledChange
      <4>2. f.id \notin blind' => ~Reconciled(f)
        BY <3>1 DEF InsertTrigger
      <4>3. ~RegisterPenalty
        BY <3>1 DEF InsertTrigger, RegisterPenalty
      <4>. QED
        BY <1>2, <2>0, <4>1, <4>2, <4>3, PenaltiesChange
    <3>2. CASE At(f) /\ UNCHANGED <<triggers, penalties, blind>>
      BY <2>0, <3>2 DEF Reconciled, PenaltiesOf
    <3>. QED
      BY <1>2, <2>2, <3>1, <3>2, AtChange
  <2>3. ASSUME f.id \notin blind' PROVE Cardinality(PenaltiesOf(f)') <= 1
    <3>1. f.id \notin blind
      BY <1>0, <2>3
    <3>2. CASE RegisterPenalty /\ loop.fill = f
      <4>1. Cardinality(PenaltiesOf(f)) = 0
        BY <2>0, <3>1, <3>2, FS_EmptySet DEF At, RegisterPenalty
      <4>. QED
        BY <1>2, <3>2, <4>1, PenaltiesChange
    <3>3. CASE PenaltiesOf(f)' = PenaltiesOf(f)
      BY <2>0, <3>1, <3>3
    <3>. QED
      BY <1>2, <3>2, <3>3, PenaltiesChange
  <2>. QED
    BY <2>1, <2>2, <2>3
<1>. QED
  BY <1>1, <1>2

(* Within an hour a fill leaves the run and never comes back to it.        *)
LEMMA InRunChange ==
  ASSUME Typed, [Next]_vars, ~Hour, NEW f \in fills
  PROVE  /\ InRun(f)' => InRun(f)
         /\ RegisterPenalty /\ loop.fill = f => InRun(f) /\ ~InRun(f)'
<1>0. LoopTyped
  BY DEF Typed
<1>1. ASSUME RegisterPenalty
      PROVE  /\ loop.fill = f => InRun(f) /\ ~InRun(f)'
             /\ InRun(f)' => InRun(f)
  <2>1. /\ loop.pc = "penalty" /\ loop.fill \in loop.todo
        /\ loop'.todo = loop.todo \ {loop.fill}
    BY <1>0, <1>1, RunSteps DEF RegisterPenalty, Run
  <2>. QED
    BY <2>1 DEF InRun
<1>2. ASSUME NEW g \in fills, SkipSeen(g) PROVE InRun(f)' => InRun(f)
  BY <1>0, <1>2, RunSteps DEF InRun, Run
<1>3. ASSUME NEW g \in fills, InsertTrigger(g) PROVE InRun(f)' => InRun(f)
  <2>1. loop = Run(loop.todo) /\ loop' = RunAt(loop.todo, g)
    BY <1>0, <1>3, RunSteps
  <2>2. loop.pc = "fills" /\ loop'.todo = loop.todo
    BY <2>1 DEF Run, RunAt
  <2>. QED
    BY <2>2 DEF InRun
<1>4. ASSUME loop' = Resting \/ \E T : loop' = RunDecays(T) PROVE ~InRun(f)'
  BY <1>4 DEF InRun, RunDecays, Resting
<1>5. ReadExpired \/ Deactivate \/ Complete \/ BreakOff => ~InRun(f)'
  <2>1. ReadExpired => ~InRun(f)'
    BY <1>0, <1>4, RunSteps
  <2>2. Deactivate => ~InRun(f)'
    BY <1>0, <1>4, RunSteps
  <2>3. Complete \/ BreakOff => ~InRun(f)'
    BY <1>0, <1>4, RunSteps
  <2>. QED
    BY <2>1, <2>2, <2>3
<1>6. CASE UNCHANGED loop
  <2>1. ~RegisterPenalty
    <3>1. RegisterPenalty => loop.fill \in loop.todo /\ loop'.todo = loop.todo \ {loop.fill}
      BY <1>0, RunSteps DEF Run
    <3>. QED
      BY <1>6, <3>1
  <2>. QED
    BY <1>6, <2>1 DEF InRun
<1>7. (\E g \in fills : SkipSeen(g) \/ InsertTrigger(g)) \/ ReadExpired \/ Deactivate \/ Complete
      \/ BreakOff => ~RegisterPenalty
  <2>1. RegisterPenalty => loop.pc = "penalty" /\ loop' # Resting
    BY <1>0, RunSteps DEF RegisterPenalty, Run, Resting
  <2>2. BreakOff => loop' = Resting
    BY DEF BreakOff
  <2>3. (\E g \in fills : SkipSeen(g) \/ InsertTrigger(g)) \/ ReadExpired \/ Deactivate
        \/ Complete => loop.pc # "penalty"
    BY DEF SkipSeen, InsertTrigger, ReadExpired, Deactivate, Complete
  <2>. QED
    BY <2>1, <2>2, <2>3
<1>. QED
  BY <1>1, <1>2, <1>3, <1>5, <1>6, <1>7 DEF Next, vars, StopFill

LEMMA WithinWindowPreserved == Basic /\ WithinWindow /\ [Next]_vars => WithinWindow'
<1>. USE DEF Basic
<1>. SUFFICES ASSUME Basic, WithinWindow, [Next]_vars, NEW f \in fills'
     PROVE  /\ Cardinality(PenaltiesOf(f)') + Owed(f)' <= Window
            /\ Cardinality(PenaltiesOf(f)') + Owed(f)' <= hour' - f.at
  BY DEF WithinWindow
<1>0. hour \in Nat /\ LoopTyped /\ Window \in Nat
  BY DEF Typed
<1>1. CASE f \notin fills
  <2>1. PenaltiesOf(f)' = {} /\ loop' = loop /\ f.at = hour /\ hour' = hour
    BY <1>1, NewFill
  <2>2. ~InRun(f)'
    <3>1. loop.pc # "decay" => f \notin loop.todo
      BY <1>0, <1>1, LoopFacts
    <3>. QED
      BY <2>1, <3>1 DEF InRun
  <2>3. Cardinality(PenaltiesOf(f)') = 0 /\ Owed(f)' = 0
    BY <2>1, <2>2, FS_EmptySet DEF Owed
  <2>. QED
    BY <1>0, <2>1, <2>3
<1>2. CASE f \in fills
  <2>. DEFINE K == Cardinality(PenaltiesOf(f))
  <2>0. /\ K \in Nat /\ f.at \in Nat /\ f.sent \in Nat /\ f.sent <= f.at
        /\ K + Owed(f) <= Window /\ K + Owed(f) <= hour - f.at
    BY <1>2, PenaltiesFinite DEF WithinWindow, Typed, Fill, Numbered
  <2>1. CASE Hour
    <3>1. /\ hour' = hour + 1 /\ penalties' = penalties /\ ~InRun(f)
          /\ loop' = Run(RecentFills(hour + 1)) \/ loop' = Resting
      BY <1>0, <2>1, RunSteps DEF Hour, InRun, Resting
    <3>2. InRun(f)' => f.sent >= hour + 1 - Window
      <4>1. loop' = Run(RecentFills(hour + 1)) => loop'.todo = RecentFills(hour + 1)
        BY DEF Run
      <4>2. loop' = Resting => ~InRun(f)'
        BY DEF Resting, InRun
      <4>3. f \in RecentFills(hour + 1) => f.sent >= hour + 1 - Window
        BY <1>0, <2>0 DEF RecentFills
      <4>. QED
        BY <3>1, <4>1, <4>2, <4>3 DEF InRun
    <3>3. K' = K /\ Owed(f) = 0
      BY <3>1 DEF PenaltiesOf, Owed
    <3>4. Owed(f)' = 0 \/ (Owed(f)' = 1 /\ f.sent >= hour + 1 - Window)
      BY <3>2 DEF Owed
    <3>. HIDE DEF K
    <3>. QED
      BY <1>0, <2>0, <3>1, <3>3, <3>4 DEF K
  <2>2. CASE ~Hour
    <3>1. hour' = hour
      BY <2>2 DEF Next, vars, StopFill, SkipSeen, InsertTrigger, RegisterPenalty, ReadExpired,
                  Deactivate, Complete, BreakOff
    <3>2. CASE RegisterPenalty /\ loop.fill = f
      <4>1. K' = K + 1
        BY <1>2, <3>2, PenaltiesChange
      <4>2. Owed(f) = 1 /\ Owed(f)' = 0
        BY <1>2, <2>2, <3>2, InRunChange DEF Owed
      <4>. QED
        BY <1>0, <2>0, <3>1, <4>1, <4>2
    <3>3. CASE ~(RegisterPenalty /\ loop.fill = f)
      <4>1. K' = K
        BY <1>2, <3>3, PenaltiesChange
      <4>2. (Owed(f)' = 0 /\ Owed(f) = 0) \/ (Owed(f)' = 1 /\ Owed(f) = 1)
            \/ (Owed(f)' = 0 /\ Owed(f) = 1)
        BY <1>2, <2>2, InRunChange DEF Owed
      <4>. QED
        BY <1>0, <2>0, <3>1, <4>1, <4>2
    <3>. QED
      BY <3>2, <3>3
  <2>. QED
    BY <2>1, <2>2
<1>. QED
  BY <1>1, <1>2

(* reconcile_triggered_stops: a fill raises the hurdle once, whatever is   *)
(* missed or cut short; where the query for its row fails, once for every  *)
(* run of its window at most.                                              *)
THEOREM PenalisedOnce == Spec => []PenaltyOnce
<1>1. Init => RowFirst /\ WithinWindow
  BY DEF Init, RowFirst, WithinWindow
<1>2. Typed /\ RowFirst /\ WithinWindow => PenaltyOnce
  <2>. SUFFICES ASSUME Typed, RowFirst, WithinWindow, NEW f \in fills
       PROVE  Cardinality(PenaltiesOf(f)) <= IF f.id \in blind THEN Window ELSE 1
    BY DEF PenaltyOnce
  <2>1. /\ Cardinality(PenaltiesOf(f)) + Owed(f) <= Window
        /\ Cardinality(PenaltiesOf(f)) \in Nat /\ Owed(f) \in {0, 1}
    BY PenaltiesFinite DEF WithinWindow, Owed
  <2>2. Cardinality(PenaltiesOf(f)) <= Window
    BY <2>1
  <2>. QED
    BY <2>2 DEF RowFirst
<1>. QED
  BY <1>1, <1>2, Basis, RowFirstPreserved, WithinWindowPreserved, PTL DEF Spec, Basic
-----------------------------------------------------------------------------
(* How far the record of the fills of the hour they were sent in may lag:  *)
(* by an hour after a missed or broken run, and a run under way has those  *)
(* that lack a row still ahead of it.                                      *)
Prompt == {f \in fills : f.sent = f.at}

Behind(n) == \A f \in Prompt : f.at < hour - n => Reconciled(f)

OnRecord ==
    /\ loop = Resting => Behind(1) /\ (~upset => Behind(0))
    /\ loop # Resting /\ ~upset => Behind(1)
    /\ loop # Resting => \A f \in Prompt : f.at < hour /\ ~Reconciled(f) => InRun(f)

LEMMA OnRecordPreserved ==
  ASSUME Window >= 2
  PROVE  Basic /\ RowFirst /\ OnRecord /\ [Next]_vars => OnRecord'
<1>. SUFFICES ASSUME Basic, RowFirst, OnRecord, [Next]_vars PROVE OnRecord'
  OBVIOUS
<1>. USE DEF Basic, Prompt
<1>0. hour \in Nat /\ LoopTyped /\ Window \in Nat /\ \A f \in fills : f.at \in Nat
  BY DEF Typed, Fill
<1>1. ASSUME NEW s \in Symbols, StopFill(s) PROVE OnRecord'
  <2>1. /\ UNCHANGED <<hour, triggers, loop, upset>> /\ loop = Resting
        /\ \A f \in fills' : f \in fills \/ f.at = hour
    BY <1>1, StopFillFacts DEF StopFill
  <2>2. \A n \in {0, 1} : Behind(n) => Behind(n)'
    BY <1>0, <2>1 DEF Behind, Reconciled, Prompt
  <2>. QED
    BY <2>1, <2>2 DEF OnRecord
<1>2. CASE Hour
  <2>1. /\ hour' = hour + 1 /\ UNCHANGED <<fills, triggers>> /\ loop = Resting
        /\ \/ loop' = Run(RecentFills(hour + 1)) /\ upset' = upset
           \/ loop' = Resting /\ upset = FALSE /\ upset' = TRUE
    BY <1>0, <1>2, RunSteps DEF Hour
  <2>2. Behind(0) => Behind(1)'
    BY <1>0, <2>1 DEF Behind, Reconciled, Prompt
  <2>3. CASE loop' = Resting
    BY <2>1, <2>2, <2>3 DEF OnRecord, Run, Resting
  <2>4. CASE loop' = Run(RecentFills(hour + 1)) /\ upset' = upset
    <3>1. loop' # Resting
      BY <2>4 DEF Run, Resting
    <3>2. ASSUME NEW f \in Prompt, f.at < hour + 1, ~Reconciled(f) PROVE InRun(f)'
      <4>1. ~(f.at < hour - 1)
        BY <2>1, <3>2 DEF OnRecord, Behind
      <4>2. f \in fills /\ f.sent >= hour + 1 - Window
        BY <1>0, <4>1 DEF Prompt
      <4>. QED
        <5>1. f \in RecentFills(hour + 1)
          BY <1>0, <4>2 DEF RecentFills
        <5>2. loop'.pc = "fills" /\ loop'.todo = RecentFills(hour + 1)
          BY <2>4 DEF Run
        <5>. QED
          BY <5>1, <5>2 DEF InRun
    <3>. QED
      BY <2>1, <2>2, <2>4, <3>1, <3>2 DEF OnRecord, Reconciled, Prompt
  <2>. QED
    BY <2>1, <2>3, <2>4
<1>3. CASE ~Hour /\ ~\E s \in Symbols : StopFill(s)
  <2>1. hour' = hour /\ fills' = fills /\ Prompt' = Prompt
    BY <1>3 DEF Next, vars, SkipSeen, InsertTrigger, RegisterPenalty, ReadExpired,
                Deactivate, Complete, BreakOff, Prompt
  <2>2. \A f \in Prompt : Reconciled(f) => Reconciled(f)'
    BY ReconciledChange DEF Prompt
  <2>3. \A n \in {0, 1} : Behind(n) => Behind(n)'
    BY <2>1, <2>2 DEF Behind
  <2>. DEFINE Ahead == \A f \in Prompt : f.at < hour /\ ~Reconciled(f) => InRun(f)
  <2>4. CASE BreakOff
    <3>1. loop' = Resting /\ loop # Resting /\ ~upset /\ upset'
      BY <1>0, <2>4, RunSteps
    <3>. QED
      BY <2>3, <3>1 DEF OnRecord
  <2>5. CASE Complete \/ ReadExpired
    <3>1. UNCHANGED triggers /\ loop # Resting /\ Ahead
      BY <2>5 DEF Complete, ReadExpired, OnRecord, Resting
    <3>2. \A f \in fills : ~InRun(f)
      BY <2>5 DEF InRun, Complete, ReadExpired
    <3>3. Behind(0) /\ Behind(1)
      BY <1>0, <3>1, <3>2 DEF Behind
    <3>4. Behind(0)' /\ Behind(1)'
      BY <2>3, <3>3
    <3>5. \A f \in Prompt' : f.at < hour' /\ ~Reconciled(f)' => InRun(f)'
      BY <1>0, <2>1, <2>2, <3>1, <3>2
    <3>. QED
      BY <3>4, <3>5 DEF OnRecord
  <2>6. ASSUME NEW g \in fills, SkipSeen(g) \/ (RegisterPenalty /\ loop.fill = g)
        PROVE  OnRecord'
    <3>1. /\ UNCHANGED <<triggers, upset>> /\ loop # Resting /\ Ahead
          /\ loop' = Run(loop.todo \ {g}) /\ Reconciled(g)
      <4>1. UNCHANGED <<triggers, upset>> /\ loop.pc \in {"fills", "penalty"}
        BY <2>6 DEF SkipSeen, RegisterPenalty
      <4>2. loop # Resting /\ Ahead
        BY <4>1 DEF OnRecord, Resting
      <4>3. loop' = Run(loop.todo \ {g})
        BY <1>0, <2>6, RunSteps
      <4>4. Reconciled(g)
        <5>1. CASE SkipSeen(g)
          BY <5>1 DEF SkipSeen
        <5>2. CASE RegisterPenalty /\ loop.fill = g
          BY <5>2 DEF RegisterPenalty, RowFirst, At
        <5>. QED
          BY <2>6, <5>1, <5>2
      <4>. QED
        BY <4>1, <4>2, <4>3, <4>4
    <3>2. loop' # Resting
      BY <3>1 DEF Run, Resting
    <3>3. \A f \in fills \ {g} : InRun(f) => InRun(f)'
      BY <3>1 DEF InRun, Run
    <3>4. \A f \in Prompt : f.at < hour /\ ~Reconciled(f)' => InRun(f)'
      BY <2>2, <3>1, <3>3
    <3>. QED
      BY <2>1, <2>3, <3>1, <3>2, <3>4 DEF OnRecord
  <2>7. ASSUME NEW g \in fills, InsertTrigger(g) PROVE OnRecord'
    <3>1. /\ UNCHANGED upset /\ loop # Resting /\ Ahead
          /\ loop = Run(loop.todo) /\ loop' = RunAt(loop.todo, g)
      BY <1>0, <2>7, RunSteps DEF InsertTrigger, OnRecord, Resting
    <3>2. loop' # Resting /\ loop'.pc = "penalty" /\ loop'.todo = loop.todo /\ loop.pc = "fills"
      BY <3>1 DEF Run, RunAt, Resting
    <3>3. \A f \in fills : InRun(f) => InRun(f)'
      BY <3>2 DEF InRun
    <3>4. \A f \in Prompt : f.at < hour /\ ~Reconciled(f)' => InRun(f)'
      BY <2>2, <3>1, <3>3
    <3>. QED
      BY <2>1, <2>3, <3>1, <3>2, <3>4 DEF OnRecord
  <2>8. CASE Deactivate
    <3>1. /\ UNCHANGED <<triggers, upset>> /\ loop # Resting /\ Ahead
          /\ loop'.pc = "decay" /\ loop.pc = "decay"
      BY <1>0, <2>8, RunSteps DEF Deactivate, RunDecays, OnRecord, Resting
    <3>2. loop' # Resting
      BY <3>1 DEF Resting
    <3>3. \A f \in Prompt : f.at < hour => Reconciled(f)
      BY <3>1 DEF InRun
    <3>4. \A f \in Prompt' : f.at < hour' /\ ~Reconciled(f)' => InRun(f)'
      BY <2>1, <2>2, <3>3
    <3>. QED
      BY <2>3, <3>1, <3>2, <3>4 DEF OnRecord
  <2>9. CASE UNCHANGED vars
    BY <2>9 DEF vars, OnRecord, Behind, InRun, Reconciled, Prompt
  <2>10. RegisterPenalty => \E g \in fills : loop.fill = g
    BY <1>0, LoopFacts DEF RegisterPenalty
  <2>. QED
    BY <1>3, <2>4, <2>5, <2>6, <2>7, <2>8, <2>9, <2>10 DEF Next
<1>. QED
  BY <1>1, <1>2, <1>3

(* list_recent_stop_fills under main.py's window of two hours or more: a   *)
(* stop that fills in the hour it was sent is on record two hours later,   *)
(* with a missed or broken run between complete ones.                      *)
THEOREM PromptFillsOnRecord ==
  ASSUME Window >= 2
  PROVE  Spec => []PromptFillsKept
<1>1. Init => RowFirst /\ OnRecord
  BY DEF Init, RowFirst, OnRecord, Behind, Prompt
<1>2. Basic /\ OnRecord => PromptFillsKept
  <2>. SUFFICES ASSUME Basic, OnRecord, loop = Resting, NEW f \in Prompt, f.at <= hour - 2
       PROVE  Reconciled(f)
    BY DEF PromptFillsKept, Prompt
  <2>1. f.at \in Nat /\ hour \in Nat
    BY DEF Basic, Typed, Fill, Prompt
  <2>2. f.at < hour - 1
    BY <2>1
  <2>. QED
    BY <2>2 DEF OnRecord, Behind
<1>3. Basic /\ RowFirst /\ OnRecord /\ [Next]_vars => OnRecord'
  BY OnRecordPreserved
<1>. QED
  BY <1>1, <1>2, <1>3, Basis, RowFirstPreserved, PTL DEF Spec, Basic
-----------------------------------------------------------------------------
(* The fills on record without a penalty, but for the one the run is at.   *)
Unpenalised == {f \in fills : Reconciled(f) /\ PenaltiesOf(f) = {} /\ ~At(f)}

OneLostPerCut == Cardinality(Unpenalised) <= cuts

LEMMA UnpenalisedChange ==
  ASSUME Basic, [Next]_vars, NEW f \in Unpenalised'
  PROVE  /\ f \in Unpenalised \/ (BreakOff /\ f = loop.fill)
<1>. USE DEF Basic
<1>1. f \in fills' /\ Reconciled(f)' /\ PenaltiesOf(f)' = {} /\ ~At(f)'
  BY DEF Unpenalised
<1>2. f \in fills
  BY <1>1, NewFill
<1>3. Reconciled(f)
  <2>1. InsertTrigger(f) => At(f)'
    BY DEF InsertTrigger, At
  <2>. QED
    BY <1>1, <1>2, <2>1, ReconciledChange
<1>4. PenaltiesOf(f) = {} /\ ~(RegisterPenalty /\ loop.fill = f)
  BY <1>1, <1>2, PenaltiesChange
<1>5. At(f) => BreakOff
  <2>. SUFFICES ASSUME At(f) PROVE BreakOff
    OBVIOUS
  <2>1. loop # Resting /\ loop.pc = "penalty" /\ loop.fill = f
    BY DEF At, Resting
  <2>2. ~UNCHANGED vars
    BY <1>1 DEF At, vars
  <2>. QED
    BY <1>4, <2>1, <2>2
       DEF Next, StopFill, Hour, SkipSeen, InsertTrigger, ReadExpired, Deactivate, Complete
<1>. QED
  BY <1>2, <1>3, <1>4, <1>5 DEF Unpenalised, At

LEMMA OneLostPreserved == Basic /\ OneLostPerCut /\ [Next]_vars => OneLostPerCut'
<1>. SUFFICES ASSUME Basic, OneLostPerCut, [Next]_vars PROVE OneLostPerCut'
  OBVIOUS
<1>1. IsFiniteSet(Unpenalised) /\ Cardinality(Unpenalised) \in Nat /\ cuts \in Nat
  BY FS_Subset, FS_CardinalityType DEF Unpenalised, Basic, Typed
<1>2. CASE BreakOff
  <2>1. Unpenalised' \subseteq Unpenalised \cup {loop.fill}
    BY UnpenalisedChange
  <2>2. /\ IsFiniteSet(Unpenalised \cup {loop.fill})
        /\ Cardinality(Unpenalised \cup {loop.fill}) \in
               {Cardinality(Unpenalised), Cardinality(Unpenalised) + 1}
    BY <1>1, FS_AddElement
  <2>3. /\ Cardinality(Unpenalised') \in Nat
        /\ Cardinality(Unpenalised') <= Cardinality(Unpenalised \cup {loop.fill})
    BY <2>1, <2>2, FS_Subset, FS_CardinalityType
  <2>4. cuts' = cuts + 1
    BY <1>2 DEF BreakOff
  <2>. QED
    BY <1>1, <2>2, <2>3, <2>4 DEF OneLostPerCut
<1>3. CASE ~BreakOff
  <2>1. Unpenalised' \subseteq Unpenalised
    BY <1>3, UnpenalisedChange
  <2>2. Cardinality(Unpenalised') \in Nat /\ Cardinality(Unpenalised') <= Cardinality(Unpenalised)
    BY <1>1, <2>1, FS_Subset, FS_CardinalityType
  <2>3. cuts' = cuts
    BY <1>3 DEF Next, vars, StopFill, Hour, SkipSeen, InsertTrigger, RegisterPenalty, ReadExpired,
                Deactivate, Complete
  <2>. QED
    BY <1>1, <2>2, <2>3 DEF OneLostPerCut
<1>. QED
  BY <1>2, <1>3

(* reconcile_triggered_stops: whatever fails, a run cut short loses the    *)
(* penalty of one fill at most, since the row that marks a fill as seen is *)
(* written just before its penalty.                                        *)
THEOREM PenaltiesLost == Spec => []OnePenaltyLostPerCut
<1>1. Init => OneLostPerCut
  <2>1. Init => Unpenalised = {} /\ cuts = 0
    BY DEF Init, Unpenalised
  <2>. QED
    BY <2>1, FS_EmptySet DEF OneLostPerCut
<1>2. OneLostPerCut => OnePenaltyLostPerCut
  <2>1. loop = Resting => Unpenalised = {f \in fills : Reconciled(f) /\ PenaltiesOf(f) = {}}
    BY DEF Unpenalised, At, Resting
  <2>. QED
    BY <2>1 DEF OneLostPerCut, OnePenaltyLostPerCut
<1>. QED
  BY <1>1, <1>2, Basis, OneLostPreserved, PTL DEF Spec, Basic
=============================================================================
