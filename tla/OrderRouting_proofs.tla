------------------------ MODULE OrderRouting_proofs ------------------------
(***************************************************************************)
(* The bounded day-trade log answers the cap question as the unbounded one *)
(* would, for every calendar, every deque length that holds the cap and    *)
(* every window length.                                                    *)
(***************************************************************************)
EXTENDS OrderRouting, TLAPS, FiniteSetTheorems

USE CalendarAssumption, PDTAssumption

(* What eviction relies on: day trades are noted in the order of their     *)
(* days, and the log is a suffix of all of them, the whole of it until it  *)
(* has reached MaxLen.                                                     *)
Chronological ==
    /\ \A i \in 1..Len(exits) : exits[i].day <= today
    /\ \A i, j \in 1..Len(exits) : i <= j => exits[i].day <= exits[j].day

Dropped == Len(exits) - Len(trades)

LogIsSuffix ==
    /\ Len(trades) <= Len(exits)
    /\ Dropped > 0 => Len(trades) = MaxLen
    /\ \A i \in 1..Len(trades) : trades[i].day = exits[Dropped + i].day

IInv == TypeOK /\ Chronological /\ LogIsSuffix

(* A full log stays as long as it was and loses its oldest element.        *)
LEMMA PushIsSuffix ==
    ASSUME NEW log \in Seq(DayTrade), Len(log) <= MaxLen, NEW t \in DayTrade
    PROVE  /\ Push(log, t) \in Seq(DayTrade)
           /\ Len(Push(log, t)) <= MaxLen
           /\ Len(log) < MaxLen =>
                 /\ Len(Push(log, t)) = Len(log) + 1
                 /\ \A i \in 1..Len(log) : Push(log, t)[i] = log[i]
                 /\ Push(log, t)[Len(log) + 1] = t
           /\ Len(log) = MaxLen =>
                 /\ Len(Push(log, t)) = MaxLen
                 /\ \A i \in 1..(MaxLen - 1) : Push(log, t)[i] = log[i + 1]
                 /\ Push(log, t)[MaxLen] = t
<1>1. CASE Len(log) < MaxLen
  BY <1>1 DEF Push
<1>2. CASE Len(log) = MaxLen
  <2>1. /\ Tail(log) \in Seq(DayTrade)
        /\ Len(Tail(log)) = MaxLen - 1
        /\ \A i \in 1..(MaxLen - 1) : Tail(log)[i] = log[i + 1]
    BY <1>2
  <2>2. Push(log, t) = Append(Tail(log), t)
    BY <1>2 DEF Push
  <2>3. QED
    BY <1>2, <2>1, <2>2
<1>3. QED
  BY <1>1, <1>2

(* Type correctness of OrderRouting.                                       *)
THEOREM TypeCorrect == Spec => []TypeOK
<1>1. Init => TypeOK
  BY DEF Init, TypeOK, PDTInit, PDTTypeOK, Days, NoDate
<1>2. TypeOK /\ [Next]_vars => TypeOK'
  <2> SUFFICES ASSUME TypeOK, [Next]_vars PROVE TypeOK'
    OBVIOUS
  <2> USE DEF TypeOK, PDTTypeOK
  <2>1. ASSUME NEW s \in Symbols, RouteBuy(s) PROVE TypeOK'
    BY <2>1 DEF RouteBuy, NoteOpen
  <2>2. ASSUME NEW s \in Symbols, RouteRotate(s) PROVE TypeOK'
    BY <2>2 DEF RouteRotate, NoteOpen
  <2>3. ASSUME NEW s \in Symbols, FullExit(s) PROVE TypeOK'
    <3> DEFINE t == [symbol |-> s, day |-> today]
    <3>1. t \in DayTrade
      BY DEF DayTrade
    <3>2. trades' = Push(trades, t)
      BY <2>3 DEF FullExit, NoteClose
    <3>3. trades' \in Seq(DayTrade) /\ Len(trades') <= MaxLen
      <4>1. trades \in Seq(DayTrade) /\ Len(trades) <= MaxLen
        OBVIOUS
      <4>2. /\ Push(trades, t) \in Seq(DayTrade)
            /\ Len(Push(trades, t)) <= MaxLen
        BY ONLY <4>1, <3>1, PushIsSuffix
      <4>3. QED
        BY ONLY <4>2, <3>2
    <3>4. exits' \in Seq(Exit)
      BY <2>3 DEF FullExit, Exit
    <3>5. openDates' \in [Symbols -> Days \cup {NoDate}]
      BY <2>3 DEF FullExit, NoteClose
    <3>6. lastBuy' \in [Symbols -> Days \cup {NoDate}]
      BY <2>3 DEF FullExit
    <3>7. UNCHANGED today
      BY <2>3 DEF FullExit
    <3>8. QED
      BY <3>3, <3>4, <3>5, <3>6, <3>7
  <2>4. ASSUME NEW s \in Symbols, StopFill(s) PROVE TypeOK'
    BY <2>4 DEF StopFill, pdtVars
  <2>5. CASE Restart
    BY <2>5 DEF Restart
  <2>6. CASE NextDay
    BY <2>6 DEF NextDay, pdtVars, Days
  <2>7. CASE UNCHANGED vars
    BY <2>7 DEF vars, pdtVars
  <2>8. QED
    BY <2>1, <2>2, <2>3, <2>4, <2>5, <2>6, <2>7 DEF Next
<1>3. QED
  BY <1>1, <1>2, PTL DEF Spec

(* The day of an exit is a number.                                        *)
LEMMA ExitDays == TypeOK => \A i \in 1..Len(exits) : exits[i].day \in Int
<1> SUFFICES ASSUME TypeOK, NEW i \in 1..Len(exits) PROVE exits[i].day \in Int
  OBVIOUS
<1>1. exits \in Seq(Exit)
  BY DEF TypeOK
<1>2. exits[i] \in Exit
  BY <1>1
<1>3. exits[i].day \in Days
  BY <1>2 DEF Exit
<1>4. QED
  BY <1>3 DEF Days

(* IInv is inductive.  Only a full exit and a restart touch the two logs.  *)
LEMMA SuffixInductive == TypeOK /\ TypeOK' /\ IInv /\ [Next]_vars => IInv'
<1> SUFFICES ASSUME TypeOK, TypeOK', IInv, [Next]_vars PROVE IInv'
  OBVIOUS
<1> USE DEF IInv
<1>0. today \in Nat /\ today' \in Nat
  BY DEF TypeOK, Days
<1>1. ASSUME UNCHANGED <<trades, exits>>, today <= today' PROVE IInv'
  <2>1. Chronological'
    <3>1. \A i \in 1..Len(exits) : exits[i].day \in Int
      BY ExitDays
    <3>2. QED
      BY <1>0, <1>1, <3>1 DEF Chronological
  <2>2. LogIsSuffix'
    BY <1>1 DEF LogIsSuffix, Dropped
  <2>3. QED
    BY <2>1, <2>2
<1>2. ASSUME NEW s \in Symbols, FullExit(s) PROVE IInv'
  <2> DEFINE t == [symbol |-> s, day |-> today]
             e == [symbol |-> s, day |-> today]
  <2>1. /\ exits \in Seq(Exit) /\ trades \in Seq(DayTrade)
        /\ Len(trades) <= MaxLen /\ Len(exits) \in Nat /\ Len(trades) \in Nat
    BY DEF TypeOK, PDTTypeOK
  <2>2. t \in DayTrade /\ t.day = today /\ e \in Exit /\ e.day = today
    BY DEF DayTrade, Exit, TypeOK
  <2>3. exits' = Append(exits, e) /\ trades' = Push(trades, t) /\ today' = today
    BY <1>2 DEF FullExit, NoteClose
  <2>4. /\ Len(exits') = Len(exits) + 1
        /\ \A i \in 1..Len(exits) : exits'[i] = exits[i]
        /\ exits'[Len(exits) + 1] = e
    BY <2>1, <2>2, <2>3
  <2>5. Chronological'
    <3>1. \A i \in 1..Len(exits') : i <= Len(exits) \/ i = Len(exits) + 1
      BY <2>1, <2>4
    <3>2. \A i \in 1..Len(exits') : exits'[i].day <= today
      BY <2>1, <2>2, <2>4, <3>1, <1>0 DEF Chronological
    <3>3. \A i, j \in 1..Len(exits') : i <= j => exits'[i].day <= exits'[j].day
      <4> SUFFICES ASSUME NEW i \in 1..Len(exits'), NEW j \in 1..Len(exits'), i <= j
                   PROVE exits'[i].day <= exits'[j].day
        OBVIOUS
      <4>1. CASE j <= Len(exits)
        BY <4>1, <2>1, <2>4 DEF Chronological
      <4>2. CASE j = Len(exits) + 1
        <5>1. exits'[i].day <= today
          BY <3>2
        <5>2. exits'[j].day = today
          BY <4>2, <2>2, <2>4
        <5>3. QED
          BY <5>1, <5>2
      <4>3. QED
        BY <4>1, <4>2, <3>1
    <3>4. QED
      BY <2>3, <3>2, <3>3 DEF Chronological
  <2>6. LogIsSuffix'
    <3>1. CASE Len(trades) < MaxLen
      <4>1. Len(trades) = Len(exits)
        BY <3>1, <2>1 DEF LogIsSuffix, Dropped
      <4>2. /\ Len(trades') = Len(trades) + 1
            /\ \A i \in 1..Len(trades) : trades'[i] = trades[i]
            /\ trades'[Len(trades) + 1] = t
        BY <3>1, <2>1, <2>2, <2>3, PushIsSuffix
      <4>3. \A i \in 1..Len(trades') : trades'[i].day = exits'[0 + i].day
        BY <4>1, <4>2, <2>1, <2>2, <2>4 DEF LogIsSuffix, Dropped
      <4>4. QED
        BY <4>1, <4>2, <4>3, <2>1, <2>4 DEF LogIsSuffix, Dropped
    <3>2. CASE Len(trades) = MaxLen
      <4>1. /\ Len(trades') = MaxLen
            /\ \A i \in 1..(MaxLen - 1) : trades'[i] = trades[i + 1]
            /\ trades'[MaxLen] = t
        BY <3>2, <2>1, <2>2, <2>3, PushIsSuffix
      <4>2. Dropped' = Dropped + 1 /\ Dropped \in Nat
        BY <3>2, <4>1, <2>1, <2>4 DEF Dropped, LogIsSuffix
      <4>3. ASSUME NEW i \in 1..MaxLen
            PROVE trades'[i].day = exits'[Dropped' + i].day
        <5>1. CASE i = MaxLen
          BY <5>1, <4>1, <4>2, <3>2, <2>1, <2>2, <2>4 DEF Dropped
        <5>2. CASE i < MaxLen
          <6>1. i + 1 \in 1..Len(trades) /\ Dropped + (i + 1) \in 1..Len(exits)
            BY <5>2, <3>2, <4>2, <2>1 DEF Dropped
          <6>2. trades'[i] = trades[i + 1]
            BY <5>2, <4>1
          <6>3. trades[i + 1].day = exits[Dropped + (i + 1)].day
            BY <6>1 DEF LogIsSuffix
          <6>4. exits'[Dropped' + i] = exits[Dropped + (i + 1)]
            BY <6>1, <4>2, <2>4
          <6>5. QED
            BY <6>2, <6>3, <6>4
        <5>3. QED
          BY <5>1, <5>2
      <4>4. QED
        BY <4>1, <4>2, <4>3, <3>2, <2>1, <2>4 DEF LogIsSuffix, Dropped
    <3>3. QED
      BY <3>1, <3>2, <2>1
  <2>7. QED
    BY <2>5, <2>6
<1>3. CASE Restart
  BY <1>3 DEF Restart, Chronological, LogIsSuffix, Dropped
<1>4. CASE NextDay
  BY <1>0, <1>1, <1>4 DEF NextDay, pdtVars
<1>5. ASSUME NEW s \in Symbols, RouteBuy(s) \/ RouteRotate(s) \/ StopFill(s)
      PROVE IInv'
  BY <1>0, <1>1, <1>5 DEF RouteBuy, RouteRotate, StopFill, pdtVars
<1>6. CASE UNCHANGED vars
  BY <1>0, <1>1, <1>6 DEF vars, pdtVars
<1>7. QED
  BY <1>2, <1>3, <1>4, <1>5, <1>6 DEF Next

(* The later a day, the longer it stays in the window.                     *)
LEMMA WindowMonotone ==
    ASSUME NEW t \in Int, NEW a \in Int, NEW b \in Int,
           a <= b, b <= t, InWindow(a, t)
    PROVE  InWindow(b, t)
<1> DEFINE Between(x) == {d \in TradingDays : (x <= d /\ d <= t) \/ (t <= d /\ d <= x)}
<1>1. IsFiniteSet(TradingDays)
  <2>1. IsFiniteSet(0..LastDay)
    BY FS_Interval
  <2>2. QED
    BY <2>1, FS_Subset
<1>2. Between(b) \subseteq Between(a) /\ Between(a) \subseteq TradingDays
  <2> SUFFICES ASSUME NEW d \in Between(b) PROVE d \in Between(a)
    OBVIOUS
  <2>1. d \in TradingDays /\ d \in Int
    OBVIOUS
  <2>2. (b <= d /\ d <= t) \/ (t <= d /\ d <= b)
    OBVIOUS
  <2>3. a <= d /\ d <= t
    BY <2>1, <2>2
  <2>4. QED
    BY <2>1, <2>3
<1>3. IsFiniteSet(Between(a)) /\ IsFiniteSet(Between(b))
  BY <1>1, <1>2, FS_Subset
<1>4. Cardinality(Between(b)) <= Cardinality(Between(a))
  BY <1>2, <1>3, FS_Subset
<1>5. Cardinality(Between(b)) \in Nat /\ Cardinality(Between(a)) \in Nat
  BY <1>3, FS_CardinalityType
<1>6. Cardinality(Between(a)) < WINDOW_TRADING_DAYS
  BY DEF InWindow, TradingDaysBetween
<1>7. Cardinality(Between(b)) < WINDOW_TRADING_DAYS
  BY <1>4, <1>5, <1>6
<1>8. QED
  BY <1>7 DEF InWindow, TradingDaysBetween

(* The suffix answers the cap question: either every trade in the window   *)
(* survived eviction, or all MaxLen survivors are younger than an evicted  *)
(* one in the window, and MaxLen of them reach the cap already.            *)
LEMMA SuffixAnswers == IInv => EvictionHarmless
<1> SUFFICES ASSUME IInv PROVE EvictionHarmless
  OBVIOUS
<1> DEFINE K == Dropped
           T == {i \in 1..Len(trades) : InWindow(trades[i].day, today)}
           X == {i \in 1..Len(exits) : InWindow(exits[i].day, today)}
<1>1. /\ Len(trades) \in Nat /\ Len(exits) \in Nat /\ K \in Nat
      /\ Len(exits) = K + Len(trades)
      /\ today \in Int
      /\ \A i \in 1..Len(exits) : exits[i].day \in Int
  BY ExitDays DEF IInv, TypeOK, PDTTypeOK, LogIsSuffix, Dropped, Days
<1>2. \A i \in 1..Len(trades) : trades[i].day = exits[K + i].day
  BY DEF IInv, LogIsSuffix
<1>3. /\ IsFiniteSet(T) /\ IsFiniteSet(X)
      /\ Cardinality(T) \in Nat /\ Cardinality(X) \in Nat
  <2>1. IsFiniteSet(1..Len(trades)) /\ IsFiniteSet(1..Len(exits))
    BY <1>1, FS_Interval
  <2>2. QED
    BY <2>1, FS_Subset, FS_CardinalityType
<1>4. /\ CapReached(trades) <=> Cardinality(T) >= MAX_DAY_TRADES
      /\ CapReached(exits) <=> Cardinality(X) >= MAX_DAY_TRADES
  BY DEF CapReached, CountInWindow
<1>5. CASE \A i \in X : i > K
  <2> DEFINE f == [i \in T |-> K + i]
  <2>1. f \in Bijection(T, X)
    <3>1. \A i \in T : f[i] \in X
      BY <1>1, <1>2
    <3>2. \A i, j \in T : f[i] = f[j] => i = j
      BY <1>1
    <3>3. \A x \in X : x - K \in T /\ f[x - K] = x
      BY <1>1, <1>2, <1>5
    <3>4. QED
      BY <3>1, <3>2, <3>3 DEF Bijection, Injection, Surjection, IsInjective
  <2>2. Cardinality(T) = Cardinality(X)
    BY <2>1, <1>3, FS_Bijection DEF ExistsBijection
  <2>3. QED
    BY <2>2, <1>4 DEF EvictionHarmless
<1>6. CASE \E i \in X : i <= K
  <2>1. PICK k \in X : k <= K
    BY <1>6
  <2>2. Len(trades) = MaxLen
    BY <2>1, <1>1 DEF IInv, LogIsSuffix
  <2>3. \A j \in (K + 1)..(K + MaxLen) : j \in X
    <3> TAKE j \in (K + 1)..(K + MaxLen)
    <3>1. j \in 1..Len(exits) /\ k \in 1..Len(exits) /\ k <= j
      BY <2>1, <2>2, <1>1
    <3>2. exits[k].day <= exits[j].day /\ exits[j].day <= today
      BY <3>1 DEF IInv, Chronological
    <3>3. InWindow(exits[j].day, today)
      BY <3>1, <3>2, <2>1, <1>1, WindowMonotone
    <3>4. QED
      BY <3>1, <3>3
  <2>4. T = 1..MaxLen
    BY <2>2, <2>3, <1>1, <1>2
  <2>5. Cardinality(T) = MaxLen
    <3>1. Cardinality(1..MaxLen) = MaxLen
      BY FS_Interval
    <3>2. QED
      BY <2>4, <3>1
  <2>6. Cardinality(X) >= MaxLen
    <3>1. (K + 1)..(K + MaxLen) \subseteq X
      BY <2>3
    <3>2. K + 1 \in Int /\ K + MaxLen \in Int
      BY <1>1
    <3>3. Cardinality((K + 1)..(K + MaxLen)) = MaxLen
      BY <3>2, FS_Interval, <1>1
    <3>4. Cardinality((K + 1)..(K + MaxLen)) <= Cardinality(X)
      BY <3>1, <1>3, FS_Subset
    <3>5. QED
      BY <3>3, <3>4, <1>3
  <2>7. QED
    BY <2>5, <2>6, <1>3, <1>4 DEF EvictionHarmless
<1>7. QED
  BY <1>1, <1>5, <1>6

(* IInv holds throughout: what EvictionSafe rests on.                      *)
LEMMA SuffixAlways == Spec => []IInv
<1>1. Init => IInv
  <2> SUFFICES ASSUME Init PROVE IInv
    OBVIOUS
  <2>1. TypeOK
    BY DEF Init, TypeOK, PDTInit, PDTTypeOK, Days, NoDate
  <2>2. QED
    BY <2>1 DEF Init, PDTInit, IInv, Chronological, LogIsSuffix, Dropped
<1>2. QED
  BY <1>1, SuffixInductive, TypeCorrect, PTL DEF Spec

(* EvictionHarmless of OrderRouting, for every calendar, window and cap    *)
(* and every deque at least as long as the cap.                            *)
THEOREM EvictionSafe == Spec => []EvictionHarmless
  BY SuffixAlways, SuffixAnswers, PTL
=============================================================================
