--------------------------- MODULE LiveCycle_proofs ---------------------------
(***************************************************************************)
(* The trading day with its stops, for any number of symbols, shares,      *)
(* orders and days, any prices, and any failures a theorem does not name.  *)
(***************************************************************************)
EXTENDS LiveCycle, FiniteSetTheorems, WellFoundedInduction, TLAPS
-----------------------------------------------------------------------------
(* What the arithmetic of trailing_stops.py guarantees at every price,     *)
(* range, volatility and edge, for every setting of the constants.         *)
Prior == [stop : Int, hwm : Nat]

(* The level is an integer price, the mark a natural one.                  *)
LEMMA LevelType ==
    ASSUME NEW prior \in Prior, NEW entry \in Nat, NEW last \in Nat,
           NEW atr \in Nat, NEW vol \in Nat, NEW edge \in Int
    PROVE  ComputeLevel(prior, entry, last, atr, vol, edge) \in Prior
<1> USE StopLevelAssumption
<1>1. HighWaterMark(prior, entry, last) \in Nat
      BY DEF HighWaterMark, Larger, Prior
<1>2. KChandelier * atr \in Nat /\ KLooseVol * vol \in Nat /\ KTightVol * vol \in Nat
      OBVIOUS
<1> DEFINE k == IF edge >= 0 THEN KLooseVol ELSE KTightVol
<1>3. k * vol \in Nat
      BY <1>2
<1>4. NewStop(prior, entry, last, atr, vol, edge) \in Int
      BY <1>1, <1>2, <1>3 DEF NewStop, Larger, Prior
<1> QED BY <1>1, <1>4 DEF ComputeLevel, Prior

(* compute_level, "if both new components fall below the prior stop, we    *)
(* keep the prior", and the high-water mark "ratchets up on every          *)
(* recompute": neither falls, at any inputs.                               *)
THEOREM LevelRatchets ==
    ASSUME NEW prior \in Prior, NEW entry \in Nat, NEW last \in Nat,
           NEW atr \in Nat, NEW vol \in Nat, NEW edge \in Int
    PROVE  LET level == ComputeLevel(prior, entry, last, atr, vol, edge)
           IN  /\ level.stop >= prior.stop
               /\ level.hwm >= prior.hwm /\ level.hwm >= last
               /\ level.stop >= level.hwm - KChandelier * atr
<1> USE StopLevelAssumption
<1> DEFINE h == HighWaterMark(prior, entry, last)
           k == IF edge >= 0 THEN KLooseVol ELSE KTightVol
<1>1. h \in Nat /\ h >= prior.hwm /\ h >= last
      BY DEF HighWaterMark, Larger, Prior
<1>2. KChandelier * atr \in Nat /\ k * vol \in Nat
      OBVIOUS
<1>3. /\ NewStop(prior, entry, last, atr, vol, edge) >= prior.stop
      /\ NewStop(prior, entry, last, atr, vol, edge) >= h - KChandelier * atr
      BY <1>1, <1>2 DEF NewStop, Larger, Prior
<1> QED BY <1>1, <1>3 DEF ComputeLevel

(* snap_to_broker_tick, "the returned stop is guaranteed to be strictly    *)
(* less than current_price", and never above what was computed.            *)
THEOREM SnapBelowMarket ==
    ASSUME NEW stop \in Int, NEW last \in Nat,
           SnapToBrokerTick(stop, last) # TooClose
    PROVE  /\ SnapToBrokerTick(stop, last) \in 1..(last - 1)
           /\ SnapToBrokerTick(stop, last) <= stop
           /\ SnapToBrokerTick(stop, last) \in {stop, MaxAllowed(last)}
<1>1. MaxAllowed(last) \in Int
      BY DEF MaxAllowed
<1> QED BY <1>1 DEF SnapToBrokerTick, TooClose, Smaller

(* The price sent to the broker and written to active_stops is below the   *)
(* previous row's only where the cap below the market forces it: the one   *)
(* way the ratchet gives (manage_cycle persists the adjusted price).       *)
THEOREM OnlyTheCapLoosens ==
    ASSUME NEW prior \in Prior, NEW entry \in Nat, NEW last \in Nat,
           NEW atr \in Nat, NEW vol \in Nat, NEW edge \in Int,
           NEW target,
           target = SnapToBrokerTick(
               ComputeLevel(prior, entry, last, atr, vol, edge).stop, last),
           target # TooClose
    PROVE  target >= prior.stop \/ target = MaxAllowed(last)
<1> DEFINE level == ComputeLevel(prior, entry, last, atr, vol, edge)
<1>1. level.stop >= prior.stop
      BY LevelRatchets
<1>2. level.stop \in Int /\ prior.stop \in Int
      BY LevelType DEF Prior
<1> HIDE DEF level
<1>3. target \in {level.stop, MaxAllowed(last)}
      BY <1>2, SnapBelowMarket DEF level
<1> QED BY <1>1, <1>2, <1>3
-----------------------------------------------------------------------------
(* Shares: the sum over a finite set does not depend on the order in which *)
(* the fold takes the elements.                                            *)
Pick(T) == CHOOSE x \in T : TRUE

IsTotal(g, S) ==
    g = [T \in SUBSET S |-> IF T = {} THEN 0 ELSE Pick(T).qty + g[T \ {Pick(T)}]]

LEMMA SharesDef ==
  ASSUME NEW S
  PROVE  Shares(S) = (CHOOSE g : IsTotal(g, S))[S]
BY DEF Shares, MapThenSumSet, MapThenFoldSet, IsTotal, Pick

(* Of the finite sets with some property, one has the fewest elements.     *)
LEMMA SmallestSet ==
  ASSUME NEW C, C # {}, \A T \in C : IsFiniteSet(T)
  PROVE  \E T \in C : \A U \in C : Cardinality(T) <= Cardinality(U)
<1>. DEFINE Sizes == {Cardinality(T) : T \in C}
<1>1. Sizes \subseteq Nat /\ Sizes # {}
  BY FS_CardinalityType
<1>2. PICK n \in Sizes : \A m \in Sizes : ~(<<m, n>> \in OpToRel(<, Nat))
  BY <1>1, WFMin, NatLessThanWellFounded
<1>3. n \in Nat /\ \A m \in Sizes : m \in Nat /\ ~(m < n)
  BY <1>1, <1>2 DEF OpToRel
<1>4. PICK T \in C : n = Cardinality(T)
  BY <1>2
<1>5. \A U \in C : Cardinality(U) \in Sizes
  OBVIOUS
<1>. HIDE DEF Sizes
<1>6. \A m \in Sizes : n <= m
  BY <1>3
<1>. QED
  BY <1>4, <1>5, <1>6

(* What is left of a set without the element picked is smaller.            *)
LEMMA PickSmaller ==
  ASSUME NEW T, IsFiniteSet(T), T # {}
  PROVE  /\ Pick(T) \in T
         /\ IsFiniteSet(T \ {Pick(T)})
         /\ Cardinality(T \ {Pick(T)}) < Cardinality(T)
<1>1. Pick(T) \in T
  BY DEF Pick
<1>2. Cardinality(T) \in Nat
  BY FS_CardinalityType
<1>3. /\ IsFiniteSet(T \ {Pick(T)})
      /\ Cardinality(T \ {Pick(T)}) = Cardinality(T) - 1
  BY <1>1, FS_RemoveElement
<1>. QED
  BY <1>1, <1>2, <1>3

LEMMA TotalExists ==
  ASSUME NEW S, IsFiniteSet(S)
  PROVE  \E g : IsTotal(g, S)
<1>. DEFINE UpTo(n) == {T \in SUBSET S : Cardinality(T) <= n}
           Sum(g, T) == IF T = {} THEN 0 ELSE Pick(T).qty + g[T \ {Pick(T)}]
           Partial(g, n) == g = [T \in UpTo(n) |-> Sum(g, T)]
           Bad == {n \in Nat : \A g : ~Partial(g, n)}
<1>0. \A T \in SUBSET S : IsFiniteSet(T) /\ Cardinality(T) \in Nat
  BY FS_Subset, FS_CardinalityType
<1>1. ASSUME NEW n \in Bad PROVE \E m \in Bad : m < n
  <2>1. CASE n = 0
    <3>. DEFINE z == [T \in UpTo(0) |-> 0]
    <3>1. \A T \in UpTo(0) : T = {}
      BY <1>0, FS_EmptySet
    <3>2. Partial(z, 0)
      BY <3>1
    <3>. QED
      BY <2>1, <3>2
  <2>2. CASE n # 0
    <3>1. n \in Nat /\ n - 1 \in Nat /\ n - 1 < n
      BY <2>2
    <3>. SUFFICES ASSUME n - 1 \notin Bad PROVE FALSE
      BY <3>1, Zenon
    <3>2. PICK g : Partial(g, n - 1)
      BY <3>1
    <3>. DEFINE h == [T \in UpTo(n) |-> Sum(g, T)]
    <3>3. \A T \in UpTo(n) : T # {} => T \ {Pick(T)} \in UpTo(n - 1)
      BY <1>0, PickSmaller
    <3>4. \A T \in UpTo(n - 1) : T \in UpTo(n) /\ h[T] = g[T]
      <4>1. \A T \in UpTo(n - 1) : T \in UpTo(n)
        BY <1>0
      <4>2. \A T \in UpTo(n - 1) : g[T] = Sum(g, T)
        BY <3>2
      <4>. QED
        BY <4>1, <4>2
    <3>5. \A T \in UpTo(n) : Sum(g, T) = Sum(h, T)
      BY <3>3, <3>4
    <3>6. Partial(h, n)
      BY <3>5
    <3>. QED
      BY <3>6
  <2>. QED
    BY <2>1, <2>2
<1>2. Bad = {}
  <2>. SUFFICES ASSUME Bad # {} PROVE FALSE
    OBVIOUS
  <2>1. PICK n \in Bad : \A m \in Bad : ~(<<m, n>> \in OpToRel(<, Nat))
    BY WFMin, NatLessThanWellFounded
  <2>2. PICK m \in Bad : m < n
    BY <1>1
  <2>3. m \in Nat /\ n \in Nat
    OBVIOUS
  <2>. QED
    BY <2>1, <2>2, <2>3 DEF OpToRel
<1>3. PICK g : Partial(g, Cardinality(S))
  <2>1. Cardinality(S) \in Nat /\ Cardinality(S) \notin Bad
    BY <1>0, <1>2
  <2>. QED
    BY <2>1
<1>4. UpTo(Cardinality(S)) = SUBSET S
  BY FS_Subset
<1>. QED
  BY <1>3, <1>4 DEF IsTotal

(* Whatever set it was built for, a total says the same of a subset.       *)
LEMMA TotalUnique ==
  ASSUME NEW S, NEW R, NEW g, NEW h, IsTotal(g, S), IsTotal(h, R),
         IsFiniteSet(S)
  PROVE  \A T \in SUBSET S : T \in SUBSET R => g[T] = h[T]
<1>. DEFINE C == {T \in SUBSET S : T \in SUBSET R /\ g[T] # h[T]}
<1>. SUFFICES ASSUME C # {} PROVE FALSE
  OBVIOUS
<1>0. \A T \in C : IsFiniteSet(T)
  BY FS_Subset
<1>1. PICK T \in C : \A U \in C : Cardinality(T) <= Cardinality(U)
  BY <1>0, SmallestSet
<1>2. T # {}
  BY DEF IsTotal
<1>3. T \ {Pick(T)} \notin C
  BY <1>0, <1>1, <1>2, PickSmaller, FS_CardinalityType
<1>4. g[T \ {Pick(T)}] = h[T \ {Pick(T)}]
  BY <1>3
<1>5. g[T] = Pick(T).qty + g[T \ {Pick(T)}] /\ h[T] = Pick(T).qty + h[T \ {Pick(T)}]
  BY <1>2 DEF IsTotal
<1>. QED
  BY <1>4, <1>5

LEMMA SharesStep ==
  ASSUME NEW S, IsFiniteSet(S)
  PROVE  /\ Shares({}) = 0
         /\ S # {} => Shares(S) = Pick(S).qty + Shares(S \ {Pick(S)})
<1>. DEFINE Total(T) == CHOOSE g : IsTotal(g, T)
<1>1. \A T : IsFiniteSet(T) => IsTotal(Total(T), T) /\ Shares(T) = Total(T)[T]
  BY TotalExists, SharesDef
<1>. HIDE DEF Total
<1>2. Shares({}) = 0
  BY <1>1, FS_EmptySet DEF IsTotal
<1>3. ASSUME S # {} PROVE Shares(S) = Pick(S).qty + Shares(S \ {Pick(S)})
  <2>. DEFINE U == S \ {Pick(S)}
  <2>1. IsFiniteSet(U) /\ U \in SUBSET S
    BY <1>3, PickSmaller
  <2>2. Shares(S) = Pick(S).qty + Total(S)[U]
    BY <1>1, <1>3, <2>1 DEF IsTotal
  <2>3. Total(S)[U] = Total(U)[U]
    BY <1>1, <2>1, TotalUnique
  <2>. QED
    BY <1>1, <2>1, <2>2, <2>3
<1>. QED
  BY <1>2, <1>3

LEMMA SharesEmpty == Shares({}) = 0
BY SharesStep, FS_EmptySet

LEMMA RemoveSmaller ==
  ASSUME NEW T, IsFiniteSet(T), NEW x \in T
  PROVE  /\ IsFiniteSet(T \ {x})
         /\ Cardinality(T) \in Nat /\ Cardinality(T \ {x}) \in Nat
         /\ ~(Cardinality(T) <= Cardinality(T \ {x}))
<1>1. /\ IsFiniteSet(T \ {x}) /\ Cardinality(T \ {x}) = Cardinality(T) - 1
      /\ Cardinality(T) \in Nat /\ Cardinality(T \ {x}) \in Nat
  BY FS_RemoveElement, FS_CardinalityType
<1>. QED
  BY <1>1

Quantities(S) == \A o \in S : o.qty \in Nat

LEMMA SharesType ==
  ASSUME NEW S, IsFiniteSet(S), Quantities(S)
  PROVE  Shares(S) \in Nat
<1>. DEFINE C == {T \in SUBSET S : Shares(T) \notin Nat}
<1>. SUFFICES ASSUME C # {} PROVE FALSE
  OBVIOUS
<1>0. \A T \in C : IsFiniteSet(T)
  BY FS_Subset
<1>1. PICK T \in C : \A U \in C : Cardinality(T) <= Cardinality(U)
  BY <1>0, SmallestSet
<1>2. T # {}
  BY <1>1, SharesEmpty
<1>3. T \ {Pick(T)} \notin C
  BY <1>0, <1>1, <1>2, PickSmaller, FS_CardinalityType
<1>4. Pick(T).qty \in Nat
  BY <1>0, <1>2, PickSmaller DEF Quantities
<1>5. Shares(T \ {Pick(T)}) \in Nat
  BY <1>3
<1>. QED
  BY <1>0, <1>2, <1>4, <1>5, SharesStep

(* Any element may be taken out first.                                     *)
LEMMA SharesRemove ==
  ASSUME NEW S, IsFiniteSet(S), Quantities(S), NEW x \in S
  PROVE  Shares(S) = x.qty + Shares(S \ {x})
<1>. DEFINE C == {T \in SUBSET S : \E y \in T : Shares(T) # y.qty + Shares(T \ {y})}
<1>. SUFFICES ASSUME C # {} PROVE FALSE
  OBVIOUS
<1>0. \A T \in SUBSET S : IsFiniteSet(T) /\ Quantities(T) /\ Shares(T) \in Nat
  BY FS_Subset, SharesType DEF Quantities
<1>1. PICK T \in C : \A U \in C : Cardinality(T) <= Cardinality(U)
  BY <1>0, SmallestSet
<1>2. PICK y \in T : Shares(T) # y.qty + Shares(T \ {y})
  BY <1>1
<1>. DEFINE p == Pick(T)
           A == T \ {p}
           B == T \ {y}
           D == (T \ {p}) \ {y}
<1>3. /\ p \in T /\ IsFiniteSet(T) /\ A \in SUBSET S /\ B \in SUBSET S /\ D \in SUBSET S
      /\ p.qty \in Nat /\ y.qty \in Nat
  <2>1. T \in SUBSET S /\ IsFiniteSet(T) /\ Quantities(T) /\ T # {}
    BY <1>0, <1>1, <1>2
  <2>2. p \in T
    BY <2>1, PickSmaller
  <2>. QED
    BY <1>2, <2>1, <2>2 DEF Quantities
<1>4. p # y
  BY <1>0, <1>1, <1>2, SharesStep
<1>6. A \notin C /\ B \notin C
  <2>1. ~(Cardinality(T) <= Cardinality(A)) /\ ~(Cardinality(T) <= Cardinality(B))
    BY <1>2, <1>3, RemoveSmaller
  <2>. QED
    BY <1>1, <2>1
<1>7. Shares(T) = p.qty + Shares(A)
  BY <1>2, <1>3, SharesStep
<1>8. Shares(A) = y.qty + Shares(D)
  BY <1>2, <1>3, <1>4, <1>6
<1>9. Shares(B) = p.qty + Shares(D)
  <2>1. B \ {p} = D
    OBVIOUS
  <2>. QED
    BY <1>3, <1>4, <1>6, <2>1
<1>10. Shares(D) \in Nat /\ Shares(A) \in Nat /\ Shares(B) \in Nat
  BY <1>0, <1>3
<1>. HIDE DEF A, B, D, p
<1>11. Shares(T) = y.qty + Shares(B)
  BY <1>3, <1>7, <1>8, <1>9, <1>10
<1>. QED
  BY <1>2, <1>11 DEF B

LEMMA SharesAdd ==
  ASSUME NEW S, IsFiniteSet(S), Quantities(S), NEW x, x \notin S, x.qty \in Nat
  PROVE  Shares(S \cup {x}) = Shares(S) + x.qty
<1>1. /\ IsFiniteSet(S \cup {x}) /\ Quantities(S \cup {x})
      /\ (S \cup {x}) \ {x} = S /\ x \in S \cup {x}
  BY FS_AddElement DEF Quantities
<1>2. Shares(S) \in Nat
  BY SharesType
<1>. DEFINE U == S \cup {x}
<1>3. Shares(U) = x.qty + Shares(S)
  <2>1. U \ {x} = S
    BY <1>1
  <2>2. Shares(U) = x.qty + Shares(U \ {x})
    BY <1>1, SharesRemove
  <2>. QED
    BY <2>1, <2>2, Zenon
<1>. HIDE DEF U
<1>4. Shares(U) = Shares(S) + x.qty
  BY <1>2, <1>3
<1>. QED
  BY <1>4 DEF U

LEMMA SharesOne ==
  ASSUME NEW o, o.qty \in Nat
  PROVE  Shares({o}) = o.qty
<1>1. IsFiniteSet({}) /\ Quantities({}) /\ o \notin {}
  BY FS_EmptySet DEF Quantities
<1>2. Shares({} \cup {o}) = Shares({}) + o.qty
  BY <1>1, SharesAdd
<1>3. {} \cup {o} = {o}
  OBVIOUS
<1>4. Shares({o}) = Shares({}) + o.qty
  BY <1>2, <1>3, Zenon
<1>. QED
  BY <1>4, SharesEmpty

(* A part of the set and the rest add up to the whole.                     *)
LEMMA SharesSplit ==
  ASSUME NEW S, IsFiniteSet(S), Quantities(S), NEW R \in SUBSET S
  PROVE  Shares(S) = Shares(R) + Shares(S \ R)
<1>. DEFINE C == {T \in SUBSET R : Shares(S) # Shares(T) + Shares(S \ T)}
<1>. SUFFICES ASSUME C # {} PROVE FALSE
  OBVIOUS
<1>0. \A T \in SUBSET S : IsFiniteSet(T) /\ Quantities(T) /\ Shares(T) \in Nat
  BY FS_Subset, SharesType DEF Quantities
<1>1. PICK T \in C : \A U \in C : Cardinality(T) <= Cardinality(U)
  <2>1. \A T \in C : IsFiniteSet(T)
    BY <1>0
  <2>. QED
    BY <2>1, SmallestSet
<1>2. T # {}
  <2>1. S \ {} = S /\ Shares({}) = 0 /\ Shares(S) \in Nat
    BY <1>0, SharesEmpty
  <2>2. Shares(S) = Shares({}) + Shares(S)
    BY <2>1
  <2>3. Shares(S) = Shares({}) + Shares(S \ {})
    BY <2>1, <2>2
  <2>. QED
    BY <1>1, <2>3
<1>3. PICK x \in T : TRUE
  BY <1>2
<1>. DEFINE U == T \ {x}
<1>4. /\ T \in SUBSET S /\ U \in SUBSET R /\ U \in SUBSET S /\ x \in S
      /\ S \ T \in SUBSET S /\ S \ U = (S \ T) \cup {x} /\ x \notin S \ T
      /\ x.qty \in Nat
  BY <1>1, <1>3 DEF Quantities
<1>5. U \notin C
  <2>1. ~(Cardinality(T) <= Cardinality(U))
    BY <1>0, <1>3, <1>4, RemoveSmaller
  <2>. QED
    BY <1>1, <2>1
<1>6. Shares(S) = Shares(U) + Shares(S \ U)
  BY <1>4, <1>5
<1>7. Shares(T) = x.qty + Shares(U)
  BY <1>0, <1>3, <1>4, SharesRemove
<1>8. Shares(S \ U) = Shares(S \ T) + x.qty
  BY <1>0, <1>4, SharesAdd
<1>9. Shares(U) \in Nat /\ Shares(S \ T) \in Nat
  BY <1>0, <1>4
<1>. HIDE DEF U
<1>10. Shares(S) = Shares(T) + Shares(S \ T)
  BY <1>4, <1>6, <1>7, <1>8, <1>9
<1>. QED
  BY <1>1, <1>10
-----------------------------------------------------------------------------
USE TrailingStopsAssumption, StopLevelAssumption

Working == {"prior", "standing", "entry", "symbols", "cancel", "submit"}
Pcs == Working \cup {"idle", "due", "routing", "routed"}

Position == [qty : Int, entry : Nat]
AnyStop == [id : Nat, sym : Symbols \cup {NoSymbol}, price : Nat, qty : Nat]

ClosesRead == [Symbols -> Nat]
PositionsRead == [Symbols -> Position]
RowsRead == [Symbols -> Prior]
StopsRead == [Symbols -> AnyStop]
DatesRead == [Symbols -> Int]
NameOrNone == Symbols \cup {NoSymbol}
Names == SUBSET Symbols

Cycle == [pc : Pcs, mode : Modes, today : Int, todo : Names, close : ClosesRead,
          seen : PositionsRead, prior : RowsRead, standing : StopsRead,
          bought : DatesRead, cur : NameOrNone, target : Int, hwm : Nat]

(* Between the decision on a symbol and its row, the price is valid, there *)
(* was something to sell, and the symbol is not done.                      *)
AboutToSubmit(c) ==
    c.pc \in {"cancel", "submit"} =>
        c.cur \in c.todo /\ c.target > 0 /\ c.seen[c.cur].qty > 0

Accepted(n) == [id : 1..n, sym : Symbols, price : Nat \ {0}, qty : 1..MaxQty]

Typed ==
    /\ day \in 0..LastDay /\ clock \in {"night", "0940", "1230", "1555"}
    /\ close \in Closes
    /\ held \in [Symbols -> [qty : 0..MaxQty, entry : Nat]]
    /\ lastId \in 0..MaxOrders
    /\ stops \in SUBSET Accepted(lastId) /\ IsFiniteSet(stops)
    /\ lastBuy \in [Symbols -> Int] /\ boughtOn \in [Symbols -> Int]
    /\ rows \in [Symbols -> [stop : Int, hwm : Nat, order : 0..lastId]]
    /\ cycle \in [Procs -> Cycle]
    /\ \A p \in Procs : AboutToSubmit(cycle[p])
    /\ faults \in 0..MaxFaults
    /\ dropped \subseteq Symbols

LEMMA IdleType == Idle \in Cycle
BY DEF Idle, Cycle, Pcs, Working, Modes, NoDate, NoSymbol, NoPrior, NoStop, NoOrder,
       Position, Prior, AnyStop, ClosesRead, PositionsRead, RowsRead, StopsRead,
       DatesRead, NameOrNone, Names

(* The typed updates of a local state that the steps make.                 *)
LEMMA Updates ==
  ASSUME NEW c \in Cycle, NEW x \in Pcs
  PROVE  /\ [c EXCEPT !.pc = x] \in Cycle
         /\ \A y \in RowsRead : [c EXCEPT !.pc = x, !.prior = y] \in Cycle
         /\ \A y \in StopsRead : [c EXCEPT !.pc = x, !.standing = y] \in Cycle
         /\ \A y \in DatesRead : [c EXCEPT !.pc = x, !.bought = y] \in Cycle
         /\ \A t \in Names : [c EXCEPT !.pc = x, !.todo = t] \in Cycle
BY DEF Cycle

LEMMA UpdateSymbol ==
  ASSUME NEW c \in Cycle, NEW x \in Pcs, NEW u \in NameOrNone, NEW v \in Int, NEW w \in Nat
  PROVE  [c EXCEPT !.pc = x, !.cur = u, !.target = v, !.hwm = w] \in Cycle
BY DEF Cycle

LEMMA UpdateAll ==
  ASSUME NEW c \in Cycle, NEW x \in Pcs, NEW t \in Names, NEW u \in NameOrNone,
         NEW v \in Int, NEW w \in Nat
  PROVE  [c EXCEPT !.pc = x, !.todo = t, !.cur = u, !.target = v, !.hwm = w] \in Cycle
BY DEF Cycle

LEMMA DoneType ==
  ASSUME NEW c \in Cycle, NEW s \in Symbols
  PROVE  /\ Done(c, s) \in Cycle
         /\ Done(c, s).pc \in {"idle", "symbols"}
         /\ Done(c, s).pc = "symbols" =>
                /\ Done(c, s).todo = c.todo \ {s}
                /\ Done(c, s).mode = c.mode /\ Done(c, s).today = c.today
                /\ Done(c, s).close = c.close /\ Done(c, s).seen = c.seen
                /\ Done(c, s).prior = c.prior /\ Done(c, s).standing = c.standing
                /\ Done(c, s).bought = c.bought
<1>. DEFINE d == [c EXCEPT !.pc = "symbols", !.todo = @ \ {s},
                           !.cur = NoSymbol, !.target = 0, !.hwm = 0]
<1>1. d \in Cycle
  <2>. DEFINE t == c.todo \ {s}
  <2>1. t \in Names /\ NoSymbol \in NameOrNone /\ "symbols" \in Pcs
    BY DEF Cycle, Names, NameOrNone, Pcs, Working
  <2>2. d = [c EXCEPT !.pc = "symbols", !.todo = t, !.cur = NoSymbol, !.target = 0, !.hwm = 0]
    OBVIOUS
  <2>3. 0 \in Int /\ 0 \in Nat
    OBVIOUS
  <2>. HIDE DEF t, d
  <2>. QED
    BY <2>1, <2>2, <2>3, UpdateAll, Zenon
<1>2. /\ d.pc = "symbols" /\ d.todo = c.todo \ {s}
      /\ d.mode = c.mode /\ d.today = c.today
      /\ d.close = c.close /\ d.seen = c.seen /\ d.prior = c.prior
      /\ d.standing = c.standing /\ d.bought = c.bought
  BY DEF Cycle
<1>3. Idle.pc = "idle"
  BY DEF Idle
<1>4. Done(c, s) = Idle \/ Done(c, s) = d
  BY DEF Done
<1>. HIDE DEF d
<1>. QED
  BY <1>1, <1>2, <1>3, <1>4, IdleType

(* One step of manage_cycle, as the local state c it starts from and the   *)
(* local state d it leaves.                                                *)
Reads(c, d) ==
    \/ /\ c.pc = "prior"
       /\ \/ d = [c EXCEPT !.pc = "standing",
                    !.prior = [s \in Symbols |-> [stop |-> rows[s].stop, hwm |-> rows[s].hwm]]]
          \/ "prior" \in Failures /\ d = [c EXCEPT !.pc = "standing"]
    \/ /\ c.pc = "standing"
       /\ \/ d = [c EXCEPT !.pc = "entry", !.standing = [s \in Symbols |-> Newest(s)]]
          \/ "standing" \in Failures /\ d = [c EXCEPT !.pc = "entry"]
    \/ /\ c.pc = "entry"
       /\ \/ d = [c EXCEPT !.pc = "symbols", !.bought = lastBuy]
          \/ "entry" \in Failures /\ d = [c EXCEPT !.pc = "symbols"]

LEMMA ReadsEffect ==
  ASSUME Typed, NEW p \in Procs, LoadPrior(p) \/ LoadStanding(p) \/ LoadEntry(p)
  PROVE  /\ Reads(cycle[p], cycle'[p])
         /\ cycle' = [cycle EXCEPT ![p] = cycle'[p]]
         /\ UNCHANGED <<envVars, orderVars, rows>> /\ faults' \in 0..MaxFaults
<1>0. cycle \in [Procs -> Cycle] /\ faults \in 0..MaxFaults /\ cycle[p] \in Cycle
  BY DEF Typed
<1>1. /\ UNCHANGED <<envVars, orderVars, rows>>
      /\ faults' \in 0..MaxFaults
  BY <1>0 DEF LoadPrior, LoadStanding, LoadEntry, Fault, NoFault
<1>2. \A d : cycle' = [cycle EXCEPT ![p] = d] =>
                /\ cycle'[p] = d
                /\ cycle' = [cycle EXCEPT ![p] = cycle'[p]]
  BY <1>0
<1>. DEFINE c == cycle[p]
<1>3. CASE LoadPrior(p)
  <2>. DEFINE q == [s \in Symbols |-> [stop |-> rows[s].stop, hwm |-> rows[s].hwm]]
              d == [c EXCEPT !.pc = "standing", !.prior = q]
              e == [c EXCEPT !.pc = "standing"]
  <2>1. \/ cycle' = [cycle EXCEPT ![p] = d]
        \/ "prior" \in Failures /\ cycle' = [cycle EXCEPT ![p] = e]
    BY <1>3 DEF LoadPrior, Fault
  <2>2. c.pc = "prior"
    BY <1>3 DEF LoadPrior
  <2>3. Reads(c, d) /\ ("prior" \in Failures => Reads(c, e))
    BY <2>2 DEF Reads
  <2>. HIDE DEF c, d, e
  <2>4. /\ cycle'[p] = d \/ (cycle'[p] = e /\ Reads(c, e))
        /\ cycle' = [cycle EXCEPT ![p] = cycle'[p]]
    BY <1>2, <2>1, <2>3
  <2>. QED
    BY <1>1, <2>3, <2>4 DEF c
<1>4. CASE LoadStanding(p)
  <2>. DEFINE q == [s \in Symbols |-> Newest(s)]
              d == [c EXCEPT !.pc = "entry", !.standing = q]
              e == [c EXCEPT !.pc = "entry"]
  <2>1. \/ cycle' = [cycle EXCEPT ![p] = d]
        \/ "standing" \in Failures /\ cycle' = [cycle EXCEPT ![p] = e]
    BY <1>4 DEF LoadStanding, Fault
  <2>2. c.pc = "standing"
    BY <1>4 DEF LoadStanding
  <2>3. Reads(c, d) /\ ("standing" \in Failures => Reads(c, e))
    BY <2>2 DEF Reads
  <2>. HIDE DEF c, d, e
  <2>4. /\ cycle'[p] = d \/ (cycle'[p] = e /\ Reads(c, e))
        /\ cycle' = [cycle EXCEPT ![p] = cycle'[p]]
    BY <1>2, <2>1, <2>3
  <2>. QED
    BY <1>1, <2>3, <2>4 DEF c
<1>5. CASE LoadEntry(p)
  <2>. DEFINE d == [c EXCEPT !.pc = "symbols", !.bought = lastBuy]
              e == [c EXCEPT !.pc = "symbols"]
  <2>1. \/ cycle' = [cycle EXCEPT ![p] = d]
        \/ "entry" \in Failures /\ cycle' = [cycle EXCEPT ![p] = e]
    BY <1>5 DEF LoadEntry, Fault
  <2>2. c.pc = "entry"
    BY <1>5 DEF LoadEntry
  <2>3. Reads(c, d) /\ ("entry" \in Failures => Reads(c, e))
    BY <2>2 DEF Reads
  <2>. HIDE DEF c, d, e
  <2>4. /\ cycle'[p] = d \/ (cycle'[p] = e /\ Reads(c, e))
        /\ cycle' = [cycle EXCEPT ![p] = cycle'[p]]
    BY <1>2, <2>1, <2>3
  <2>. QED
    BY <1>1, <2>3, <2>4 DEF c
<1>. QED
  BY <1>1, <1>3, <1>4, <1>5

(* What Level computes from a typed local state.                           *)
Computed(c, s, level) == \E vol \in Vols, edge \in {-1, 0} : level = Level(c, s, vol, edge)

LEMMA ComputedLevel ==
  ASSUME NEW c \in Cycle, NEW s \in Symbols, NEW level, Computed(c, s, level)
  PROVE  /\ level \in Prior
         /\ level.stop >= c.prior[s].stop /\ level.hwm >= c.prior[s].hwm
         /\ LET target == SnapToBrokerTick(level.stop, c.close[s])
            IN  target # TooClose =>
                    /\ target \in Nat \ {0}
                    /\ target >= c.prior[s].stop \/ target = MaxAllowed(c.close[s])
<1>1. PICK vol \in Vols, edge \in {-1, 0} : level = Level(c, s, vol, edge)
  BY DEF Computed
<1>2. /\ c.prior[s] \in Prior /\ c.seen[s].entry \in Nat /\ c.close[s] \in Nat
      /\ Atr \in Nat /\ vol \in Nat /\ edge \in Int
  BY DEF Cycle, RowsRead, PositionsRead, ClosesRead, Position
<1>. DEFINE a == c.prior[s]
            e == c.seen[s].entry
            m == c.close[s]
<1>3. level = ComputeLevel(a, e, m, Atr, vol, edge)
  BY <1>1 DEF Level
<1>. HIDE DEF a, e, m
<1>4. a \in Prior /\ e \in Nat /\ m \in Nat
  BY <1>2 DEF a, e, m
<1>5. level \in Prior
  BY <1>2, <1>3, <1>4, LevelType
<1>6. level.stop >= a.stop /\ level.hwm >= a.hwm
  BY <1>2, <1>3, <1>4, LevelRatchets
<1>. DEFINE target == SnapToBrokerTick(level.stop, m)
<1>7. ASSUME target # TooClose
      PROVE  /\ target \in Nat \ {0}
             /\ target >= a.stop \/ target = MaxAllowed(m)
  <2>1. level.stop \in Int
    BY <1>5 DEF Prior
  <2>2. target \in 1..(m - 1) /\ target \in {level.stop, MaxAllowed(m)}
    BY <1>4, <1>7, <2>1, SnapBelowMarket
  <2>. QED
    BY <1>4, <1>6, <2>2
<1>. QED
  BY <1>5, <1>6, <1>7 DEF a, m

LEMMA Moved ==
  ASSUME NEW f \in [Procs -> Cycle], NEW p \in Procs, NEW g, NEW d, g = [f EXCEPT ![p] = d]
  PROVE  /\ g[p] = d /\ g = [f EXCEPT ![p] = g[p]]
         /\ \A q \in Procs : q # p => g[q] = f[q]
         /\ d \in Cycle => g \in [Procs -> Cycle]
OBVIOUS

(* The ways in which the loop of manage_cycle deals with a symbol.         *)
Passes(c, s, d) == (d = Done(c, s) \/ d = Idle) /\ UNCHANGED rows

Writes(c, s, d) == /\ d = Done(c, s) /\ ~Exempt(c, s)
                   /\ \E level : /\ Computed(c, s, level)
                                 /\ rows' = [rows EXCEPT ![s] =
                                       [stop |-> level.stop, hwm |-> level.hwm, order |-> NoOrder]]

Keeps(c, s, d) ==
    /\ d = Done(c, s) /\ ~Exempt(c, s) /\ c.standing[s] # NoStop
    /\ \E level :
          LET target == SnapToBrokerTick(level.stop, c.close[s])
          IN  /\ Computed(c, s, level) /\ target # TooClose
              /\ ~ShouldReplace(target, c.standing[s].price)
              /\ rows' = [rows EXCEPT ![s] =
                     [stop |-> target, hwm |-> level.hwm, order |-> c.standing[s].id]]

Decides(c, s, d) ==
    /\ ~Exempt(c, s) /\ UNCHANGED rows
    /\ \E level :
          LET target == SnapToBrokerTick(level.stop, c.close[s])
          IN  /\ Computed(c, s, level) /\ target # TooClose
              /\ d = [c EXCEPT !.pc = IF c.standing[s] = NoStop THEN "submit" ELSE "cancel",
                               !.cur = s, !.target = target, !.hwm = level.hwm]

AtSymbol(p, s) ==
    \/ SkipSymbol(p, s)
    \/ \E vol \in Vols, edge \in {-1, 0} :
           ShadowSymbol(p, s, vol, edge) \/ DecideSymbol(p, s, vol, edge)

LEMMA SymbolEffect ==
  ASSUME Typed, NEW p \in Procs, NEW s \in Symbols, AtSymbol(p, s)
  PROVE  LET c == cycle[p]
             d == cycle'[p]
         IN  /\ c.pc = "symbols" /\ s \in c.todo
             /\ Passes(c, s, d) \/ Writes(c, s, d) \/ Keeps(c, s, d) \/ Decides(c, s, d)
             /\ cycle' = [cycle EXCEPT ![p] = d]
             /\ UNCHANGED <<envVars, orderVars>> /\ faults' \in 0..MaxFaults
<1>0. cycle \in [Procs -> Cycle] /\ faults \in 0..MaxFaults /\ cycle[p] \in Cycle
  BY DEF Typed
<1>. DEFINE c == cycle[p]
<1>1. /\ UNCHANGED <<envVars, orderVars>> /\ c.pc = "symbols" /\ s \in c.todo
      /\ faults' \in 0..MaxFaults
  <2>1. CASE SkipSymbol(p, s)
    BY <1>0, <2>1 DEF SkipSymbol, Fault, NoFault
  <2>2. ASSUME NEW vol \in Vols, NEW edge \in {-1, 0}, ShadowSymbol(p, s, vol, edge)
        PROVE  /\ UNCHANGED <<envVars, orderVars>> /\ c.pc = "symbols" /\ s \in c.todo
               /\ faults' \in 0..MaxFaults
    BY <1>0, <2>2 DEF ShadowSymbol, Persist, Fault, NoFault
  <2>3. ASSUME NEW vol \in Vols, NEW edge \in {-1, 0}, DecideSymbol(p, s, vol, edge)
        PROVE  /\ UNCHANGED <<envVars, orderVars>> /\ c.pc = "symbols" /\ s \in c.todo
               /\ faults' \in 0..MaxFaults
    BY <1>0, <2>3 DEF DecideSymbol, Persist, Fault, NoFault
  <2>. QED
    BY <2>1, <2>2, <2>3 DEF AtSymbol
<1>2. \A d : cycle' = [cycle EXCEPT ![p] = d] =>
                /\ cycle'[p] = d
                /\ cycle' = [cycle EXCEPT ![p] = cycle'[p]]
  BY <1>0, Moved
<1>. SUFFICES \E d : /\ cycle' = [cycle EXCEPT ![p] = d]
                     /\ Passes(c, s, d) \/ Writes(c, s, d) \/ Keeps(c, s, d) \/ Decides(c, s, d)
  BY <1>1, <1>2
<1>3. ASSUME NEW stop, NEW hwm, NEW order, Persist(p, s, stop, hwm, order)
      PROVE  \/ /\ rows' = [rows EXCEPT ![s] = [stop |-> stop, hwm |-> hwm, order |-> order]]
                /\ cycle' = [cycle EXCEPT ![p] = Done(c, s)]
             \/ cycle' = [cycle EXCEPT ![p] = Idle] /\ UNCHANGED rows
  BY <1>0, <1>3 DEF Persist
<1>4. CASE SkipSymbol(p, s)
  BY <1>0, <1>4 DEF SkipSymbol, Passes
<1>5. ASSUME NEW vol \in Vols, NEW edge \in {-1, 0}, ShadowSymbol(p, s, vol, edge)
      PROVE  \E d : /\ cycle' = [cycle EXCEPT ![p] = d]
                    /\ Passes(c, s, d) \/ Writes(c, s, d)
  <2>. DEFINE level == Level(c, s, vol, edge)
  <2>1. ~Exempt(c, s) /\ Persist(p, s, level.stop, level.hwm, NoOrder)
    BY <1>5 DEF ShadowSymbol
  <2>2. Computed(c, s, level)
    BY DEF Computed
  <2>. HIDE DEF level, c
  <2>3. \/ /\ rows' = [rows EXCEPT ![s] = [stop |-> level.stop, hwm |-> level.hwm, order |-> NoOrder]]
           /\ cycle' = [cycle EXCEPT ![p] = Done(c, s)]
        \/ cycle' = [cycle EXCEPT ![p] = Idle] /\ UNCHANGED rows
    BY <1>3, <2>1
  <2>. QED
    BY <2>1, <2>2, <2>3 DEF Passes, Writes
<1>6. ASSUME NEW vol \in Vols, NEW edge \in {-1, 0}, DecideSymbol(p, s, vol, edge)
      PROVE  \E d : /\ cycle' = [cycle EXCEPT ![p] = d]
                    /\ Passes(c, s, d) \/ Keeps(c, s, d) \/ Decides(c, s, d)
  <2>. DEFINE level == Level(c, s, vol, edge)
              target == SnapToBrokerTick(level.stop, c.close[s])
              next == [c EXCEPT !.pc = IF c.standing[s] = NoStop THEN "submit" ELSE "cancel",
                                !.cur = s, !.target = target, !.hwm = level.hwm]
  <2>1. /\ ~Exempt(c, s) /\ target # TooClose
        /\ \/ /\ c.standing[s] # NoStop /\ ~ShouldReplace(target, c.standing[s].price)
              /\ Persist(p, s, target, level.hwm, c.standing[s].id)
           \/ cycle' = [cycle EXCEPT ![p] = next] /\ UNCHANGED rows
    BY <1>6 DEF DecideSymbol
  <2>2. Computed(c, s, level)
    BY DEF Computed
  <2>3. CASE cycle' = [cycle EXCEPT ![p] = next] /\ UNCHANGED rows
    <3>1. Decides(c, s, next)
      BY <2>1, <2>2, <2>3 DEF Decides
    <3>. HIDE DEF next
    <3>. QED
      BY <2>3, <3>1
  <2>4. CASE /\ c.standing[s] # NoStop /\ ~ShouldReplace(target, c.standing[s].price)
             /\ Persist(p, s, target, level.hwm, c.standing[s].id)
    <3>. HIDE DEF level, next, c
    <3>1. \/ /\ rows' = [rows EXCEPT ![s] =
                   [stop |-> target, hwm |-> level.hwm, order |-> c.standing[s].id]]
             /\ cycle' = [cycle EXCEPT ![p] = Done(c, s)]
          \/ cycle' = [cycle EXCEPT ![p] = Idle] /\ UNCHANGED rows
      BY <1>3, <2>4
    <3>. QED
      BY <2>1, <2>2, <2>4, <3>1 DEF Passes, Keeps
  <2>. QED
    BY <2>1, <2>3, <2>4
<1>. QED
  BY <1>4, <1>5, <1>6 DEF AtSymbol

(* The end of a symbol: its standing stop is cancelled, and the submission *)
(* is accepted by the broker or is not.                                    *)
Submitted(c) == [id |-> lastId + 1, sym |-> c.cur, price |-> c.target, qty |-> c.seen[c.cur].qty]

Cancels(c, d) ==
    /\ c.pc = "cancel" /\ d = [c EXCEPT !.pc = "submit"]
    /\ \/ Cancel(c.standing[c.cur].id)
       \/ "cancel" \in Failures /\ UNCHANGED stops
    /\ UNCHANGED <<lastId, rows>>

RowFor(c, order) == [rows EXCEPT ![c.cur] = [stop |-> c.target, hwm |-> c.hwm, order |-> order]]

Accepts(c, d) ==
    /\ c.pc = "submit"
    /\ c.seen[c.cur].qty <= Available(c.cur) /\ lastId < MaxOrders
    /\ stops' = stops \cup {Submitted(c)} /\ lastId' = lastId + 1
    /\ \/ d = Done(c, c.cur) /\ rows' \in {RowFor(c, lastId + 1), RowFor(c, NoOrder)}
       \/ d = Idle /\ UNCHANGED rows

Refuses(c, d) ==
    /\ c.pc = "submit" /\ d = Done(c, c.cur)
    /\ rows' = RowFor(c, NoOrder)
    /\ UNCHANGED orderVars

Submits(p) == CancelStanding(p) \/ SubmitStop(p) \/ SubmitRefused(p) \/ SubmitReplyLost(p)

LEMMA SubmitEffect ==
  ASSUME Typed, NEW p \in Procs, Submits(p)
  PROVE  LET c == cycle[p]
             d == cycle'[p]
         IN  /\ Cancels(c, d) \/ Accepts(c, d) \/ Refuses(c, d)
             /\ cycle' = [cycle EXCEPT ![p] = d]
             /\ UNCHANGED envVars /\ faults' \in 0..MaxFaults
<1>0. cycle \in [Procs -> Cycle] /\ faults \in 0..MaxFaults /\ cycle[p] \in Cycle
  BY DEF Typed
<1>. DEFINE c == cycle[p]
<1>1. UNCHANGED envVars /\ faults' \in 0..MaxFaults
  <2>1. CASE CancelStanding(p)
    BY <1>0, <2>1 DEF CancelStanding, Fault, NoFault
  <2>2. CASE SubmitStop(p)
    BY <1>0, <2>2 DEF SubmitStop, Persist, Fault, NoFault
  <2>3. CASE SubmitRefused(p)
    BY <1>0, <2>3 DEF SubmitRefused, Fault, NoFault
  <2>4. CASE SubmitReplyLost(p)
    BY <1>0, <2>4 DEF SubmitReplyLost, Fault
  <2>. QED
    BY <2>1, <2>2, <2>3, <2>4 DEF Submits
<1>2. \A d : cycle' = [cycle EXCEPT ![p] = d] =>
                /\ cycle'[p] = d
                /\ cycle' = [cycle EXCEPT ![p] = cycle'[p]]
  BY <1>0, Moved
<1>. SUFFICES \E d : /\ cycle' = [cycle EXCEPT ![p] = d]
                     /\ Cancels(c, d) \/ Accepts(c, d) \/ Refuses(c, d)
  BY <1>1, <1>2
<1>3. CASE CancelStanding(p)
  <2>. DEFINE d == [c EXCEPT !.pc = "submit"]
  <2>1. cycle' = [cycle EXCEPT ![p] = d]
    BY <1>3 DEF CancelStanding
  <2>2. Cancels(c, d)
    BY <1>3 DEF CancelStanding, Cancels, Fault
  <2>. HIDE DEF c, d
  <2>. QED
    BY <2>1, <2>2
<1>4. CASE SubmitStop(p)
  <2>1. \/ cycle' = [cycle EXCEPT ![p] = Done(c, c.cur)] /\ rows' = RowFor(c, lastId + 1)
        \/ cycle' = [cycle EXCEPT ![p] = Idle] /\ UNCHANGED rows
    BY <1>0, <1>4 DEF SubmitStop, Persist, RowFor
  <2>2. /\ c.pc = "submit"
        /\ c.seen[c.cur].qty <= Available(c.cur) /\ lastId < MaxOrders
        /\ stops' = stops \cup {Submitted(c)} /\ lastId' = lastId + 1
    BY <1>4 DEF SubmitStop, Submitted
  <2>. HIDE DEF c
  <2>. QED
    BY <2>1, <2>2 DEF Accepts
<1>5. CASE SubmitReplyLost(p)
  <2>1. cycle' = [cycle EXCEPT ![p] = Done(c, c.cur)] /\ rows' = RowFor(c, NoOrder)
    BY <1>0, <1>5 DEF SubmitReplyLost, RowFor
  <2>2. /\ c.pc = "submit"
        /\ c.seen[c.cur].qty <= Available(c.cur) /\ lastId < MaxOrders
        /\ stops' = stops \cup {Submitted(c)} /\ lastId' = lastId + 1
    BY <1>5 DEF SubmitReplyLost, Submitted
  <2>. HIDE DEF c
  <2>. QED
    BY <2>1, <2>2 DEF Accepts
<1>6. CASE SubmitRefused(p)
  <2>1. cycle' = [cycle EXCEPT ![p] = Done(c, c.cur)] /\ rows' = RowFor(c, NoOrder)
    BY <1>0, <1>6 DEF SubmitRefused, RowFor
  <2>2. c.pc = "submit" /\ UNCHANGED orderVars
    BY <1>6 DEF SubmitRefused
  <2>. HIDE DEF c
  <2>. QED
    BY <2>1, <2>2 DEF Refuses
<1>. QED
  BY <1>3, <1>4, <1>5, <1>6 DEF Submits
-----------------------------------------------------------------------------
(* The newest of a finite set of orders exists.                            *)
LEMMA NewestOrder ==
  ASSUME Typed, NEW s \in Symbols
  PROVE  /\ Newest(s) \in AnyStop
         /\ Newest(s) = NoStop <=> StopsOf(s) = {}
         /\ StopsOf(s) # {} => /\ Newest(s) \in StopsOf(s)
                               /\ \A o \in StopsOf(s) : o.id <= Newest(s).id
<1>0. /\ \A o \in stops : o.id \in 1..lastId /\ o \in AnyStop /\ o # NoStop
      /\ lastId \in Nat
  BY DEF Typed, Accepted, AnyStop, NoStop, NoOrder
<1>1. CASE StopsOf(s) = {}
  BY <1>1 DEF Newest, NoStop, AnyStop, NoOrder, NoSymbol
<1>2. CASE StopsOf(s) # {}
  <2>. DEFINE R == {lastId - o.id : o \in StopsOf(s)}
  <2>1. StopsOf(s) \subseteq stops
    BY DEF StopsOf
  <2>2. R \subseteq Nat /\ R # {}
    <3>1. \A o \in StopsOf(s) : lastId - o.id \in Nat
      BY <1>0, <2>1
    <3>. QED
      BY <1>2, <3>1
  <2>3. PICK d \in R : \A e \in R : ~(<<e, d>> \in OpToRel(<, Nat))
    BY <2>2, WFMin, NatLessThanWellFounded
  <2>4. \A e \in R : ~(e < d)
    BY <2>2, <2>3 DEF OpToRel
  <2>5. PICK o \in StopsOf(s) : d = lastId - o.id
    BY <2>3
  <2>6. \A x \in StopsOf(s) : x.id <= o.id
    <3>. TAKE x \in StopsOf(s)
    <3>1. lastId - x.id \in R
      OBVIOUS
    <3>2. ~(lastId - x.id < lastId - o.id)
      BY <2>4, <2>5, <3>1
    <3>3. x.id \in Nat /\ o.id \in Nat
      BY <1>0, <2>1
    <3>. QED
      BY <1>0, <3>2, <3>3
  <2>7. Newest(s) \in StopsOf(s) /\ \A x \in StopsOf(s) : x.id <= Newest(s).id
    BY <1>2, <2>6 DEF Newest
  <2>. QED
    BY <1>0, <1>2, <2>1, <2>7
<1>. QED
  BY <1>1, <1>2

(* What the steps of manage_cycle leave in the local state.                *)
LEMMA ReadsType ==
  ASSUME Typed, NEW c \in Cycle, NEW d, Reads(c, d)
  PROVE  /\ d \in Cycle /\ d.pc \in {"standing", "entry", "symbols"}
         /\ d.todo = c.todo /\ d.today = c.today /\ d.seen = c.seen /\ d.close = c.close
<1>1. ASSUME NEW y, y = [s \in Symbols |-> [stop |-> rows[s].stop, hwm |-> rows[s].hwm]]
      PROVE  y \in RowsRead
  BY <1>1 DEF Typed, RowsRead, Prior
<1>2. ASSUME NEW y, y = [s \in Symbols |-> Newest(s)] PROVE y \in StopsRead
  BY <1>2, NewestOrder DEF StopsRead
<1>3. lastBuy \in DatesRead
  BY DEF Typed, DatesRead
<1>4. {"standing", "entry", "symbols"} \subseteq Pcs
  BY DEF Pcs, Working
<1>5. \E x \in {"standing", "entry", "symbols"} :
          \/ d = [c EXCEPT !.pc = x]
          \/ \E y \in RowsRead : d = [c EXCEPT !.pc = x, !.prior = y]
          \/ \E y \in StopsRead : d = [c EXCEPT !.pc = x, !.standing = y]
          \/ \E y \in DatesRead : d = [c EXCEPT !.pc = x, !.bought = y]
  BY <1>1, <1>2, <1>3 DEF Reads
<1>6. d \in Cycle
  <2>1. \A x \in {"standing", "entry", "symbols"} :
            /\ [c EXCEPT !.pc = x] \in Cycle
            /\ \A y \in RowsRead : [c EXCEPT !.pc = x, !.prior = y] \in Cycle
            /\ \A y \in StopsRead : [c EXCEPT !.pc = x, !.standing = y] \in Cycle
            /\ \A y \in DatesRead : [c EXCEPT !.pc = x, !.bought = y] \in Cycle
    BY <1>4, Updates
  <2>2. PICK x \in {"standing", "entry", "symbols"} :
            \/ d = [c EXCEPT !.pc = x]
            \/ \E y \in RowsRead : d = [c EXCEPT !.pc = x, !.prior = y]
            \/ \E y \in StopsRead : d = [c EXCEPT !.pc = x, !.standing = y]
            \/ \E y \in DatesRead : d = [c EXCEPT !.pc = x, !.bought = y]
    BY <1>5, Zenon
  <2>3. CASE d = [c EXCEPT !.pc = x]
    BY <2>1, <2>3, Zenon
  <2>4. ASSUME NEW y \in RowsRead, d = [c EXCEPT !.pc = x, !.prior = y] PROVE d \in Cycle
    BY <2>1, <2>4, Zenon
  <2>5. ASSUME NEW y \in StopsRead, d = [c EXCEPT !.pc = x, !.standing = y] PROVE d \in Cycle
    BY <2>1, <2>5, Zenon
  <2>6. ASSUME NEW y \in DatesRead, d = [c EXCEPT !.pc = x, !.bought = y] PROVE d \in Cycle
    BY <2>1, <2>6, Zenon
  <2>. QED
    BY <2>2, <2>3, <2>4, <2>5, <2>6, Zenon
<1>7. /\ d.pc \in {"standing", "entry", "symbols"}
      /\ d.todo = c.todo /\ d.today = c.today /\ d.seen = c.seen /\ d.close = c.close
  BY <1>5 DEF Cycle
<1>. QED
  BY <1>6, <1>7

LEMMA DecidesType ==
  ASSUME NEW c \in Cycle, NEW s \in Symbols, s \in c.todo, NEW d, Decides(c, s, d)
  PROVE  /\ d \in Cycle /\ AboutToSubmit(d) /\ d.pc \in {"cancel", "submit"} /\ d.cur = s
         /\ d.todo = c.todo /\ d.today = c.today /\ d.seen = c.seen /\ d.close = c.close
         /\ d.prior = c.prior /\ d.standing = c.standing /\ d.bought = c.bought
<1>1. PICK level : /\ Computed(c, s, level)
                   /\ SnapToBrokerTick(level.stop, c.close[s]) # TooClose
                   /\ d = [c EXCEPT !.pc = IF c.standing[s] = NoStop THEN "submit" ELSE "cancel",
                                    !.cur = s,
                                    !.target = SnapToBrokerTick(level.stop, c.close[s]),
                                    !.hwm = level.hwm]
  BY DEF Decides
<1>. DEFINE t == SnapToBrokerTick(level.stop, c.close[s])
            h == level.hwm
            x == IF c.standing[s] = NoStop THEN "submit" ELSE "cancel"
<1>2. t \in Nat \ {0} /\ h \in Nat
  BY <1>1, ComputedLevel DEF Prior
<1>3. x \in {"cancel", "submit"} /\ x \in Pcs /\ s \in NameOrNone
  BY DEF Pcs, Working, NameOrNone
<1>4. d = [c EXCEPT !.pc = x, !.cur = s, !.target = t, !.hwm = h]
  BY <1>1
<1>5. c.seen[s].qty > 0
  BY DEF Decides, Exempt, Cycle, PositionsRead, Position
<1>. HIDE DEF t, h, x
<1>6. d \in Cycle
  <2>1. t \in Int
    BY <1>2
  <2>. QED
    BY <1>2, <1>3, <1>4, <2>1, UpdateSymbol, Zenon
<1>7. /\ d.pc = x /\ d.cur = s /\ d.target = t /\ d.todo = c.todo /\ d.seen = c.seen
      /\ d.today = c.today /\ d.close = c.close /\ d.prior = c.prior
      /\ d.standing = c.standing /\ d.bought = c.bought
  BY <1>4 DEF Cycle
<1>8. AboutToSubmit(d)
  BY <1>2, <1>5, <1>7 DEF AboutToSubmit
<1>. QED
  BY <1>3, <1>6, <1>7, <1>8

LEMMA StepType ==
  ASSUME Typed, NEW p \in Procs, ManageStep(p)
  PROVE  /\ cycle' \in [Procs -> Cycle]
         /\ \A q \in Procs : AboutToSubmit(cycle'[q])
         /\ \A q \in Procs : q # p => cycle'[q] = cycle[q]
         /\ UNCHANGED envVars /\ faults' \in 0..MaxFaults
<1>. DEFINE c == cycle[p]
            d == cycle'[p]
<1>0. cycle \in [Procs -> Cycle] /\ c \in Cycle /\ AboutToSubmit(c)
  BY DEF Typed
<1>1. ASSUME cycle' = [cycle EXCEPT ![p] = d], d \in Cycle, AboutToSubmit(d)
      PROVE  /\ cycle' \in [Procs -> Cycle]
             /\ \A q \in Procs : AboutToSubmit(cycle'[q])
             /\ \A q \in Procs : q # p => cycle'[q] = cycle[q]
  BY <1>0, <1>1 DEF Typed
<1>2. CASE LoadPrior(p) \/ LoadStanding(p) \/ LoadEntry(p)
  <2>1. /\ Reads(c, d) /\ cycle' = [cycle EXCEPT ![p] = d]
        /\ UNCHANGED envVars /\ faults' \in 0..MaxFaults
    BY <1>2, ReadsEffect
  <2>2. d \in Cycle /\ d.pc \in {"standing", "entry", "symbols"}
    BY <1>0, <2>1, ReadsType
  <2>3. AboutToSubmit(d)
    BY <2>2 DEF AboutToSubmit
  <2>. QED
    BY <1>1, <2>1, <2>2, <2>3
<1>3. ASSUME NEW s \in Symbols, AtSymbol(p, s)
      PROVE  /\ cycle' = [cycle EXCEPT ![p] = d] /\ d \in Cycle /\ AboutToSubmit(d)
             /\ UNCHANGED envVars /\ faults' \in 0..MaxFaults
  <2>1. /\ c.pc = "symbols" /\ s \in c.todo
        /\ d = Done(c, s) \/ d = Idle \/ Decides(c, s, d)
        /\ cycle' = [cycle EXCEPT ![p] = d]
        /\ UNCHANGED envVars /\ faults' \in 0..MaxFaults
    BY <1>3, SymbolEffect DEF Passes, Writes, Keeps
  <2>2. CASE d = Done(c, s) \/ d = Idle
    <3>1. d \in Cycle /\ d.pc \in {"idle", "symbols"}
      BY <1>0, <2>2, DoneType, IdleType DEF Idle
    <3>. QED
      BY <2>1, <3>1 DEF AboutToSubmit
  <2>3. CASE Decides(c, s, d)
    BY <1>0, <2>1, <2>3, DecidesType
  <2>. QED
    BY <2>1, <2>2, <2>3
<1>4. CASE Submits(p)
  <2>1. /\ Cancels(c, d) \/ Accepts(c, d) \/ Refuses(c, d)
        /\ cycle' = [cycle EXCEPT ![p] = d]
        /\ UNCHANGED envVars /\ faults' \in 0..MaxFaults
    BY <1>4, SubmitEffect
  <2>2. c.pc \in {"cancel", "submit"} /\ c.cur \in Symbols
    BY <1>0, <2>1 DEF Cancels, Accepts, Refuses, AboutToSubmit, Cycle, Names
  <2>3. CASE Cancels(c, d)
    <3>1. "submit" \in Pcs /\ d = [c EXCEPT !.pc = "submit"]
      BY <2>3 DEF Cancels, Pcs, Working
    <3>2. d \in Cycle
      <4>1. [c EXCEPT !.pc = "submit"] \in Cycle
        BY <1>0, <3>1, Updates
      <4>. QED
        BY <3>1, <4>1, Zenon
    <3>3. d.todo = c.todo /\ d.cur = c.cur /\ d.target = c.target /\ d.seen = c.seen
      BY <1>0, <3>1 DEF Cycle
    <3>4. AboutToSubmit(d)
      BY <1>0, <2>2, <3>3 DEF AboutToSubmit
    <3>. QED
      BY <1>1, <2>1, <3>2, <3>4
  <2>4. CASE d = Done(c, c.cur) \/ d = Idle
    <3>1. d \in Cycle /\ d.pc \in {"idle", "symbols"}
      BY <1>0, <2>2, <2>4, DoneType, IdleType DEF Idle
    <3>2. AboutToSubmit(d)
      BY <3>1 DEF AboutToSubmit
    <3>. QED
      BY <1>1, <2>1, <3>1, <3>2
  <2>. QED
    BY <2>1, <2>3, <2>4 DEF Accepts, Refuses
<1>5. CASE Crash(p)
  <2>1. /\ cycle' = [cycle EXCEPT ![p] = Idle] /\ UNCHANGED envVars
        /\ faults' \in 0..MaxFaults
    BY <1>5 DEF Crash, Fault, Typed
  <2>2. d = Idle /\ AboutToSubmit(Idle)
    BY <1>0, <2>1 DEF AboutToSubmit, Idle
  <2>. QED
    BY <1>1, <2>1, <2>2, IdleType
<1>. QED
  BY <1>1, <1>2, <1>3, <1>4, <1>5 DEF ManageStep, AtSymbol, Submits
-----------------------------------------------------------------------------
(* The broker never holds orders for more shares than the position has;    *)
(* without it a stop that fills could sell what is not there.              *)
NeverOversold == \A s \in Symbols : Covered(s) <= held[s].qty

(* Orders a cycle has read about are orders the broker has accepted.       *)
KnownIds == \A p \in Procs, s \in Symbols : cycle[p].standing[s].id <= lastId

Dates == \A s \in Symbols : /\ lastBuy[s] \in (0..day) \cup {NoDate}
                            /\ boughtOn[s] \in (0..day) \cup {NoDate}
                            /\ lastBuy[s] <= boughtOn[s]

Sound == Typed /\ Dates /\ KnownIds /\ NeverOversold

Lot == [qty : 0..MaxQty, entry : Nat]

LEMMA StopSets ==
  ASSUME Typed, NEW s \in Symbols
  PROVE  /\ IsFiniteSet(StopsOf(s)) /\ Quantities(StopsOf(s)) /\ StopsOf(s) \subseteq stops
         /\ Covered(s) \in Nat
<1>1. StopsOf(s) \subseteq stops /\ IsFiniteSet(stops)
  BY DEF StopsOf, Typed
<1>2. IsFiniteSet(StopsOf(s))
  BY <1>1, FS_Subset
<1>3. Quantities(StopsOf(s))
  BY <1>1 DEF Quantities, Typed, Accepted
<1>. QED
  BY <1>1, <1>2, <1>3, SharesType DEF Covered

LEMMA LessType ==
  ASSUME NEW position \in Lot, NEW n \in Nat, n <= position.qty
  PROVE  Less(position, n) \in Lot /\ Less(position, n).qty = position.qty - n
BY DEF Less, Lot

(* Orders that fill sell what they cover, and leave the rest covered.      *)
LEMMA FillsSell ==
  ASSUME Typed, NeverOversold, NEW filled \in SUBSET stops, stops' = stops \ filled,
         held' \in [Symbols -> {held'[s] : s \in Symbols}],
         \A s \in Symbols :
             \/ held'[s] = Less(held[s], Shares({o \in filled : o.sym = s}))
             \/ held'[s] = held[s] /\ {o \in filled : o.sym = s} = {}
  PROVE  /\ held' \in [Symbols -> Lot]
         /\ \A s \in Symbols : Shares({o \in stops' : o.sym = s}) <= held'[s].qty
         /\ stops' \in SUBSET Accepted(lastId) /\ IsFiniteSet(stops')
<1>1. stops' \in SUBSET Accepted(lastId) /\ IsFiniteSet(stops')
  BY FS_Subset DEF Typed
<1>2. ASSUME NEW s \in Symbols
      PROVE  /\ held'[s] \in Lot
             /\ Shares({o \in stops' : o.sym = s}) <= held'[s].qty
  <2>. DEFINE F == {o \in filled : o.sym = s}
              R == {o \in stops' : o.sym = s}
  <2>1. /\ IsFiniteSet(StopsOf(s)) /\ Quantities(StopsOf(s)) /\ Covered(s) \in Nat
        /\ Covered(s) <= held[s].qty /\ held[s] \in Lot
    BY StopSets DEF NeverOversold, Typed, Lot
  <2>2. F \in SUBSET StopsOf(s) /\ StopsOf(s) \ F = R /\ R \in SUBSET StopsOf(s)
    BY DEF StopsOf
  <2>3. Covered(s) = Shares(F) + Shares(StopsOf(s) \ F)
    BY <2>1, <2>2, SharesSplit DEF Covered
  <2>4. Covered(s) = Shares(F) + Shares(R)
    BY <2>2, <2>3, Zenon
  <2>5. Shares(F) \in Nat /\ Shares(R) \in Nat
    <3>1. /\ IsFiniteSet(F) /\ Quantities(F) /\ IsFiniteSet(R) /\ Quantities(R)
      BY <2>1, <2>2, FS_Subset DEF Quantities
    <3>. QED
      BY <3>1, SharesType
  <2>6. held'[s] = Less(held[s], Shares(F)) \/ held'[s] = held[s]
    OBVIOUS
  <2>7. held'[s] = held[s] => Shares(R) <= held[s].qty
    BY <2>1, <2>4, <2>5 DEF Lot
  <2>8. held[s].qty \in Nat /\ Shares(F) <= held[s].qty /\ Shares(R) <= held[s].qty - Shares(F)
    BY <2>1, <2>4, <2>5 DEF Lot
  <2>9. Less(held[s], Shares(F)) \in Lot /\ Less(held[s], Shares(F)).qty = held[s].qty - Shares(F)
    BY <2>1, <2>5, <2>8, LessType
  <2>. HIDE DEF F, R
  <2>10. held'[s] \in Lot /\ Shares(R) <= held'[s].qty
    BY <2>1, <2>6, <2>7, <2>8, <2>9
  <2>. QED
    BY <2>10 DEF R
<1>3. held' \in [Symbols -> Lot]
  BY <1>2
<1>. QED
  BY <1>1, <1>2, <1>3

LEMMA SoundStops ==
  ASSUME Sound, NEW o \in stops, StopFill(o)
  PROVE  Sound'
<1>1. o.sym \in Symbols /\ held \in [Symbols -> Lot] /\ o.qty \in Nat
  BY DEF Sound, Typed, Accepted, Lot
<1>2. /\ stops' = stops \ {o} /\ held' = [held EXCEPT ![o.sym] = Less(@, o.qty)]
      /\ UNCHANGED <<day, close, lastBuy, lastId, rows, cycle, faults, clock, dropped, boughtOn>>
  BY DEF StopFill
<1>3. Shares({o}) = o.qty
  BY <1>1, SharesOne
<1>4. ASSUME NEW s \in Symbols
      PROVE  \/ held'[s] = Less(held[s], Shares({x \in {o} : x.sym = s}))
             \/ held'[s] = held[s] /\ {x \in {o} : x.sym = s} = {}
  <2>1. CASE s = o.sym
    <3>1. {x \in {o} : x.sym = s} = {o}
      BY <2>1
    <3>2. held'[s] = Less(held[s], o.qty)
      BY <1>1, <1>2, <2>1
    <3>. QED
      BY <1>3, <3>1, <3>2, Zenon
  <2>2. CASE s # o.sym
    BY <1>1, <1>2, <2>2
  <2>. QED
    BY <2>1, <2>2
<1>5. /\ held' \in [Symbols -> Lot]
      /\ \A s \in Symbols : Shares({x \in stops' : x.sym = s}) <= held'[s].qty
      /\ stops' \in SUBSET Accepted(lastId) /\ IsFiniteSet(stops')
  <2>1. Typed /\ NeverOversold /\ {o} \in SUBSET stops /\ stops' = stops \ {o}
    BY <1>2 DEF Sound
  <2>2. held' \in [Symbols -> {held'[s] : s \in Symbols}]
    BY <1>1, <1>2
  <2>. HIDE DEF Lot
  <2>. QED
    BY <1>4, <2>1, <2>2, FillsSell
<1>6. NeverOversold'
  BY <1>5 DEF NeverOversold, Covered, StopsOf
<1>7. Typed'
  BY <1>2, <1>5 DEF Sound, Typed, Lot, AboutToSubmit
<1>. QED
  BY <1>2, <1>6, <1>7 DEF Sound, Dates, KnownIds

(* The local state a cycle starts with.                                    *)
LEMMA StartType ==
  ASSUME Typed, NEW p \in Procs, NEW mode \in Modes, GetPositions(p, mode)
  PROVE  LET d == cycle'[p]
         IN  /\ cycle' = [cycle EXCEPT ![p] = d] /\ d \in Cycle
             /\ d.pc \in {"idle", "prior"}
             /\ d.pc = "prior" => d.today = day /\ d.close = close
             /\ d.standing = [s \in Symbols |-> NoStop]
             /\ \A s \in Symbols : d.prior[s] = NoPrior
<1>. DEFINE seen == [s \in Symbols |-> [qty |-> Available(s), entry |-> held[s].entry]]
            todo == {s \in Symbols : held[s].qty > 0}
            b == [Idle EXCEPT !.pc = "prior", !.mode = mode, !.today = day, !.close = close,
                              !.todo = todo, !.seen = seen]
<1>0. cycle \in [Procs -> Cycle] /\ day \in Int /\ close \in ClosesRead
  <2>1. close \in [Symbols -> Prices] /\ \A x \in Prices : x \in Nat
    BY DEF Typed, Closes
  <2>2. close \in ClosesRead
    BY <2>1 DEF ClosesRead
  <2>. QED
    BY <2>2 DEF Typed
<1>1. seen \in PositionsRead /\ todo \in Names /\ "prior" \in Pcs
  <2>1. \A s \in Symbols : Available(s) \in Int /\ held[s].entry \in Nat
    BY StopSets DEF Typed, Available
  <2>. QED
    BY <2>1 DEF PositionsRead, Position, Names, Pcs, Working
<1>2. cycle' = [cycle EXCEPT ![p] = Idle] \/ cycle' = [cycle EXCEPT ![p] = b]
  BY DEF GetPositions
<1>. HIDE DEF seen, todo
<1>3. b \in Cycle
  BY <1>0, <1>1, IdleType DEF Cycle
<1>4. /\ b.pc = "prior" /\ b.today = day /\ b.close = close
      /\ b.standing = Idle.standing /\ b.prior = Idle.prior
  BY IdleType DEF Cycle
<1>5. /\ Idle.pc = "idle" /\ Idle.standing = [s \in Symbols |-> NoStop]
      /\ Idle.prior = [s \in Symbols |-> NoPrior]
  BY DEF Idle
<1>. HIDE DEF b
<1>6. cycle'[p] \in {Idle, b} /\ cycle' = [cycle EXCEPT ![p] = cycle'[p]]
  BY <1>0, <1>2
<1>. QED
  BY <1>3, <1>4, <1>5, <1>6, IdleType

(* What is known of the orders read goes from state to state.              *)
LEMMA KnownKept ==
  ASSUME Typed, KnownIds, lastId' >= lastId, lastId' \in Nat,
         cycle' \in [Procs -> Cycle],
         NEW p \in Procs,
         \A q \in Procs : q # p => cycle'[q] = cycle[q],
         \A s \in Symbols : \/ cycle'[p].standing[s] = cycle[p].standing[s]
                            \/ cycle'[p].standing[s] = NoStop
                            \/ cycle'[p].standing[s] = Newest(s)
  PROVE  KnownIds'
<1>. SUFFICES ASSUME NEW q \in Procs, NEW s \in Symbols
              PROVE  cycle'[q].standing[s].id <= lastId'
  BY DEF KnownIds
<1>1. lastId \in Nat /\ cycle[q].standing[s].id <= lastId /\ cycle[q].standing[s].id \in Nat
  BY DEF Typed, KnownIds, Cycle, StopsRead, AnyStop
<1>2. NoStop.id <= lastId /\ NoStop.id \in Nat
  BY <1>1 DEF NoStop, NoOrder
<1>3. Newest(s).id <= lastId /\ Newest(s).id \in Nat
  <2>1. CASE StopsOf(s) = {}
    BY <1>2, <2>1, NewestOrder
  <2>2. CASE StopsOf(s) # {}
    BY <2>2, NewestOrder, StopSets DEF Typed, Accepted
  <2>. QED
    BY <2>1, <2>2
<1>4. cycle'[q].standing[s].id <= lastId /\ cycle'[q].standing[s].id \in Nat
  BY <1>1, <1>2, <1>3
<1>. QED
  BY <1>1, <1>4

(* What a step of a cycle leaves of the orders it has read.                *)
LEMMA StandingKept ==
  ASSUME Typed, NEW p \in Procs, ManageStep(p), NEW s \in Symbols
  PROVE  \/ cycle'[p].standing[s] = cycle[p].standing[s]
         \/ cycle'[p].standing[s] = NoStop
         \/ cycle'[p].standing[s] = Newest(s)
<1>. DEFINE c == cycle[p]
            d == cycle'[p]
<1>0. c \in Cycle /\ cycle \in [Procs -> Cycle] /\ AboutToSubmit(c)
  BY DEF Typed
<1>1. Idle.standing[s] = NoStop
  BY DEF Idle
<1>2. ASSUME NEW x \in Symbols, d = Done(c, x) \/ d = Idle
      PROVE  d.standing[s] \in {c.standing[s], NoStop}
  <2>1. Done(c, x) = Idle \/ Done(c, x).standing = c.standing
    <3>. DEFINE e == [c EXCEPT !.pc = "symbols", !.todo = @ \ {x},
                              !.cur = NoSymbol, !.target = 0, !.hwm = 0]
    <3>1. e.standing = c.standing
      BY <1>0 DEF Cycle
    <3>2. Done(c, x) \in {Idle, e}
      BY DEF Done
    <3>. HIDE DEF e
    <3>. QED
      BY <3>1, <3>2
  <2>. QED
    BY <1>1, <1>2, <2>1
<1>3. CASE LoadPrior(p) \/ LoadStanding(p) \/ LoadEntry(p)
  <2>1. Reads(c, d)
    BY <1>3, ReadsEffect
  <2>. HIDE DEF d
  <2>2. d.standing = c.standing \/ d.standing = [x \in Symbols |-> Newest(x)]
    BY <1>0, <2>1 DEF Reads, Cycle
  <2>. QED
    BY <2>2 DEF d
<1>4. ASSUME NEW x \in Symbols, AtSymbol(p, x)
      PROVE  d.standing[s] \in {c.standing[s], NoStop}
  <2>1. x \in c.todo /\ (d = Done(c, x) \/ d = Idle \/ Decides(c, x, d))
    BY <1>4, SymbolEffect DEF Passes, Writes, Keeps
  <2>. QED
    BY <1>0, <1>2, <2>1, DecidesType
<1>5. CASE Submits(p)
  <2>1. Cancels(c, d) \/ Accepts(c, d) \/ Refuses(c, d)
    BY <1>5, SubmitEffect
  <2>2. c.cur \in Symbols
    BY <1>0, <2>1 DEF Cancels, Accepts, Refuses, AboutToSubmit, Cycle, Names
  <2>3. CASE Cancels(c, d)
    <3>1. d = [c EXCEPT !.pc = "submit"]
      BY <2>3 DEF Cancels
    <3>2. d.standing = c.standing
      BY <1>0, <3>1 DEF Cycle
    <3>. QED
      BY <3>2
  <2>. QED
    BY <1>2, <2>1, <2>2, <2>3 DEF Accepts, Refuses
<1>6. CASE Crash(p)
  BY <1>0, <1>1, <1>6 DEF Crash
<1>. QED
  BY <1>3, <1>4, <1>5, <1>6 DEF ManageStep, AtSymbol, Submits

(* What the steps of a cycle leave at the broker and in active_stops.      *)
LEMMA BrokerKept ==
  ASSUME Sound, NEW p \in Procs, ManageStep(p)
  PROVE  /\ lastId' \in 0..MaxOrders /\ lastId' >= lastId
         /\ stops' \in SUBSET Accepted(lastId') /\ IsFiniteSet(stops')
         /\ rows' \in [Symbols -> [stop : Int, hwm : Nat, order : 0..lastId']]
         /\ \A s \in Symbols : Shares({o \in stops' : o.sym = s}) <= held[s].qty
<1>. DEFINE c == cycle[p]
            d == cycle'[p]
            RowType(n) == [stop : Int, hwm : Nat, order : 0..n]
<1>0. /\ Typed /\ c \in Cycle /\ AboutToSubmit(c) /\ lastId \in Nat /\ MaxOrders \in Nat
      /\ lastId \in 0..MaxOrders /\ rows \in [Symbols -> RowType(lastId)]
      /\ stops \in SUBSET Accepted(lastId) /\ IsFiniteSet(stops)
      /\ \A s \in Symbols : Covered(s) <= held[s].qty
  BY DEF Sound, Typed, NeverOversold
<1>1. \A s \in Symbols : {o \in stops : o.sym = s} = StopsOf(s)
  BY DEF StopsOf
<1>2. ASSUME UNCHANGED orderVars, rows' \in [Symbols -> RowType(lastId)]
      PROVE  /\ lastId' \in 0..MaxOrders /\ lastId' >= lastId
             /\ stops' \in SUBSET Accepted(lastId') /\ IsFiniteSet(stops')
             /\ rows' \in [Symbols -> RowType(lastId')]
             /\ \A s \in Symbols : Shares({o \in stops' : o.sym = s}) <= held[s].qty
  <2>1. lastId' = lastId /\ stops' = stops
    BY <1>2 DEF orderVars
  <2>2. \A s \in Symbols : Shares({o \in stops : o.sym = s}) <= held[s].qty
    BY <1>0, <1>1 DEF Covered
  <2>. HIDE DEF RowType
  <2>. QED
    BY <1>0, <1>2, <2>1, <2>2
<1>3. ASSUME NEW s \in Symbols, NEW stop \in Int, NEW hwm \in Nat, NEW n \in Nat,
             NEW order \in 0..n, lastId <= n
      PROVE  [rows EXCEPT ![s] = [stop |-> stop, hwm |-> hwm, order |-> order]]
                 \in [Symbols -> RowType(n)]
  <2>1. RowType(lastId) \subseteq RowType(n)
    BY <1>0, <1>3
  <2>2. [stop |-> stop, hwm |-> hwm, order |-> order] \in RowType(n)
    OBVIOUS
  <2>. HIDE DEF RowType
  <2>. QED
    BY <1>0, <2>1, <2>2
<1>4. CASE LoadPrior(p) \/ LoadStanding(p) \/ LoadEntry(p)
  BY <1>0, <1>2, <1>4, ReadsEffect
<1>5. ASSUME NEW s \in Symbols, AtSymbol(p, s)
      PROVE  UNCHANGED orderVars /\ rows' \in [Symbols -> RowType(lastId)]
  <2>1. UNCHANGED orderVars
    BY <1>0, <1>5, SymbolEffect
  <2>2. CASE Passes(c, s, d) \/ Decides(c, s, d)
    BY <1>0, <2>1, <2>2 DEF Passes, Decides
  <2>3. CASE Writes(c, s, d)
    <3>1. PICK level : /\ Computed(c, s, level)
                       /\ rows' = [rows EXCEPT ![s] =
                              [stop |-> level.stop, hwm |-> level.hwm, order |-> NoOrder]]
      BY <2>3 DEF Writes
    <3>2. level.stop \in Int /\ level.hwm \in Nat /\ NoOrder \in 0..lastId
      BY <1>0, <3>1, ComputedLevel DEF Prior, NoOrder
    <3>. HIDE DEF RowType
    <3>. QED
      BY <1>0, <1>3, <2>1, <3>1, <3>2
  <2>4. CASE Keeps(c, s, d)
    <3>1. PICK level : /\ Computed(c, s, level)
                       /\ SnapToBrokerTick(level.stop, c.close[s]) # TooClose
                       /\ rows' = [rows EXCEPT ![s] =
                              [stop |-> SnapToBrokerTick(level.stop, c.close[s]),
                               hwm |-> level.hwm, order |-> c.standing[s].id]]
      BY <2>4 DEF Keeps
    <3>2. level.hwm \in Nat /\ SnapToBrokerTick(level.stop, c.close[s]) \in Int
      BY <1>0, <3>1, ComputedLevel DEF Prior
    <3>3. c.standing[s].id \in 0..lastId
      BY <1>0 DEF Sound, KnownIds, Cycle, StopsRead, AnyStop
    <3>. HIDE DEF RowType, c
    <3>. QED
      BY <1>0, <1>3, <2>1, <3>1, <3>2, <3>3
  <2>. QED
    BY <1>0, <1>5, <2>1, <2>2, <2>3, <2>4, SymbolEffect
<1>6. CASE Submits(p)
  <2>1. Cancels(c, d) \/ Accepts(c, d) \/ Refuses(c, d)
    BY <1>0, <1>6, SubmitEffect
  <2>2. /\ c.cur \in Symbols /\ c.target \in Nat \ {0} /\ c.hwm \in Nat
        /\ c.seen[c.cur].qty \in Nat \ {0}
    BY <1>0, <2>1 DEF Cancels, Accepts, Refuses, AboutToSubmit, Cycle, Names, PositionsRead, Position
  <2>3. CASE Cancels(c, d)
    <3>1. stops' \subseteq stops /\ lastId' = lastId /\ rows' = rows
      BY <2>3 DEF Cancels, Cancel
    <3>2. stops' \in SUBSET Accepted(lastId') /\ IsFiniteSet(stops')
      BY <1>0, <3>1, FS_Subset
    <3>3. ASSUME NEW s \in Symbols
          PROVE  Shares({o \in stops' : o.sym = s}) <= held[s].qty
      <4>. DEFINE R == {o \in stops' : o.sym = s}
      <4>1. R \in SUBSET StopsOf(s) /\ IsFiniteSet(StopsOf(s)) /\ Quantities(StopsOf(s))
        BY <1>0, <3>1, StopSets DEF StopsOf
      <4>2. Covered(s) = Shares(R) + Shares(StopsOf(s) \ R)
        BY <4>1, SharesSplit DEF Covered
      <4>3. Shares(R) \in Nat /\ Shares(StopsOf(s) \ R) \in Nat
        <5>1. /\ IsFiniteSet(R) /\ Quantities(R)
              /\ IsFiniteSet(StopsOf(s) \ R) /\ Quantities(StopsOf(s) \ R)
          BY <4>1, FS_Subset DEF Quantities
        <5>. QED
          BY <5>1, SharesType
      <4>4. Covered(s) <= held[s].qty /\ held[s].qty \in Nat
        BY <1>0 DEF Typed
      <4>. HIDE DEF R
      <4>5. Shares(R) <= held[s].qty
        BY <4>2, <4>3, <4>4
      <4>. QED
        BY <4>5 DEF R
    <3>. QED
      BY <1>0, <3>1, <3>2, <3>3
  <2>4. CASE Accepts(c, d)
    <3>. DEFINE new == Submitted(c)
    <3>1. /\ stops' = stops \cup {new} /\ lastId' = lastId + 1 /\ lastId < MaxOrders
          /\ c.seen[c.cur].qty <= Available(c.cur)
          /\ rows' \in {rows, RowFor(c, lastId + 1), RowFor(c, NoOrder)}
      BY <2>4 DEF Accepts
    <3>2. /\ held[c.cur].qty \in 0..MaxQty /\ Covered(c.cur) \in Nat
          /\ Covered(c.cur) + c.seen[c.cur].qty <= held[c.cur].qty
      BY <1>0, <2>2, <3>1, StopSets DEF Available, Typed
    <3>3. new \in Accepted(lastId') /\ new.sym = c.cur /\ new.qty = c.seen[c.cur].qty
      BY <1>0, <2>2, <3>1, <3>2 DEF Accepted, Submitted
    <3>4. stops' \in SUBSET Accepted(lastId') /\ IsFiniteSet(stops')
      <4>1. Accepted(lastId) \subseteq Accepted(lastId')
        BY <1>0, <3>1 DEF Accepted
      <4>2. IsFiniteSet(stops \cup {new})
        BY <1>0, FS_AddElement
      <4>. QED
        BY <1>0, <3>1, <3>3, <4>1, <4>2
    <3>5. lastId' \in 0..MaxOrders /\ lastId' >= lastId /\ lastId' \in Nat
      BY <1>0, <3>1
    <3>6. rows' \in [Symbols -> RowType(lastId')]
      <4>1. NoOrder \in 0..lastId' /\ lastId + 1 \in 0..lastId' /\ lastId <= lastId'
        BY <1>0, <3>1 DEF NoOrder
      <4>2. c.target \in Int
        BY <2>2
      <4>3. rows \in [Symbols -> RowType(lastId')]
        <5>0. ASSUME NEW n \in Nat, lastId <= n PROVE RowType(lastId) \subseteq RowType(n)
          BY <1>0, <5>0
        <5>. HIDE DEF RowType
        <5>1. RowType(lastId) \subseteq RowType(lastId')
          BY <3>5, <5>0
        <5>. QED
          BY <1>0, <5>1
      <4>. HIDE DEF RowType, c
      <4>4. /\ RowFor(c, lastId + 1) \in [Symbols -> RowType(lastId')]
            /\ RowFor(c, NoOrder) \in [Symbols -> RowType(lastId')]
        BY <1>3, <2>2, <3>5, <4>1, <4>2 DEF RowFor
      <4>. QED
        BY <3>1, <4>3, <4>4
    <3>7. ASSUME NEW s \in Symbols
          PROVE  Shares({o \in stops' : o.sym = s}) <= held[s].qty
      <4>1. CASE s = c.cur
        <5>1. {o \in stops' : o.sym = s} = StopsOf(s) \cup {new}
          BY <3>1, <3>3, <4>1 DEF StopsOf
        <5>2. new \notin StopsOf(s)
          BY <1>0 DEF Accepted, StopsOf, Submitted
        <5>3. Shares(StopsOf(s) \cup {new}) = Covered(s) + new.qty
          BY <1>0, <2>2, <3>3, <5>2, StopSets, SharesAdd DEF Covered
        <5>. HIDE DEF new
        <5>4. Shares(StopsOf(s) \cup {new}) <= held[s].qty
          BY <3>2, <3>3, <4>1, <5>3
        <5>. QED
          BY <5>1, <5>4
      <4>2. CASE s # c.cur
        <5>1. {o \in stops' : o.sym = s} = StopsOf(s)
          BY <3>1, <3>3, <4>2 DEF StopsOf
        <5>. QED
          BY <1>0, <5>1 DEF Covered
      <4>. QED
        BY <4>1, <4>2
    <3>. QED
      BY <3>4, <3>5, <3>6, <3>7
  <2>5. CASE Refuses(c, d)
    <3>1. rows' = RowFor(c, NoOrder) /\ UNCHANGED orderVars
      BY <2>5 DEF Refuses
    <3>2. NoOrder \in 0..lastId /\ c.target \in Int
      BY <1>0, <2>2 DEF NoOrder
    <3>. HIDE DEF RowType, c
    <3>3. RowFor(c, NoOrder) \in [Symbols -> RowType(lastId)]
      BY <1>0, <1>3, <2>2, <3>2 DEF RowFor
    <3>. QED
      BY <1>2, <3>1, <3>3 DEF RowType
  <2>. QED
    BY <2>1, <2>3, <2>4, <2>5
<1>7. CASE Crash(p)
  BY <1>0, <1>2, <1>7 DEF Crash
<1>. HIDE DEF RowType
<1>8. ASSUME NEW s \in Symbols, AtSymbol(p, s)
      PROVE  /\ lastId' \in 0..MaxOrders /\ lastId' >= lastId
             /\ stops' \in SUBSET Accepted(lastId') /\ IsFiniteSet(stops')
             /\ rows' \in [Symbols -> RowType(lastId')]
             /\ \A x \in Symbols : Shares({o \in stops' : o.sym = x}) <= held[x].qty
  BY <1>2, <1>5, <1>8
<1>9. /\ lastId' \in 0..MaxOrders /\ lastId' >= lastId
      /\ stops' \in SUBSET Accepted(lastId') /\ IsFiniteSet(stops')
      /\ rows' \in [Symbols -> RowType(lastId')]
      /\ \A x \in Symbols : Shares({o \in stops' : o.sym = x}) <= held[x].qty
  BY <1>4, <1>6, <1>7, <1>8 DEF ManageStep, AtSymbol, Submits, RowType
<1>. QED
  BY <1>9 DEF RowType

(* Sound is inductive.  What has to be shown of each step is that typed    *)
(* values stay typed and that no order outgrows the position.              *)
LEMMA SoundKept ==
  ASSUME Sound, UNCHANGED <<day, close, lastBuy, boughtOn, clock, dropped>>,
         faults' \in 0..MaxFaults,
         cycle' \in [Procs -> Cycle], \A q \in Procs : AboutToSubmit(cycle'[q]),
         held' = held,
         lastId' \in 0..MaxOrders, stops' \in SUBSET Accepted(lastId'), IsFiniteSet(stops'),
         rows' \in [Symbols -> [stop : Int, hwm : Nat, order : 0..lastId']],
         \A s \in Symbols : Shares({o \in stops' : o.sym = s}) <= held[s].qty,
         KnownIds'
  PROVE  Sound'
<1>1. NeverOversold'
  BY DEF NeverOversold, Covered, StopsOf
<1>2. Typed'
  BY DEF Sound, Typed
<1>3. Dates'
  BY DEF Sound, Dates
<1>. QED
  BY <1>1, <1>2, <1>3 DEF Sound

LEMMA SoundManage ==
  ASSUME Sound, NEW p \in Procs, ManageStep(p), UNCHANGED liveVars
  PROVE  Sound'
<1>1. Typed /\ KnownIds
  BY DEF Sound
<1>2. /\ cycle' \in [Procs -> Cycle]
      /\ \A q \in Procs : AboutToSubmit(cycle'[q])
      /\ \A q \in Procs : q # p => cycle'[q] = cycle[q]
      /\ UNCHANGED envVars /\ faults' \in 0..MaxFaults
  BY <1>1, StepType
<1>3. /\ lastId' \in 0..MaxOrders /\ lastId' >= lastId
      /\ stops' \in SUBSET Accepted(lastId') /\ IsFiniteSet(stops')
      /\ rows' \in [Symbols -> [stop : Int, hwm : Nat, order : 0..lastId']]
      /\ \A s \in Symbols : Shares({o \in stops' : o.sym = s}) <= held[s].qty
  BY BrokerKept
<1>4. KnownIds'
  <2>1. lastId' \in Nat
    BY <1>3
  <2>2. \A s \in Symbols : \/ cycle'[p].standing[s] = cycle[p].standing[s]
                           \/ cycle'[p].standing[s] = NoStop
                           \/ cycle'[p].standing[s] = Newest(s)
    BY <1>1, StandingKept
  <2>. QED
    BY <1>1, <1>2, <1>3, <2>1, <2>2, KnownKept
<1>5. /\ UNCHANGED <<day, close, lastBuy, boughtOn, clock, dropped>> /\ held' = held
  BY <1>2 DEF envVars, liveVars
<1>. QED
  BY <1>2, <1>3, <1>4, <1>5, SoundKept

(* A cycle that starts, or main's local state replaced.                    *)
LEMMA SoundLocal ==
  ASSUME Sound, NEW p \in Procs, NEW d \in Cycle, AboutToSubmit(d),
         cycle' = [cycle EXCEPT ![p] = d],
         d.standing = [s \in Symbols |-> NoStop] \/ d.standing = cycle[p].standing,
         UNCHANGED <<day, close, lastBuy, boughtOn, clock, held, orderVars, rows>>,
         dropped' \subseteq Symbols, faults' \in 0..MaxFaults
  PROVE  Sound'
<1>1. Typed /\ KnownIds /\ cycle \in [Procs -> Cycle]
  BY DEF Sound, Typed
<1>2. /\ cycle' \in [Procs -> Cycle] /\ cycle'[p] = d
      /\ \A q \in Procs : q # p => cycle'[q] = cycle[q]
      /\ \A q \in Procs : AboutToSubmit(cycle'[q])
  BY <1>1 DEF Typed
<1>3. KnownIds'
  <2>1. lastId' = lastId /\ lastId' >= lastId /\ lastId' \in Nat
    BY <1>1 DEF orderVars, Typed
  <2>2. \A s \in Symbols : cycle'[p].standing[s] \in {cycle[p].standing[s], NoStop}
    BY <1>2
  <2>. QED
    BY <1>1, <1>2, <2>1, <2>2, KnownKept
<1>4. Typed'
  BY <1>2 DEF Sound, Typed, orderVars
<1>5. NeverOversold' /\ Dates'
  BY DEF Sound, NeverOversold, Covered, StopsOf, Dates, orderVars
<1>. QED
  BY <1>3, <1>4, <1>5 DEF Sound

LEMMA SoundStart ==
  ASSUME Sound, NEW p \in Procs, NEW mode \in Modes, GetPositions(p, mode),
         UNCHANGED <<envVars, orderVars, rows, faults, liveVars>>
  PROVE  Sound'
<1>. DEFINE d == cycle'[p]
<1>1. /\ cycle' = [cycle EXCEPT ![p] = d] /\ d \in Cycle
      /\ d.pc \in {"idle", "prior"} /\ d.standing = [s \in Symbols |-> NoStop]
  BY StartType DEF Sound
<1>2. AboutToSubmit(d)
  BY <1>1 DEF AboutToSubmit
<1>3. /\ UNCHANGED <<day, close, lastBuy, boughtOn, clock, held, orderVars, rows>>
      /\ dropped' \subseteq Symbols /\ faults' \in 0..MaxFaults
  BY DEF envVars, liveVars, Sound, Typed
<1>. QED
  BY <1>1, <1>2, <1>3, SoundLocal

LEMMA SoundTick == Sound /\ Tick => Sound'
<1>. SUFFICES ASSUME Sound, Tick PROVE Sound'
  OBVIOUS
<1>. DEFINE d == [cycle["main"] EXCEPT !.pc = "due"]
<1>0. /\ Typed /\ KnownIds /\ NeverOversold /\ Dates
      /\ cycle \in [Procs -> Cycle] /\ cycle["main"] \in Cycle
  BY DEF Sound, Typed
<1>1. /\ UNCHANGED <<day, lastBuy, lastId, rows, faults, dropped, boughtOn>>
      /\ clock' \in {"night", "0940", "1230", "1555"}
      /\ cycle' = [cycle EXCEPT !["main"] = d]
  <2>1. PICK i \in 1..3 : clock' = Schedule[i + 1]
    BY DEF Tick
  <2>2. clock' \in {"night", "0940", "1230", "1555"}
    BY <2>1 DEF Schedule
  <2>. QED
    BY <2>2 DEF Tick
<1>2. d \in Cycle /\ AboutToSubmit(d) /\ d.standing = cycle["main"].standing
  <2>1. "due" \in Pcs
    BY DEF Pcs
  <2>2. d \in Cycle
    BY <1>0, <2>1, Updates
  <2>3. d.pc = "due" /\ d.standing = cycle["main"].standing
    BY <1>0 DEF Cycle
  <2>. QED
    BY <2>2, <2>3 DEF AboutToSubmit
<1>. HIDE DEF d
<1>3. /\ cycle' \in [Procs -> Cycle] /\ cycle'["main"] = d
      /\ \A q \in Procs : AboutToSubmit(cycle'[q])
      /\ \A q \in Procs : q # "main" => cycle'[q] = cycle[q]
  BY <1>0, <1>1, <1>2 DEF Typed
<1>4. PICK px \in Closes :
          LET filled == {o \in stops : o.price >= px[o.sym]}
              sold(s) == Shares({o \in filled : o.sym = s})
          IN  /\ close' = px
              /\ stops' = stops \ filled
              /\ held' = [s \in Symbols |-> Less(held[s], sold(s))]
  BY DEF Tick, MarketMoves
<1>5. /\ held' \in [Symbols -> Lot]
      /\ \A s \in Symbols : Shares({x \in stops' : x.sym = s}) <= held'[s].qty
      /\ stops' \in SUBSET Accepted(lastId) /\ IsFiniteSet(stops')
  <2>. DEFINE filled == {o \in stops : o.price >= px[o.sym]}
  <2>1. filled \in SUBSET stops /\ stops' = stops \ filled
    BY <1>4
  <2>2. \A s \in Symbols : held'[s] = Less(held[s], Shares({o \in filled : o.sym = s}))
    BY <1>4
  <2>3. held' \in [Symbols -> {held'[s] : s \in Symbols}]
    BY <1>4
  <2>. HIDE DEF filled
  <2>. QED
    BY <1>0, <2>1, <2>2, <2>3, FillsSell
<1>6. close' \in Closes
  BY <1>4
<1>7. Typed'
  BY <1>0, <1>1, <1>3, <1>5, <1>6 DEF Typed, Lot
<1>8. KnownIds'
  <2>1. lastId' = lastId /\ lastId' >= lastId /\ lastId' \in Nat
    BY <1>0, <1>1 DEF Typed
  <2>2. \A s \in Symbols : cycle'["main"].standing[s] = cycle["main"].standing[s]
    BY <1>2, <1>3
  <2>. QED
    BY <1>0, <1>3, <2>1, <2>2, KnownKept
<1>9. NeverOversold' /\ Dates'
  BY <1>0, <1>1, <1>5 DEF NeverOversold, Covered, StopsOf, Dates
<1>. QED
  BY <1>7, <1>8, <1>9 DEF Sound

LEMMA SoundClose == Sound /\ CloseOfDay => Sound'
<1>. SUFFICES ASSUME Sound, CloseOfDay PROVE Sound'
  OBVIOUS
<1>1. /\ UNCHANGED <<close, held, lastId, lastBuy, rows, cycle, dropped, boughtOn>>
      /\ day < LastDay /\ day' = day + 1 /\ clock' = "night" /\ stops' = {} /\ faults' = 0
  BY DEF CloseOfDay
<1>2. IsFiniteSet({})
  BY FS_EmptySet
<1>3. day \in 0..LastDay /\ day' \in 0..LastDay /\ 0..day \subseteq 0..day'
  BY <1>1 DEF Sound, Typed
<1>4. Typed'
  BY <1>1, <1>2, <1>3 DEF Sound, Typed
<1>5. NeverOversold'
  <2>1. \A s \in Symbols : {o \in stops' : o.sym = s} = {} /\ held'[s].qty \in Nat
    BY <1>1 DEF Sound, Typed
  <2>2. \A s \in Symbols : Shares({o \in stops' : o.sym = s}) = 0
    BY <2>1, SharesEmpty
  <2>3. \A s \in Symbols : Shares({o \in stops' : o.sym = s}) <= held'[s].qty
    BY <2>1, <2>2
  <2>. QED
    BY <2>3 DEF NeverOversold, Covered, StopsOf
<1>6. Dates' /\ KnownIds'
  BY <1>1, <1>3 DEF Sound, Dates, KnownIds
<1>. QED
  BY <1>4, <1>5, <1>6 DEF Sound

LEMMA SoundLive == Sound /\ (LiveCycle \/ CycleFails) => Sound'
<1>. SUFFICES ASSUME Sound, LiveCycle \/ CycleFails PROVE Sound'
  OBVIOUS
<1>0. Typed /\ Main \in Cycle
  BY DEF Sound, Typed, Main
<1>1. CASE CycleFails
  <2>1. Idle \in Cycle /\ AboutToSubmit(Idle) /\ Idle.standing = [s \in Symbols |-> NoStop]
    BY IdleType DEF AboutToSubmit, Idle
  <2>2. /\ cycle' = [cycle EXCEPT !["main"] = Idle]
        /\ UNCHANGED <<day, close, lastBuy, boughtOn, clock, held, orderVars, rows>>
        /\ dropped' \subseteq Symbols /\ faults' \in 0..MaxFaults
    BY <1>0, <1>1 DEF CycleFails, envVars, liveVars, Fault, Typed
  <2>. QED
    BY <2>1, <2>2, SoundLocal
<1>2. CASE LiveCycle
  <2>. DEFINE seen == [s \in Symbols |-> [qty |-> Available(s), entry |-> held[s].entry]]
              d == [Idle EXCEPT !.pc = "routing", !.today = day, !.todo = Symbols, !.seen = seen]
  <2>1. seen \in PositionsRead /\ Symbols \in Names /\ "routing" \in Pcs /\ day \in Int
    <3>1. \A s \in Symbols : Available(s) \in Int /\ held[s].entry \in Nat
      BY <1>0, StopSets DEF Typed, Available
    <3>. QED
      BY <1>0, <3>1 DEF PositionsRead, Position, Names, Pcs, Typed
  <2>2. /\ cycle' = [cycle EXCEPT !["main"] = d]
        /\ UNCHANGED <<day, close, lastBuy, boughtOn, clock, held, orderVars, rows>>
        /\ dropped' \subseteq Symbols /\ faults' \in 0..MaxFaults
    BY <1>0, <1>2 DEF LiveCycle, envVars, Typed
  <2>. HIDE DEF seen
  <2>3. d \in Cycle /\ d.pc = "routing" /\ d.standing = Idle.standing
    BY <2>1, IdleType DEF Cycle
  <2>4. AboutToSubmit(d) /\ d.standing = [s \in Symbols |-> NoStop]
    BY <2>3 DEF AboutToSubmit, Idle
  <2>. HIDE DEF d
  <2>. QED
    BY <2>2, <2>3, <2>4, SoundLocal
<1>. QED
  BY <1>1, <1>2

(* What routing one symbol does to the position, which orders may hold a   *)
(* part of.                                                                *)
LEMMA RouteEffect ==
  ASSUME Sound, NEW s \in Symbols, RouteOrder(s)
  PROVE  /\ Main.pc = "routing" /\ UNCHANGED <<day, close, clock, orderVars, rows>>
         /\ held' \in [Symbols -> Lot] /\ \A x \in Symbols : x # s => held'[x] = held[x]
         /\ Covered(s) <= held'[s].qty
         /\ \/ UNCHANGED <<lastBuy, boughtOn>>
            \/ /\ boughtOn' = [boughtOn EXCEPT ![s] = day]
               /\ \/ lastBuy' = [lastBuy EXCEPT ![s] = day]
                  \/ "record" \in Failures /\ UNCHANGED lastBuy
         /\ dropped' \subseteq Symbols /\ faults' \in 0..MaxFaults
<1>0. /\ Typed /\ held \in [Symbols -> Lot] /\ held[s] \in Lot
      /\ Covered(s) \in Nat /\ Covered(s) <= held[s].qty
      /\ faults \in 0..MaxFaults /\ dropped \subseteq Symbols
  BY StopSets DEF Sound, Typed, NeverOversold, Lot
<1>. DEFINE Keeps1 == held' \in [Symbols -> Lot] /\ \A x \in Symbols : x # s => held'[x] = held[x]
<1>1. Main.pc = "routing" /\ UNCHANGED <<rows, clock>>
  BY DEF RouteOrder
<1>2. CASE RouteNothing(s)
  BY <1>0, <1>1, <1>2 DEF RouteNothing, envVars
<1>3. CASE RouteBuy(s)
  <2>0. PICK n \in 1..(MaxQty - held[s].qty) :
            held' = [held EXCEPT ![s] =
                [qty   |-> @.qty + n,
                 entry |-> (@.qty * @.entry + n * close[s]) \div (@.qty + n)]]
    BY <1>3 DEF RouteBuy
  <2>. DEFINE a == held[s].qty
              e == held[s].entry
              q == (a * e + n * close[s]) \div (a + n)
              r == [qty |-> a + n, entry |-> q]
  <2>1. held' = [held EXCEPT ![s] = r]
    BY <1>0, <2>0
  <2>2. /\ a \in 0..MaxQty /\ e \in Nat /\ close[s] \in Nat
        /\ n \in Nat \ {0} /\ a + n \in 0..MaxQty
    <3>1. close \in [Symbols -> Prices] /\ \A x \in Prices : x \in Nat
      BY <1>0 DEF Typed, Closes
    <3>2. MaxQty \in Nat
      BY TrailingStopsAssumption
    <3>3. a \in 0..MaxQty /\ e \in Nat
      BY <1>0 DEF Lot
    <3>4. close[s] \in Nat
      BY <1>0, <3>1
    <3>5. n \in Nat \ {0} /\ a + n \in 0..MaxQty
      BY <2>0, <3>2, <3>3
    <3>. QED
      BY <3>3, <3>4, <3>5
  <2>3. q \in Nat
    <3>1. a * e \in Nat /\ n * close[s] \in Nat
      BY <2>2
    <3>2. a * e + n * close[s] \in Nat /\ a + n \in Nat \ {0}
      BY <2>2, <3>1
    <3>3. \A x \in Nat, y \in Nat \ {0} : x \div y \in Nat
      OBVIOUS
    <3>. QED
      BY <3>2, <3>3
  <2>. HIDE DEF q
  <2>4. r \in Lot /\ r.qty = a + n
    BY <2>1, <2>2, <2>3 DEF Lot
  <2>5. Covered(s) <= r.qty
    BY <1>0, <2>2, <2>4
  <2>. HIDE DEF r
  <2>6. Keeps1 /\ held'[s] = r
    BY <1>0, <2>1, <2>4
  <2>7. /\ UNCHANGED <<day, close, orderVars, dropped>>
        /\ boughtOn' = [boughtOn EXCEPT ![s] = day]
        /\ \/ lastBuy' = [lastBuy EXCEPT ![s] = day]
           \/ "record" \in Failures /\ UNCHANGED lastBuy
        /\ faults' \in 0..MaxFaults
    BY <1>0, <1>3 DEF RouteBuy, Fault, NoFault
  <2>. QED
    BY <1>0, <1>1, <2>5, <2>6, <2>7
<1>4. CASE RouteTrim(s)
  <2>1. PICK n \in 1..MaxQty :
            /\ n <= Available(s) /\ held' = [held EXCEPT ![s] = Less(@, n)]
            /\ UNCHANGED <<day, close, lastBuy, orderVars, faults, dropped, boughtOn>>
    BY <1>4 DEF RouteTrim
  <2>2. n \in Nat /\ n + Covered(s) <= held[s].qty /\ n <= held[s].qty
    BY <1>0, <2>1 DEF Available, Lot
  <2>3. Less(held[s], n) \in Lot /\ Less(held[s], n).qty = held[s].qty - n
    BY <1>0, <2>2, LessType
  <2>4. Covered(s) <= Less(held[s], n).qty
    BY <1>0, <2>2, <2>3 DEF Lot
  <2>5. Keeps1 /\ held'[s] = Less(held[s], n)
    BY <1>0, <2>1, <2>3
  <2>. QED
    BY <1>0, <1>1, <2>1, <2>4, <2>5
<1>5. CASE RouteExit(s)
  <2>1. /\ UNCHANGED <<day, close, lastBuy, orderVars, faults, boughtOn>>
        /\ dropped' = dropped \cup {s}
        /\ \/ /\ Available(s) = held[s].qty
              /\ held' = [held EXCEPT ![s] = Less(@, @.qty)]
           \/ UNCHANGED held
    BY <1>5 DEF RouteExit
  <2>2. CASE UNCHANGED held
    BY <1>0, <1>1, <2>1, <2>2
  <2>3. CASE Available(s) = held[s].qty /\ held' = [held EXCEPT ![s] = Less(@, @.qty)]
    <3>1. Covered(s) = 0 /\ held[s].qty \in Nat
      BY <1>0, <2>3 DEF Available, Lot
    <3>2. Less(held[s], held[s].qty) \in Lot /\ Less(held[s], held[s].qty).qty = held[s].qty - held[s].qty
      BY <1>0, <3>1, LessType
    <3>3. Keeps1 /\ held'[s] = Less(held[s], held[s].qty)
      BY <1>0, <2>3, <3>2
    <3>4. Covered(s) <= held'[s].qty
      BY <3>1, <3>2, <3>3
    <3>. QED
      BY <1>0, <1>1, <2>1, <3>3, <3>4
  <2>. QED
    BY <2>1, <2>2, <2>3
<1>. QED
  BY <1>2, <1>3, <1>4, <1>5 DEF RouteOrder

LEMMA SoundRoute ==
  ASSUME Sound, NEW s \in Symbols, RouteOrder(s)
  PROVE  Sound'
<1>0. Typed /\ KnownIds /\ cycle \in [Procs -> Cycle] /\ Main \in Cycle /\ "main" \in Procs
  BY DEF Sound, Typed, Main
<1>1. /\ UNCHANGED <<day, close, clock, orderVars, rows>>
      /\ held' \in [Symbols -> Lot] /\ \A x \in Symbols : x # s => held'[x] = held[x]
      /\ Covered(s) <= held'[s].qty
      /\ \/ UNCHANGED <<lastBuy, boughtOn>>
         \/ /\ boughtOn' = [boughtOn EXCEPT ![s] = day]
            /\ lastBuy' = [lastBuy EXCEPT ![s] = day] \/ UNCHANGED lastBuy
      /\ dropped' \subseteq Symbols /\ faults' \in 0..MaxFaults
  BY RouteEffect
<1>. DEFINE x == IF Main.todo = {s} THEN "routed" ELSE "routing"
            t == Main.todo \ {s}
            d == [Main EXCEPT !.pc = x, !.todo = t]
<1>2. cycle' = [cycle EXCEPT !["main"] = d]
  BY <1>0 DEF RouteOrder, Routed, Main
<1>3. d \in Cycle /\ d.pc \in {"routed", "routing"} /\ d.standing = Main.standing
  <2>1. x \in Pcs /\ x \in {"routed", "routing"} /\ t \in Names
    BY <1>0 DEF Pcs, Names, Cycle
  <2>. HIDE DEF x, t
  <2>2. d \in Cycle
    BY <1>0, <2>1, Updates
  <2>3. d.pc = x /\ d.standing = Main.standing
    BY <1>0 DEF Cycle
  <2>. QED
    BY <2>1, <2>2, <2>3
<1>. HIDE DEF d
<1>4. /\ cycle' \in [Procs -> Cycle] /\ cycle'["main"] = d
      /\ \A q \in Procs : AboutToSubmit(cycle'[q])
      /\ \A q \in Procs : q # "main" => cycle'[q] = cycle[q]
  BY <1>0, <1>2, <1>3 DEF Typed, AboutToSubmit
<1>5. Dates' /\ lastBuy' \in [Symbols -> Int] /\ boughtOn' \in [Symbols -> Int]
  <2>1. /\ lastBuy \in [Symbols -> Int] /\ boughtOn \in [Symbols -> Int]
        /\ day \in Nat /\ day \in (0..day) \cup {NoDate} /\ NoDate <= day
    BY <1>0 DEF Typed, NoDate
  <2>2. /\ lastBuy' \in [Symbols -> Int] /\ boughtOn' \in [Symbols -> Int]
        /\ \A y \in Symbols : /\ lastBuy'[y] \in {lastBuy[y], day} /\ boughtOn'[y] \in {boughtOn[y], day}
                              /\ boughtOn'[y] # day => /\ boughtOn'[y] = boughtOn[y]
                                                       /\ lastBuy'[y] = lastBuy[y]
    BY <1>1, <2>1
  <2>3. \A y \in Symbols : /\ lastBuy[y] \in (0..day) \cup {NoDate}
                           /\ boughtOn[y] \in (0..day) \cup {NoDate}
                           /\ lastBuy[y] <= boughtOn[y]
    BY DEF Sound, Dates
  <2>4. \A y \in Symbols : /\ lastBuy'[y] \in (0..day) \cup {NoDate}
                           /\ boughtOn'[y] \in (0..day) \cup {NoDate}
    BY <2>1, <2>2, <2>3
  <2>5. \A y \in Symbols : lastBuy'[y] <= boughtOn'[y]
    <3>. TAKE y \in Symbols
    <3>1. CASE boughtOn'[y] = day
      BY <2>1, <2>4, <3>1 DEF NoDate
    <3>2. CASE boughtOn'[y] # day
      BY <2>2, <2>3, <3>2
    <3>. QED
      BY <3>1, <3>2
  <2>. QED
    BY <1>1, <2>2, <2>4, <2>5 DEF Dates
<1>6. NeverOversold'
  <2>1. \A y \in Symbols : Covered(y) <= held'[y].qty
    BY <1>1 DEF Sound, NeverOversold
  <2>. QED
    BY <1>1, <2>1 DEF NeverOversold, Covered, StopsOf, orderVars
<1>7. KnownIds'
  <2>1. lastId' = lastId /\ lastId' >= lastId /\ lastId' \in Nat
    BY <1>0, <1>1 DEF Typed, orderVars
  <2>2. \A y \in Symbols : cycle'["main"].standing[y] = cycle["main"].standing[y]
    BY <1>3, <1>4 DEF Main
  <2>. QED
    BY <1>0, <1>4, <2>1, <2>2, KnownKept
<1>8. Typed'
  BY <1>0, <1>1, <1>4, <1>5 DEF Typed, Lot, orderVars
<1>. QED
  BY <1>5, <1>6, <1>7, <1>8 DEF Sound

LEMMA SoundInit == Init => Sound
<1>. SUFFICES ASSUME Init PROVE Sound
  OBVIOUS
<1>1. Typed
  <2>1. cycle \in [Procs -> Cycle] /\ \A p \in Procs : AboutToSubmit(cycle[p])
    BY IdleType DEF Init, AboutToSubmit, Idle
  <2>2. IsFiniteSet(stops) /\ stops \in SUBSET Accepted(lastId)
    BY FS_EmptySet DEF Init
  <2>3. /\ held \in [Symbols -> [qty : 0..MaxQty, entry : Nat]]
        /\ lastBuy \in [Symbols -> Int] /\ boughtOn \in [Symbols -> Int]
        /\ rows \in [Symbols -> [stop : Int, hwm : Nat, order : 0..lastId]]
    BY DEF Init, NoDate, NoRow, NoOrder
  <2>4. /\ day \in 0..LastDay /\ clock \in {"night", "0940", "1230", "1555"}
        /\ close \in Closes /\ lastId \in 0..MaxOrders /\ faults \in 0..MaxFaults
        /\ dropped \subseteq Symbols
    BY DEF Init, NoOrder
  <2>. QED
    BY <2>1, <2>2, <2>3, <2>4 DEF Typed
<1>2. Dates /\ KnownIds
  BY DEF Init, Dates, KnownIds, NoDate, Idle, NoStop, NoOrder
<1>3. NeverOversold
  <2>1. \A s \in Symbols : StopsOf(s) = {} /\ held[s].qty = 0
    BY DEF Init, StopsOf
  <2>. QED
    BY <2>1, SharesEmpty DEF NeverOversold, Covered
<1>. QED
  BY <1>1, <1>2, <1>3 DEF Sound

LEMMA SoundNext == Sound /\ [Next]_vars => Sound'
<1>. SUFFICES ASSUME Sound, [Next]_vars PROVE Sound'
  OBVIOUS
<1>0. "replace" \in Modes /\ "fresh" \in Modes
  BY DEF Modes
<1>1. ASSUME NEW o \in stops, StopFill(o) PROVE Sound'
  BY <1>1, SoundStops
<1>2. CASE PhantomCycle \/ ManageFresh \/ ModelUpdate
  <2>1. /\ GetPositions("main", "replace") \/ GetPositions("main", "fresh")
        /\ UNCHANGED <<envVars, orderVars, rows, faults, liveVars>>
    BY <1>2 DEF PhantomCycle, ManageFresh, ModelUpdate
  <2>. QED
    BY <1>0, <2>1, SoundStart
<1>3. CASE RunTool
  BY <1>3, SoundStart DEF RunTool
<1>4. CASE Manage
  BY <1>4, SoundManage DEF Manage
<1>5. ASSUME NEW s \in Symbols, RouteOrder(s) PROVE Sound'
  BY <1>5, SoundRoute
<1>6. CASE UNCHANGED vars
  <2>1. Typed' /\ Dates'
    BY <1>6 DEF Sound, Typed, Dates, vars, envVars, orderVars, liveVars
  <2>2. KnownIds' /\ NeverOversold'
    BY <1>6 DEF Sound, KnownIds, NeverOversold, Covered, StopsOf, vars, envVars, orderVars
  <2>. QED
    BY <2>1, <2>2 DEF Sound
<1>. QED
  BY <1>1, <1>2, <1>3, <1>4, <1>5, <1>6, SoundTick, SoundClose, SoundLive DEF Next

LEMMA SoundAlways == Spec => []Sound
BY SoundInit, SoundNext, PTL DEF Spec

(* Type correctness of the trading day, with the bounds the types state:   *)
(* no position is sold below zero by its stops, no order, row or cycle     *)
(* names what the broker has not accepted, and executions never date a buy *)
(* after the broker does.                                                  *)
THEOREM DayTypeCorrect == Spec => []TypeOK
<1>1. Sound => TypeOK
  <2>. SUFFICES ASSUME Sound PROVE TypeOK
    OBVIOUS
  <2>1. {Schedule[i] : i \in 1..4} = {"night", "0940", "1230", "1555"}
    <3>1. /\ Schedule[1] = "night" /\ Schedule[2] = "0940"
          /\ Schedule[3] = "1230" /\ Schedule[4] = "1555"
      BY DEF Schedule
    <3>2. 1..4 = {1, 2, 3, 4}
      OBVIOUS
    <3>. QED
      BY <3>1, <3>2
  <2>2. \A p \in Procs : cycle[p].todo \subseteq Symbols /\ cycle[p].mode \in Modes
    BY DEF Sound, Typed, Cycle, Names
  <2>3. \A s \in Symbols : lastBuy[s] \in (0..day) \cup {NoDate} /\ lastBuy[s] <= boughtOn[s]
    BY DEF Sound, Dates
  <2>4. \A o \in stops : o.id \in 1..lastId /\ o.sym \in Symbols /\ o.qty \in 1..MaxQty
    BY DEF Sound, Typed, Accepted
  <2>5. /\ \A s \in Symbols : held[s].qty \in 0..MaxQty /\ held[s].entry \in Nat
        /\ \A s \in Symbols : rows[s].stop \in Int /\ rows[s].hwm \in Nat
                              /\ rows[s].order \in 0..lastId
    BY DEF Sound, Typed
  <2>6. /\ day \in 0..LastDay /\ clock \in {"night", "0940", "1230", "1555"}
        /\ close \in Closes /\ lastId \in 0..MaxOrders /\ faults \in 0..MaxFaults
        /\ dropped \subseteq Symbols
    BY DEF Sound, Typed
  <2>. QED
    BY <2>1, <2>2, <2>3, <2>4, <2>5, <2>6 DEF TypeOK
<1>. QED
  BY <1>1, SoundAlways, PTL
-----------------------------------------------------------------------------
(* An order is known by its id, and what a cycle has read of an order that *)
(* still stands is its price.                                              *)
UniqueIds == \A o, x \in stops : o.id = x.id => o = x

AsRead == \A p \in Procs, s \in Symbols : \A o \in stops :
              o.id = cycle[p].standing[s].id => o.price = cycle[p].standing[s].price

Near == UniqueIds /\ AsRead /\ RowNearOrder

(* A step adds an order with a new id, or none.                            *)
LEMMA StopsChange ==
  ASSUME Sound, [Next]_vars
  PROVE  \/ stops' \subseteq stops /\ lastId' = lastId
         \/ \E p \in Procs : /\ ManageStep(p) /\ Accepts(cycle[p], cycle'[p])
                             /\ UNCHANGED liveVars
<1>1. ASSUME NEW p \in Procs, ManageStep(p), UNCHANGED liveVars
      PROVE  \/ stops' \subseteq stops /\ lastId' = lastId
             \/ Accepts(cycle[p], cycle'[p])
  <2>1. CASE LoadPrior(p) \/ LoadStanding(p) \/ LoadEntry(p)
    BY <2>1, ReadsEffect DEF Sound, orderVars
  <2>2. ASSUME NEW s \in Symbols, AtSymbol(p, s) PROVE UNCHANGED orderVars
    BY <2>2, SymbolEffect DEF Sound
  <2>3. CASE Submits(p)
    <3>1. \/ Cancels(cycle[p], cycle'[p]) \/ Accepts(cycle[p], cycle'[p])
          \/ Refuses(cycle[p], cycle'[p])
      BY <2>3, SubmitEffect DEF Sound
    <3>. QED
      BY <3>1 DEF Cancels, Cancel, Refuses, orderVars
  <2>4. CASE Crash(p)
    BY <2>4 DEF Crash, orderVars
  <2>. QED
    BY <1>1, <2>1, <2>2, <2>3, <2>4 DEF ManageStep, AtSymbol, Submits, orderVars
<1>2. ASSUME NEW s \in Symbols, RouteOrder(s) PROVE UNCHANGED orderVars
  BY <1>2, RouteEffect
<1>3. CASE Tick \/ CloseOfDay \/ \E o \in stops : StopFill(o)
  BY <1>3 DEF Tick, MarketMoves, CloseOfDay, StopFill
<1>4. CASE PhantomCycle \/ LiveCycle \/ CycleFails \/ ManageFresh \/ ModelUpdate \/ RunTool
           \/ UNCHANGED vars
  BY <1>4 DEF PhantomCycle, LiveCycle, CycleFails, ManageFresh, ModelUpdate, RunTool, vars, orderVars
<1>. QED
  BY <1>1, <1>2, <1>3, <1>4 DEF Next, Manage, orderVars

(* A step leaves a cycle what it had read of a standing stop, forgets it,  *)
(* or reads the newest.                                                    *)
LEMMA StandingChange ==
  ASSUME Sound, [Next]_vars, NEW p \in Procs, NEW s \in Symbols
  PROVE  \/ cycle'[p].standing[s] = cycle[p].standing[s]
         \/ cycle'[p].standing[s] = NoStop
         \/ cycle'[p].standing[s] = Newest(s)
<1>0. Typed /\ cycle \in [Procs -> Cycle]
  BY DEF Sound, Typed
<1>1. ASSUME NEW q \in Procs, ManageStep(q)
      PROVE  \/ cycle'[p].standing[s] = cycle[p].standing[s]
             \/ cycle'[p].standing[s] = NoStop
             \/ cycle'[p].standing[s] = Newest(s)
  BY <1>0, <1>1, StepType, StandingKept
<1>2. ASSUME NEW q \in Procs, NEW mode \in Modes, GetPositions(q, mode)
      PROVE  cycle'[p].standing[s] \in {cycle[p].standing[s], NoStop}
  <2>1. /\ cycle' = [cycle EXCEPT ![q] = cycle'[q]]
        /\ cycle'[q].standing = [x \in Symbols |-> NoStop]
    BY <1>0, <1>2, StartType
  <2>. QED
    BY <1>0, <2>1
<1>3. ASSUME NEW x \in Symbols, RouteOrder(x)
      PROVE  cycle'[p].standing[s] = cycle[p].standing[s]
  <2>. DEFINE y == IF Main.todo = {x} THEN "routed" ELSE "routing"
              t == Main.todo \ {x}
              d == [Main EXCEPT !.pc = y, !.todo = t]
  <2>0. Main \in Cycle /\ Main = cycle["main"]
    BY <1>0 DEF Main
  <2>1. cycle' = [cycle EXCEPT !["main"] = d]
    BY <1>0, <1>3 DEF RouteOrder, Routed, Main
  <2>2. d.standing = Main.standing
    BY <2>0 DEF Cycle
  <2>. HIDE DEF d
  <2>. QED
    BY <1>0, <2>0, <2>1, <2>2
<1>4. CASE Tick
  <2>1. cycle' = [cycle EXCEPT !["main"] = [@ EXCEPT !.pc = "due"]]
    BY <1>4 DEF Tick
  <2>2. \A c \in Cycle : [c EXCEPT !.pc = "due"].standing = c.standing
    BY DEF Cycle
  <2>. QED
    BY <1>0, <2>1, <2>2
<1>5. CASE LiveCycle
  <2>. DEFINE d == [Idle EXCEPT !.pc = "routing", !.today = day, !.todo = Symbols,
                       !.seen = [x \in Symbols |->
                           [qty |-> Available(x), entry |-> held[x].entry]]]
  <2>1. cycle' = [cycle EXCEPT !["main"] = d]
    BY <1>5 DEF LiveCycle
  <2>2. d.standing[s] = NoStop
    BY DEF Idle
  <2>. HIDE DEF d
  <2>. QED
    BY <1>0, <2>1, <2>2
<1>6. CASE CycleFails
  <2>1. cycle' = [cycle EXCEPT !["main"] = Idle] /\ Idle.standing[s] = NoStop
    BY <1>6 DEF CycleFails, Idle
  <2>. QED
    BY <1>0, <2>1
<1>7. CASE CloseOfDay \/ (\E o \in stops : StopFill(o)) \/ UNCHANGED vars
  BY <1>7 DEF CloseOfDay, StopFill, vars
<1>8. CASE PhantomCycle \/ ManageFresh \/ ModelUpdate \/ RunTool
  <2>1. \E q \in Procs, mode \in Modes : GetPositions(q, mode)
    BY <1>8 DEF PhantomCycle, ManageFresh, ModelUpdate, RunTool, Modes
  <2>. QED
    BY <1>2, <2>1
<1>. QED
  BY <1>1, <1>3, <1>4, <1>5, <1>6, <1>7, <1>8 DEF Next, Manage

(* A new order has an id that no order, no row and no cycle knows.         *)
LEMMA NearOrders ==
  ASSUME Sound, [Next]_vars, UniqueIds, AsRead
  PROVE  UniqueIds' /\ AsRead'
<1>0. /\ Typed /\ lastId \in Nat
      /\ \A o \in stops : o.id \in 1..lastId
      /\ \A p \in Procs, s \in Symbols : cycle[p].standing[s].id \in 0..lastId
  BY DEF Sound, Typed, Accepted, KnownIds, Cycle, StopsRead, AnyStop
<1>1. ASSUME NEW p \in Procs, NEW s \in Symbols, NEW o \in stops,
             o.id = cycle'[p].standing[s].id
      PROVE  o.price = cycle'[p].standing[s].price
  <2>1. CASE cycle'[p].standing[s] = cycle[p].standing[s]
    BY <1>1, <2>1 DEF AsRead
  <2>2. CASE cycle'[p].standing[s] = NoStop
    BY <1>0, <1>1, <2>2 DEF NoStop, NoOrder
  <2>3. CASE cycle'[p].standing[s] = Newest(s) /\ Newest(s) # NoStop
    <3>1. Newest(s) \in stops
      BY <1>0, <2>3, NewestOrder, StopSets
    <3>. QED
      BY <1>1, <2>3, <3>1 DEF UniqueIds
  <2>. QED
    BY <2>1, <2>2, <2>3, StandingChange
<1>2. \A p \in Procs, s \in Symbols : cycle'[p].standing[s].id \in 0..lastId
  <2>. SUFFICES ASSUME NEW p \in Procs, NEW s \in Symbols
                PROVE  cycle'[p].standing[s].id \in 0..lastId
    OBVIOUS
  <2>1. NoStop.id \in 0..lastId
    BY <1>0 DEF NoStop, NoOrder
  <2>2. Newest(s).id \in 0..lastId
    BY <1>0, <2>1, NewestOrder, StopSets
  <2>. QED
    BY <1>0, <2>1, <2>2, StandingChange
<1>3. CASE stops' \subseteq stops
  BY <1>1, <1>3 DEF UniqueIds, AsRead
<1>4. ASSUME NEW p \in Procs, Accepts(cycle[p], cycle'[p])
      PROVE  UniqueIds' /\ AsRead'
  <2>. DEFINE new == Submitted(cycle[p])
  <2>1. stops' = stops \cup {new} /\ new.id = lastId + 1
    BY <1>4 DEF Accepts, Submitted
  <2>. HIDE DEF new
  <2>2. UniqueIds'
    BY <1>0, <2>1 DEF UniqueIds
  <2>3. AsRead'
    BY <1>0, <1>1, <1>2, <2>1 DEF AsRead
  <2>. QED
    BY <2>2, <2>3
<1>. QED
  BY <1>3, <1>4, StopsChange

LEMMA NearRows ==
  ASSUME Sound, [Next]_vars, Near
  PROVE  RowNearOrder'
<1>0. /\ Typed /\ lastId \in Nat /\ Hysteresis \in Nat /\ AsRead
      /\ \A o \in stops : o.id \in 1..lastId /\ o.sym \in Symbols /\ o.price \in Nat \ {0}
      /\ rows \in [Symbols -> [stop : Int, hwm : Nat, order : 0..lastId]]
      /\ \A o \in stops : rows[o.sym].order = o.id => rows[o.sym].stop <= o.price + Hysteresis
  BY DEF Sound, Typed, Accepted, Near, RowNearOrder
<1>1. ASSUME stops' \subseteq stops, NEW stop, NEW order,
             \A x \in Symbols : \/ rows'[x] = rows[x]
                               \/ /\ rows'[x].stop = stop
                                  /\ rows'[x].order = order,
             \A o \in stops : order = o.id => stop <= o.price + Hysteresis
      PROVE  RowNearOrder'
  BY <1>0, <1>1 DEF RowNearOrder
<1>2. CASE stops' \subseteq stops /\ UNCHANGED rows
  BY <1>0, <1>2 DEF RowNearOrder
<1>3. ASSUME NEW p \in Procs, NEW s \in Symbols, AtSymbol(p, s)
      PROVE  RowNearOrder'
  <2>. DEFINE c == cycle[p]
              d == cycle'[p]
  <2>1. /\ Passes(c, s, d) \/ Writes(c, s, d) \/ Keeps(c, s, d) \/ Decides(c, s, d)
        /\ stops' = stops /\ c \in Cycle
    BY <1>0, <1>3, SymbolEffect DEF orderVars, Typed
  <2>2. CASE Passes(c, s, d) \/ Decides(c, s, d)
    BY <1>2, <2>1, <2>2 DEF Passes, Decides
  <2>3. CASE Writes(c, s, d)
    <3>1. PICK level : rows' = [rows EXCEPT ![s] =
                           [stop |-> level.stop, hwm |-> level.hwm, order |-> NoOrder]]
      BY <2>3 DEF Writes
    <3>2. \A x \in Symbols : rows'[x] = rows[x] \/ rows'[x].order = NoOrder
      BY <1>0, <3>1
    <3>3. \A o \in stops : NoOrder # o.id
      BY <1>0 DEF NoOrder
    <3>. QED
      BY <1>0, <2>1, <3>2, <3>3 DEF RowNearOrder
  <2>4. CASE Keeps(c, s, d)
    <3>1. PICK level : LET target == SnapToBrokerTick(level.stop, c.close[s])
                       IN  /\ Computed(c, s, level) /\ target # TooClose
                           /\ ~ShouldReplace(target, c.standing[s].price)
                           /\ rows' = [rows EXCEPT ![s] =
                                  [stop |-> target, hwm |-> level.hwm, order |-> c.standing[s].id]]
      BY <2>4 DEF Keeps
    <3>. DEFINE target == SnapToBrokerTick(level.stop, c.close[s])
                row == [stop |-> target, hwm |-> level.hwm, order |-> c.standing[s].id]
    <3>2. target \in Nat \ {0} /\ c.standing[s].price \in Nat
      BY <2>1, <3>1, ComputedLevel DEF Cycle, StopsRead, AnyStop
    <3>3. c.standing[s].price > 0 => target <= c.standing[s].price + Hysteresis
      BY <1>0, <3>1, <3>2 DEF ShouldReplace
    <3>4. \A o \in stops : c.standing[s].id = o.id => o.price = c.standing[s].price
      BY <1>0 DEF AsRead
    <3>5. \A o \in stops : c.standing[s].id = o.id => target <= o.price + Hysteresis
      BY <1>0, <3>2, <3>3, <3>4
    <3>6. rows' = [rows EXCEPT ![s] = row] /\ row.order = c.standing[s].id /\ row.stop = target
      BY <3>1
    <3>. HIDE DEF target, row, c
    <3>7. \A x \in Symbols : \/ rows'[x] = rows[x]
                            \/ /\ rows'[x].stop = target
                               /\ rows'[x].order = c.standing[s].id
      BY <1>0, <3>6
    <3>. QED
      BY <1>1, <2>1, <3>5, <3>7
  <2>. QED
    BY <2>1, <2>2, <2>3, <2>4
<1>4. ASSUME NEW p \in Procs, Submits(p)
      PROVE  RowNearOrder'
  <2>. DEFINE c == cycle[p]
              d == cycle'[p]
  <2>1. Cancels(c, d) \/ Accepts(c, d) \/ Refuses(c, d)
    BY <1>0, <1>4, SubmitEffect
  <2>2. c.cur \in Symbols /\ c.target \in Nat \ {0}
    BY <1>0, <2>1 DEF Cancels, Accepts, Refuses, AboutToSubmit, Cycle, Names, Typed
  <2>3. CASE Cancels(c, d)
    BY <1>2, <2>3 DEF Cancels, Cancel
  <2>4. ASSUME NEW order, rows' = RowFor(c, order)
        PROVE  \A s \in Symbols : \/ rows'[s] = rows[s]
                                  \/ /\ s = c.cur /\ rows'[s].stop = c.target
                                     /\ rows'[s].order = order
    BY <1>0, <2>2, <2>4 DEF RowFor
  <2>5. CASE Refuses(c, d)
    <3>1. \A s \in Symbols : rows'[s] = rows[s] \/ rows'[s].order = NoOrder
      BY <2>4, <2>5 DEF Refuses
    <3>2. stops' = stops /\ \A o \in stops : NoOrder # o.id
      BY <1>0, <2>5 DEF Refuses, orderVars, NoOrder
    <3>. QED
      BY <1>0, <3>1, <3>2 DEF RowNearOrder
  <2>6. CASE Accepts(c, d)
    <3>. DEFINE new == Submitted(c)
    <3>1. stops' = stops \cup {new} /\ new.id = lastId + 1 /\ new.price = c.target
      BY <2>6 DEF Accepts, Submitted
    <3>2. \A s \in Symbols : \/ rows'[s] = rows[s]
                             \/ rows'[s].stop = c.target /\ rows'[s].order = lastId + 1
                             \/ rows'[s].order = NoOrder
      BY <2>4, <2>6 DEF Accepts
    <3>3. /\ \A o \in stops' : o.id # NoOrder
          /\ \A o \in stops : o.id # lastId + 1
          /\ \A s \in Symbols : rows[s].order # lastId + 1
          /\ new.sym = c.cur
      BY <1>0, <3>1 DEF NoOrder, Submitted
    <3>. HIDE DEF new, c
    <3>4. ASSUME NEW o \in stops', rows'[o.sym].order = o.id
          PROVE  rows'[o.sym].stop <= o.price + Hysteresis
      <4>1. CASE o \in stops
        <5>1. rows'[o.sym] = rows[o.sym]
          BY <1>0, <3>2, <3>3, <3>4, <4>1
        <5>. QED
          BY <1>0, <3>4, <4>1, <5>1
      <4>2. CASE o = new
        <5>1. rows'[c.cur].order = lastId + 1
          BY <3>1, <3>3, <3>4, <4>2
        <5>2. rows'[c.cur].stop = c.target
          BY <1>0, <2>2, <3>2, <3>3, <5>1 DEF NoOrder
        <5>. QED
          BY <1>0, <2>2, <3>1, <3>3, <4>2, <5>2
      <4>. QED
        BY <3>1, <4>1, <4>2
    <3>. QED
      BY <3>4 DEF RowNearOrder
  <2>. QED
    BY <2>1, <2>3, <2>5, <2>6
<1>5. ASSUME NEW p \in Procs, ManageStep(p)
      PROVE  RowNearOrder'
  <2>1. CASE LoadPrior(p) \/ LoadStanding(p) \/ LoadEntry(p)
    BY <1>0, <1>2, <2>1, ReadsEffect DEF orderVars
  <2>2. CASE Crash(p)
    BY <1>2, <2>2 DEF Crash, orderVars
  <2>. QED
    BY <1>3, <1>4, <1>5, <2>1, <2>2 DEF ManageStep, AtSymbol, Submits
<1>6. ASSUME NEW s \in Symbols, RouteOrder(s) PROVE stops' \subseteq stops /\ UNCHANGED rows
  BY <1>6, RouteEffect DEF orderVars
<1>7. CASE Tick \/ CloseOfDay \/ \E o \in stops : StopFill(o)
  BY <1>2, <1>7 DEF Tick, MarketMoves, CloseOfDay, StopFill
<1>8. CASE PhantomCycle \/ LiveCycle \/ CycleFails \/ ManageFresh \/ ModelUpdate \/ RunTool
           \/ UNCHANGED vars
  BY <1>2, <1>8 DEF PhantomCycle, LiveCycle, CycleFails, ManageFresh, ModelUpdate, RunTool, vars, orderVars
<1>. QED
  BY <1>2, <1>5, <1>6, <1>7, <1>8 DEF Next, Manage

(* RowNearOrder of LiveCycle, whatever fails and whoever manages the stops *)
(* at the same time: the kept branch compares the new level with the order *)
(* it has read, which still has that price if it stands (should_replace    *)
(* and manage_cycle).                                                      *)
THEOREM RowsStayNear == Spec => []RowNearOrder
<1>1. Init => Near
  BY DEF Init, Near, UniqueIds, AsRead, RowNearOrder
<1>2. Sound /\ Near /\ [Next]_vars => Near'
  BY NearOrders, NearRows DEF Near
<1>3. Near => RowNearOrder
  BY DEF Near
<1>. QED
  BY <1>1, <1>2, <1>3, SoundAlways, PTL DEF Spec
-----------------------------------------------------------------------------
(* The trading process alone.  What one step of its manage_cycle does ...  *)
MainManages(c, d) ==
    \/ Reads(c, d) /\ UNCHANGED <<stops, lastId, rows>>
    \/ \E s \in Symbols :
          /\ c.pc = "symbols" /\ s \in c.todo
          /\ Passes(c, s, d) \/ Writes(c, s, d) \/ Keeps(c, s, d) \/ Decides(c, s, d)
          /\ UNCHANGED <<stops, lastId>>
    \/ Cancels(c, d) \/ Accepts(c, d) \/ Refuses(c, d)
    \/ d = Idle /\ UNCHANGED <<stops, lastId, rows>>

(* ... and what a step of anything else does: it leaves the cycle alone,   *)
(* or the process is not in the middle of one, or has just begun one on    *)
(* the positions of that moment.                                           *)
Elsewhere ==
    /\ stops' \subseteq stops /\ UNCHANGED rows
    /\ \/ UNCHANGED <<cycle, boughtOn, lastBuy>> /\ day' >= day
       \/ Main'.pc \notin Working /\ UNCHANGED <<boughtOn, lastBuy>>
       \/ /\ Main'.pc \notin Working
          /\ \E s \in Symbols :
                /\ boughtOn' = [boughtOn EXCEPT ![s] = day]
                /\ \/ lastBuy' = [lastBuy EXCEPT ![s] = day]
                   \/ "record" \in Failures /\ UNCHANGED lastBuy
       \/ /\ Main'.pc = "prior" /\ Main'.today = day /\ UNCHANGED <<day, boughtOn, lastBuy>>
          /\ \A s \in Symbols : Main'.prior[s] = NoPrior

LEMMA AloneSteps ==
  ASSUME Procs = {"main"}, Sound, [Next]_vars
  PROVE  \/ Elsewhere
         \/ MainManages(Main, Main') /\ UNCHANGED <<day, boughtOn, lastBuy>>
<1>0. /\ Typed /\ Main \in Cycle /\ cycle \in [Procs -> Cycle] /\ "main" \in Procs
      /\ day \in Int
  BY DEF Sound, Typed, Main
<1>1. CASE Manage
  <2>1. ManageStep("main") /\ UNCHANGED liveVars
    BY <1>1 DEF Manage
  <2>2. UNCHANGED <<day, boughtOn, lastBuy>>
    BY <1>0, <2>1, StepType DEF envVars, liveVars
  <2>. DEFINE c == cycle["main"]
              d == cycle'["main"]
  <2>3. ASSUME LoadPrior("main") \/ LoadStanding("main") \/ LoadEntry("main")
        PROVE  MainManages(c, d)
    <3>1. Reads(c, d) /\ UNCHANGED <<stops, lastId, rows>>
      BY <1>0, <2>3, ReadsEffect DEF orderVars
    <3>. HIDE DEF c, d
    <3>. QED
      BY <3>1 DEF MainManages
  <2>4. ASSUME NEW s \in Symbols, AtSymbol("main", s)
        PROVE  MainManages(c, d)
    BY <1>0, <2>4, SymbolEffect DEF MainManages, orderVars
  <2>5. ASSUME Submits("main") PROVE MainManages(c, d)
    <3>1. Cancels(c, d) \/ Accepts(c, d) \/ Refuses(c, d)
      BY <1>0, <2>5, SubmitEffect
    <3>. HIDE DEF c, d
    <3>. QED
      BY <3>1 DEF MainManages
  <2>6. ASSUME Crash("main") PROVE MainManages(c, d)
    <3>1. d = Idle /\ UNCHANGED <<stops, lastId, rows>>
      BY <1>0, <2>6 DEF Crash, orderVars
    <3>. HIDE DEF c, d
    <3>. QED
      BY <3>1 DEF MainManages
  <2>7. c = Main /\ d = Main'
    BY DEF Main
  <2>. HIDE DEF c, d
  <2>8. MainManages(c, d)
    BY <2>1, <2>3, <2>4, <2>5, <2>6 DEF ManageStep, AtSymbol, Submits
  <2>. QED
    BY <2>2, <2>7, <2>8
<1>2. CASE CloseOfDay \/ (\E o \in stops : StopFill(o)) \/ UNCHANGED vars
  BY <1>0, <1>2 DEF CloseOfDay, StopFill, vars, envVars, orderVars, liveVars, Elsewhere
<1>3. CASE Tick
  <2>1. cycle' = [cycle EXCEPT !["main"] = [@ EXCEPT !.pc = "due"]]
    BY <1>3 DEF Tick
  <2>2. \A c \in Cycle : [c EXCEPT !.pc = "due"].pc = "due"
    BY DEF Cycle
  <2>3. Main'.pc = "due"
    BY <1>0, <2>1, <2>2 DEF Main
  <2>. QED
    BY <1>3, <2>3 DEF Tick, MarketMoves, Elsewhere, Working
<1>4. CASE LiveCycle
  <2>. DEFINE d == [Idle EXCEPT !.pc = "routing", !.today = day, !.todo = Symbols,
                       !.seen = [x \in Symbols |->
                           [qty |-> Available(x), entry |-> held[x].entry]]]
  <2>1. cycle' = [cycle EXCEPT !["main"] = d] /\ d.pc = "routing"
    BY <1>4 DEF LiveCycle, Idle
  <2>. HIDE DEF d
  <2>2. Main'.pc = "routing"
    BY <1>0, <2>1 DEF Main
  <2>. QED
    BY <1>4, <2>2 DEF LiveCycle, Elsewhere, Working, envVars, orderVars
<1>5. CASE CycleFails
  <2>1. cycle' = [cycle EXCEPT !["main"] = Idle] /\ Idle.pc = "idle"
    BY <1>5 DEF CycleFails, Idle
  <2>2. Main'.pc = "idle"
    BY <1>0, <2>1 DEF Main
  <2>. QED
    BY <1>5, <2>2 DEF CycleFails, Elsewhere, Working, envVars, orderVars, liveVars
<1>6. ASSUME NEW s \in Symbols, RouteOrder(s)
      PROVE  Elsewhere
  <2>. DEFINE y == IF Main.todo = {s} THEN "routed" ELSE "routing"
              t == Main.todo \ {s}
              d == [Main EXCEPT !.pc = y, !.todo = t]
  <2>1. cycle' = [cycle EXCEPT !["main"] = d]
    BY <1>0, <1>6 DEF RouteOrder, Routed, Main
  <2>2. d.pc \in {"routed", "routing"}
    BY <1>0 DEF Cycle
  <2>. HIDE DEF d
  <2>3. Main'.pc \notin Working
    BY <1>0, <2>1, <2>2 DEF Main, Working
  <2>4. /\ stops' = stops /\ UNCHANGED rows
        /\ \/ UNCHANGED <<lastBuy, boughtOn>>
           \/ /\ boughtOn' = [boughtOn EXCEPT ![s] = day]
              /\ \/ lastBuy' = [lastBuy EXCEPT ![s] = day]
                 \/ "record" \in Failures /\ UNCHANGED lastBuy
    BY <1>6, RouteEffect DEF orderVars
  <2>. QED
    BY <2>3, <2>4 DEF Elsewhere
<1>7. CASE PhantomCycle \/ ManageFresh \/ ModelUpdate \/ RunTool
  <2>1. /\ \E mode \in Modes : GetPositions("main", mode)
        /\ UNCHANGED <<envVars, orderVars, rows, liveVars>>
    BY <1>7 DEF PhantomCycle, ManageFresh, ModelUpdate, RunTool, Modes
  <2>2. /\ Main'.pc \in {"idle", "prior"}
        /\ Main'.pc = "prior" => Main'.today = day /\ \A s \in Symbols : Main'.prior[s] = NoPrior
    BY <1>0, <2>1, StartType DEF Main
  <2>. QED
    BY <2>1, <2>2 DEF Elsewhere, Working, envVars, orderVars, liveVars
<1>. QED
  BY <1>1, <1>2, <1>3, <1>4, <1>5, <1>6, <1>7 DEF Next
-----------------------------------------------------------------------------
(* A cycle has read the dates of the buys, no buy is newer than the cycle, *)
(* and the symbol about to be sent was not bought on its day.              *)
Choosing == {"symbols", "cancel", "submit"}

DatesOf(c) ==
    /\ c.pc \in Working => c.today <= day /\ \A s \in Symbols : boughtOn[s] <= c.today
    /\ c.pc \in Choosing => c.bought = boughtOn
    /\ c.pc \in {"cancel", "submit"} => boughtOn[c.cur] # c.today

EntryDates == lastBuy = boughtOn /\ DatesOf(Main)

LEMMA EntryDatesStep ==
  ASSUME Procs = {"main"}, "entry" \notin Failures, "record" \notin Failures,
         Sound, EntryDates, [Next]_vars
  PROVE  EntryDates'
<1>0. /\ Typed /\ Main \in Cycle /\ day \in Int /\ day' \in Int
      /\ lastBuy \in [Symbols -> Int] /\ boughtOn \in [Symbols -> Int]
      /\ \A s \in Symbols : boughtOn[s] <= day
      /\ \A c \in Cycle : c.today \in Int
  <2>1. Sound' /\ "main" \in Procs
    BY SoundNext
  <2>2. \A s \in Symbols : boughtOn[s] <= day
    BY DEF Sound, Typed, Dates, NoDate
  <2>. QED
    BY <2>1, <2>2 DEF Sound, Typed, Main, Cycle
<1>1. CASE Elsewhere
  <2>1. CASE UNCHANGED <<cycle, boughtOn, lastBuy>> /\ day' >= day
    <3>1. Main' = Main
      BY <2>1 DEF Main
    <3>. QED
      BY <1>0, <2>1, <3>1 DEF EntryDates, DatesOf, Working
  <2>2. CASE Main'.pc \notin Working
    <3>1. lastBuy' = boughtOn'
      BY <1>1, <2>2 DEF Elsewhere, EntryDates, Working
    <3>2. DatesOf(Main)'
      BY <2>2 DEF DatesOf, Working, Choosing
    <3>. QED
      BY <3>1, <3>2 DEF EntryDates
  <2>3. CASE Main'.pc = "prior" /\ Main'.today = day /\ UNCHANGED <<day, boughtOn, lastBuy>>
    BY <1>0, <2>3 DEF EntryDates, DatesOf, Choosing
  <2>. QED
    BY <1>1, <2>1, <2>2, <2>3 DEF Elsewhere
<1>2. CASE MainManages(Main, Main') /\ UNCHANGED <<day, boughtOn, lastBuy>>
  <2>. DEFINE c == Main
              d == Main'
  <2>0. lastBuy' = boughtOn' /\ DatesOf(c) /\ c \in Cycle
    BY <1>0, <1>2 DEF EntryDates
  <2>1. ASSUME d.pc \notin Working PROVE DatesOf(d)
    BY <2>1 DEF DatesOf, Working, Choosing
  <2>2. ASSUME NEW s \in Symbols, c.pc \in Choosing, d = Done(c, s) PROVE DatesOf(d)
    <3>1. /\ d.pc \in {"idle", "symbols"}
          /\ d.pc = "symbols" => d.today = c.today /\ d.bought = c.bought
      BY <2>0, <2>2, DoneType
    <3>. QED
      BY <2>0, <2>2, <3>1 DEF DatesOf, Working, Choosing
  <2>3. ASSUME d = Idle PROVE DatesOf(d)
    BY <2>1, <2>3 DEF Idle, Working
  <2>4. ASSUME Reads(c, d) PROVE DatesOf(d)
    <3>1. d.today = c.today /\ d.pc \in {"standing", "entry", "symbols"}
      BY <1>0, <2>0, <2>4, ReadsType
    <3>2. c.pc \in Working
      BY <2>4 DEF Reads, Working
    <3>3. d.pc = "symbols" => d.bought = lastBuy
      BY <2>0, <2>4 DEF Reads, Cycle
    <3>. QED
      BY <1>0, <2>0, <3>1, <3>2, <3>3 DEF DatesOf, Working, Choosing, EntryDates
  <2>5. ASSUME NEW s \in Symbols, c.pc = "symbols", Decides(c, s, d), s \in c.todo
        PROVE  DatesOf(d)
    <3>1. /\ d.pc \in {"cancel", "submit"} /\ d.cur = s
          /\ d.today = c.today /\ d.bought = c.bought
      BY <2>0, <2>5, DecidesType
    <3>2. c.bought[s] # c.today
      BY <2>5 DEF Decides, Exempt
    <3>. QED
      BY <2>0, <2>5, <3>1, <3>2 DEF DatesOf, Working, Choosing
  <2>6. ASSUME Cancels(c, d) PROVE DatesOf(d)
    <3>1. /\ c.pc = "cancel" /\ d.pc = "submit" /\ d.cur = c.cur
          /\ d.today = c.today /\ d.bought = c.bought
      BY <2>0, <2>6 DEF Cancels, Cycle
    <3>. QED
      BY <2>0, <3>1 DEF DatesOf, Working, Choosing
  <2>7. ASSUME Accepts(c, d) \/ Refuses(c, d) PROVE DatesOf(d)
    <3>1. c.pc = "submit" /\ (d = Done(c, c.cur) \/ d = Idle)
      BY <2>7 DEF Accepts, Refuses
    <3>2. c.cur \in Symbols
      BY <1>0, <3>1 DEF Sound, Typed, AboutToSubmit, Cycle, Names, Main
    <3>. QED
      BY <2>2, <2>3, <3>1, <3>2 DEF Choosing
  <2>8. DatesOf(d)
    BY <1>2, <2>2, <2>3, <2>4, <2>5, <2>6, <2>7 DEF MainManages, Passes, Writes, Keeps, Choosing
  <2>. QED
    BY <1>2, <2>0, <2>8 DEF EntryDates, DatesOf
<1>. QED
  BY <1>1, <1>2, AloneSteps

(* NoSubmitOnEntryDay of LiveCycle for the trading process alone, when the *)
(* executions table is written and read without failures, whatever else    *)
(* fails and at all prices: trailing_stops.py:30, "never submit a stop on  *)
(* entry day (would fire as a day trade)".                                 *)
THEOREM NeverOnEntryDay ==
  ASSUME Procs = {"main"}, "entry" \notin Failures, "record" \notin Failures
  PROVE  Spec => NoSubmitOnEntryDay
<1>1. Init => EntryDates
  BY DEF Init, EntryDates, DatesOf, Main, Idle, Working, Choosing
<1>2. Sound /\ EntryDates /\ [Next]_vars => EntryDates'
  BY EntryDatesStep
<1>3. Sound /\ EntryDates /\ [Next]_vars =>
          [\A o \in stops' \ stops : boughtOn[o.sym] # day]_vars
  <2>. SUFFICES ASSUME Sound, EntryDates, [Next]_vars, NEW o \in stops' \ stops
                PROVE  boughtOn[o.sym] # day
    OBVIOUS
  <2>1. Accepts(Main, Main')
    BY StopsChange DEF Main
  <2>2. o.sym = Main.cur /\ Main.pc = "submit"
    BY <2>1 DEF Accepts, Submitted
  <2>3. Main.cur \in Symbols /\ Main \in Cycle
    BY <2>2 DEF Sound, Typed, AboutToSubmit, Cycle, Names, Main
  <2>4. /\ boughtOn[Main.cur] # Main.today /\ boughtOn[Main.cur] <= Main.today
        /\ Main.today <= day
    BY <2>2, <2>3 DEF EntryDates, DatesOf, Working
  <2>5. /\ boughtOn[Main.cur] \in Int /\ day \in Int /\ Main.today \in Int
    BY <2>3 DEF Sound, Typed, Cycle
  <2>. QED
    BY <2>2, <2>4, <2>5
<1>. QED
  BY <1>1, <1>2, <1>3, SoundAlways, PTL DEF Spec, NoSubmitOnEntryDay
-----------------------------------------------------------------------------
(* A symbol has one standing order at most; a cycle that has read the      *)
(* standing orders knows those of every symbol it has left, and the symbol *)
(* whose order it is about to send has none.                               *)
Single == \A o, x \in stops : o.sym = x.sym => o = x

HasRead == {"entry", "symbols", "cancel", "submit"}

OrdersOf(c) ==
    /\ c.pc \in HasRead => \A o \in stops : o.sym \in c.todo => o = c.standing[o.sym]
    /\ c.pc = "submit" => \A o \in stops : o.sym # c.cur

OneOrder == Single /\ OrdersOf(Main)

LEMMA OneOrderStep ==
  ASSUME Procs = {"main"}, "standing" \notin Failures, "cancel" \notin Failures,
         Sound, OneOrder, [Next]_vars
  PROVE  OneOrder'
<1>0. /\ Typed /\ Main \in Cycle
      /\ \A o \in stops : o.sym \in Symbols /\ o.id # NoOrder
  BY DEF Sound, Typed, Main, Accepted, NoOrder
<1>1. CASE Elsewhere
  <2>1. CASE UNCHANGED <<cycle, boughtOn, lastBuy>>
    <3>1. Main' = Main
      BY <2>1 DEF Main
    <3>. QED
      BY <1>1, <3>1 DEF OneOrder, OrdersOf, Single, Elsewhere
  <2>2. CASE Main'.pc \notin Working \/ Main'.pc = "prior"
    BY <1>1, <2>2 DEF OneOrder, OrdersOf, Single, Elsewhere, Working, HasRead
  <2>. QED
    BY <1>1, <2>1, <2>2 DEF Elsewhere
<1>2. CASE MainManages(Main, Main')
  <2>. DEFINE c == Main
              d == Main'
  <2>0. c \in Cycle /\ Single /\ OrdersOf(c)
    BY <1>0 DEF OneOrder
  <2>1. ASSUME d.pc \notin HasRead, stops' \subseteq stops
        PROVE  OneOrder'
    BY <2>0, <2>1 DEF OneOrder, OrdersOf, Single, HasRead
  <2>2. ASSUME NEW s \in Symbols, c.pc \in HasRead, d = Done(c, s), stops' \subseteq stops
        PROVE  OneOrder'
    <3>1. /\ d.pc \in {"idle", "symbols"}
          /\ d.pc = "symbols" => d.todo \subseteq c.todo /\ d.standing = c.standing
      BY <2>0, <2>2, DoneType
    <3>. QED
      BY <2>0, <2>2, <3>1 DEF OneOrder, OrdersOf, Single, HasRead
  <2>3. ASSUME d = Idle, stops' \subseteq stops PROVE OneOrder'
    BY <2>1, <2>3 DEF Idle, HasRead
  <2>4. ASSUME Reads(c, d), stops' = stops PROVE OneOrder'
    <3>1. d.todo = c.todo /\ d.pc \in {"standing", "entry", "symbols"}
      BY <1>0, <2>0, <2>4, ReadsType
    <3>2. CASE c.pc = "prior"
      BY <2>1, <2>0, <2>4, <3>2 DEF Reads, HasRead, Cycle
    <3>3. CASE c.pc = "standing"
      <4>1. d.standing = [s \in Symbols |-> Newest(s)]
        BY <2>0, <2>4, <3>3 DEF Reads, Cycle
      <4>2. \A o \in stops : o = Newest(o.sym)
        <5>. SUFFICES ASSUME NEW o \in stops PROVE o = Newest(o.sym)
          OBVIOUS
        <5>1. o \in StopsOf(o.sym)
          BY DEF StopsOf
        <5>2. Newest(o.sym) \in StopsOf(o.sym)
          BY <1>0, <5>1, NewestOrder
        <5>. QED
          BY <2>0, <5>1, <5>2 DEF Single, StopsOf
      <4>3. \A o \in stops : o = d.standing[o.sym]
        BY <1>0, <4>1, <4>2
      <4>. QED
        BY <2>0, <2>4, <3>1, <4>3 DEF OneOrder, OrdersOf, Single
    <3>4. CASE c.pc = "entry"
      <4>1. d.standing = c.standing /\ d.pc = "symbols"
        BY <2>0, <2>4, <3>4 DEF Reads, Cycle
      <4>. QED
        BY <2>0, <2>4, <3>1, <3>4, <4>1 DEF OneOrder, OrdersOf, Single, HasRead
    <3>. QED
      BY <2>4, <3>2, <3>3, <3>4 DEF Reads
  <2>5. ASSUME NEW s \in Symbols, c.pc = "symbols", s \in c.todo, Decides(c, s, d), stops' = stops
        PROVE  OneOrder'
    <3>1. /\ d.pc \in {"cancel", "submit"} /\ d.cur = s
          /\ d.todo = c.todo /\ d.standing = c.standing
      BY <2>0, <2>5, DecidesType
    <3>2. d.pc = "submit" => c.standing[s] = NoStop
      BY <2>0, <2>5 DEF Decides, Cycle
    <3>3. \A o \in stops : o # NoStop
      BY <1>0 DEF NoStop
    <3>4. d.pc = "submit" => \A o \in stops : o.sym # s
      BY <2>0, <2>5, <3>2, <3>3 DEF OrdersOf, HasRead
    <3>. QED
      BY <2>0, <2>5, <3>1, <3>4 DEF OneOrder, OrdersOf, Single, HasRead
  <2>6. ASSUME Cancels(c, d) PROVE OneOrder'
    <3>1. /\ c.pc = "cancel" /\ d.pc = "submit" /\ d.cur = c.cur
          /\ d.todo = c.todo /\ d.standing = c.standing
      BY <2>0, <2>6 DEF Cancels, Cycle
    <3>2. stops' = {o \in stops : o.id # c.standing[c.cur].id}
      BY <2>6 DEF Cancels, Cancel
    <3>3. c.cur \in c.todo
      BY <1>0, <3>1 DEF Typed, AboutToSubmit, Main
    <3>4. \A o \in stops' : o \in stops /\ o.sym # c.cur
      BY <2>0, <3>1, <3>2, <3>3 DEF OrdersOf, HasRead
    <3>. QED
      BY <2>0, <3>1, <3>4 DEF OneOrder, OrdersOf, Single, HasRead
  <2>7. ASSUME Accepts(c, d) PROVE OneOrder'
    <3>. DEFINE new == Submitted(c)
    <3>1. /\ c.pc = "submit" /\ stops' = stops \cup {new} /\ new.sym = c.cur
          /\ d = Done(c, c.cur) \/ d = Idle
      BY <2>7 DEF Accepts, Submitted
    <3>2. c.cur \in Symbols
      BY <1>0, <3>1 DEF Typed, AboutToSubmit, Cycle, Names, Main
    <3>. HIDE DEF new
    <3>3. Single'
      BY <2>0, <3>1 DEF Single, OrdersOf
    <3>4. /\ d.pc \in {"idle", "symbols"}
          /\ d.pc = "symbols" => d.todo = c.todo \ {c.cur} /\ d.standing = c.standing
      BY <2>0, <3>1, <3>2, DoneType DEF Idle
    <3>. QED
      BY <2>0, <3>1, <3>3, <3>4 DEF OneOrder, OrdersOf, HasRead
  <2>8. ASSUME Refuses(c, d) PROVE OneOrder'
    <3>1. c.pc = "submit" /\ d = Done(c, c.cur) /\ stops' = stops
      BY <2>8 DEF Refuses, orderVars
    <3>2. c.cur \in Symbols
      BY <1>0, <3>1 DEF Typed, AboutToSubmit, Cycle, Names, Main
    <3>. QED
      BY <2>2, <3>1, <3>2 DEF HasRead
  <2>9. ASSUME NEW s \in Symbols, c.pc = "symbols", stops' = stops,
               Passes(c, s, d) \/ Writes(c, s, d) \/ Keeps(c, s, d)
        PROVE  OneOrder'
    BY <2>2, <2>3, <2>9 DEF Passes, Writes, Keeps, HasRead
  <2>. QED
    BY <1>2, <2>3, <2>4, <2>5, <2>6, <2>7, <2>8, <2>9 DEF MainManages
<1>. QED
  BY <1>1, <1>2, AloneSteps

(* OneStopPerSymbol of LiveCycle for the trading process alone, when the   *)
(* standing orders are read and the cancels succeed, whatever else fails   *)
(* and at all prices: manage_cycle cancels what it has read before it      *)
(* submits.                                                                *)
THEOREM NeverTwoStops ==
  ASSUME Procs = {"main"}, "standing" \notin Failures, "cancel" \notin Failures
  PROVE  Spec => []OneStopPerSymbol
<1>1. Init => OneOrder
  BY DEF Init, OneOrder, OrdersOf, Single, Main, Idle, HasRead
<1>2. Sound /\ OneOrder /\ [Next]_vars => OneOrder'
  BY OneOrderStep
<1>3. OneOrder => OneStopPerSymbol
  <2>. SUFFICES ASSUME OneOrder, NEW s \in Symbols PROVE Cardinality(StopsOf(s)) <= 1
    BY DEF OneStopPerSymbol
  <2>1. CASE StopsOf(s) = {}
    BY <2>1, FS_EmptySet
  <2>2. ASSUME NEW o \in StopsOf(s) PROVE Cardinality(StopsOf(s)) <= 1
    <3>1. StopsOf(s) = {o}
      BY <2>2 DEF OneOrder, Single, StopsOf
    <3>2. Cardinality({o}) = 1
      BY FS_Singleton
    <3>. QED
      BY <3>1, <3>2
  <2>. QED
    BY <2>1, <2>2
<1>. QED
  BY <1>1, <1>2, <1>3, SoundAlways, PTL DEF Spec
-----------------------------------------------------------------------------
(* A cycle has read the newest row of every symbol it has left, or could   *)
(* not and has none; what it is about to write for one whose row it has    *)
(* read is no lower but for the cap.                                       *)
HasPrior == {"standing", "entry", "symbols", "cancel", "submit"}

RowsOf(c, table) ==
    /\ c.pc = "prior" => \A s \in Symbols : c.prior[s] = NoPrior
    /\ c.pc \in HasPrior =>
           \A s \in c.todo : \/ c.prior[s] = NoPrior
                             \/ /\ c.prior[s].stop = table[s].stop
                                /\ c.prior[s].hwm = table[s].hwm
    /\ c.pc \in {"cancel", "submit"} /\ c.prior[c.cur] # NoPrior =>
           /\ c.hwm >= table[c.cur].hwm
           /\ c.target >= table[c.cur].stop \/ c.target = MaxAllowed(c.close[c.cur])

(* What a step writes for one symbol, and for no other, is no lower but    *)
(* for the cap, if the cycle has read its row.                             *)
WritesOne(c, s) ==
    /\ \A x \in Symbols : x # s => rows'[x] = rows[x]
    /\ c.prior[s] # NoPrior =>
           /\ rows'[s].hwm >= rows[s].hwm
           /\ rows'[s].stop >= rows[s].stop \/ rows'[s].stop = MaxAllowed(c.close[s])

LEMMA RatchetStep ==
  ASSUME Sound, RowsOf(Main, rows), MainManages(Main, Main')
  PROVE  /\ RowsOf(Main', rows')
         /\ UNCHANGED rows \/ \E s \in Symbols : WritesOne(Main, s)
<1>. DEFINE c == Main
            d == Main'
<1>0. /\ Typed /\ c \in Cycle /\ RowsOf(c, rows) /\ AboutToSubmit(c)
      /\ rows \in [Symbols -> [stop : Int, hwm : Nat, order : 0..lastId]]
      /\ c.todo \subseteq Symbols /\ c.target \in Int /\ c.hwm \in Nat
      /\ c.prior \in [Symbols -> Prior]
  BY DEF Sound, Typed, Main, Cycle, Names, RowsRead
<1>. HIDE DEF c, d
<1>1. ASSUME d.pc \notin HasPrior \cup {"prior"} PROVE RowsOf(d, rows')
  BY <1>1 DEF RowsOf, HasPrior
<1>2. ASSUME NEW s \in Symbols, c.pc \in HasPrior, d = Done(c, s),
             \A x \in Symbols : x # s => rows'[x] = rows[x]
      PROVE  RowsOf(d, rows')
  <2>1. /\ d.pc \in {"idle", "symbols"}
        /\ d.pc = "symbols" => d.todo = c.todo \ {s} /\ d.prior = c.prior
    BY <1>0, <1>2, DoneType
  <2>. QED
    BY <1>0, <1>2, <2>1 DEF RowsOf, HasPrior
<1>3. ASSUME d = Idle PROVE RowsOf(d, rows')
  BY <1>1, <1>3 DEF Idle, HasPrior
<1>4. ASSUME Reads(c, d), UNCHANGED rows PROVE RowsOf(d, rows')
  <2>1. d.todo = c.todo /\ d.pc \in {"standing", "entry", "symbols"}
    BY <1>0, <1>4, ReadsType
  <2>2. CASE c.pc = "prior"
    <3>1. \/ d.prior = [s \in Symbols |-> [stop |-> rows[s].stop, hwm |-> rows[s].hwm]]
          \/ d.prior = c.prior /\ \A s \in Symbols : c.prior[s] = NoPrior
      BY <1>0, <1>4, <2>2 DEF Reads, Cycle, RowsOf
    <3>. QED
      BY <1>0, <1>4, <2>1, <3>1 DEF RowsOf
  <2>3. CASE c.pc \in {"standing", "entry"}
    <3>1. d.prior = c.prior
      BY <1>0, <1>4, <2>3 DEF Reads, Cycle
    <3>. QED
      BY <1>0, <1>4, <2>1, <2>3, <3>1 DEF RowsOf, HasPrior
  <2>. QED
    BY <1>4, <2>2, <2>3 DEF Reads
<1>5. ASSUME NEW s \in Symbols, c.pc = "symbols", s \in c.todo, c.prior[s] # NoPrior,
             NEW level, Computed(c, s, level)
      PROVE  /\ level \in Prior
             /\ level.hwm >= rows[s].hwm /\ level.stop >= rows[s].stop
             /\ LET target == SnapToBrokerTick(level.stop, c.close[s])
                IN  target # TooClose =>
                        target >= rows[s].stop \/ target = MaxAllowed(c.close[s])
  <2>1. c.prior[s].stop = rows[s].stop /\ c.prior[s].hwm = rows[s].hwm
    BY <1>0, <1>5 DEF RowsOf, HasPrior
  <2>. QED
    BY <1>0, <1>5, <2>1, ComputedLevel
<1>6. ASSUME NEW s \in Symbols, NEW stop, NEW hwm, NEW order,
             rows' = [rows EXCEPT ![s] = [stop |-> stop, hwm |-> hwm, order |-> order]],
             c.prior[s] # NoPrior =>
                 /\ hwm >= rows[s].hwm
                 /\ stop >= rows[s].stop \/ stop = MaxAllowed(c.close[s])
      PROVE  WritesOne(c, s)
  BY <1>0, <1>6 DEF WritesOne
<1>7. ASSUME NEW s \in Symbols, c.pc = "symbols", s \in c.todo, Writes(c, s, d)
      PROVE  WritesOne(c, s)
  <2>1. PICK level : /\ Computed(c, s, level)
                     /\ rows' = [rows EXCEPT ![s] =
                           [stop |-> level.stop, hwm |-> level.hwm, order |-> NoOrder]]
    BY <1>7 DEF Writes
  <2>2. c.prior[s] # NoPrior => level.hwm >= rows[s].hwm /\ level.stop >= rows[s].stop
    BY <1>5, <1>7, <2>1
  <2>. QED
    BY <1>6, <2>1, <2>2
<1>8. ASSUME NEW s \in Symbols, c.pc = "symbols", s \in c.todo, Keeps(c, s, d)
      PROVE  WritesOne(c, s)
  <2>1. PICK level : /\ Computed(c, s, level)
                     /\ SnapToBrokerTick(level.stop, c.close[s]) # TooClose
                     /\ rows' = [rows EXCEPT ![s] =
                           [stop |-> SnapToBrokerTick(level.stop, c.close[s]),
                            hwm |-> level.hwm, order |-> c.standing[s].id]]
    BY <1>8 DEF Keeps
  <2>. DEFINE target == SnapToBrokerTick(level.stop, c.close[s])
              order == c.standing[s].id
  <2>2. c.prior[s] # NoPrior =>
            /\ level.hwm >= rows[s].hwm
            /\ target >= rows[s].stop \/ target = MaxAllowed(c.close[s])
    BY <1>5, <1>8, <2>1
  <2>3. rows' = [rows EXCEPT ![s] = [stop |-> target, hwm |-> level.hwm, order |-> order]]
    BY <2>1
  <2>. HIDE DEF target, order
  <2>. QED
    BY <1>6, <2>2, <2>3
<1>9. ASSUME NEW s \in Symbols, c.pc = "symbols", s \in c.todo, Decides(c, s, d)
      PROVE  RowsOf(d, rows') /\ UNCHANGED rows
  <2>1. PICK level : /\ Computed(c, s, level)
                     /\ SnapToBrokerTick(level.stop, c.close[s]) # TooClose
                     /\ d = [c EXCEPT !.pc = IF c.standing[s] = NoStop THEN "submit" ELSE "cancel",
                               !.cur = s, !.target = SnapToBrokerTick(level.stop, c.close[s]),
                               !.hwm = level.hwm]
    BY <1>9 DEF Decides
  <2>2. c.prior[s] # NoPrior =>
            /\ level.hwm >= rows[s].hwm
            /\ LET target == SnapToBrokerTick(level.stop, c.close[s])
               IN  target >= rows[s].stop \/ target = MaxAllowed(c.close[s])
    BY <1>5, <1>9, <2>1
  <2>3. /\ d.cur = s /\ d.hwm = level.hwm
        /\ d.target = SnapToBrokerTick(level.stop, c.close[s])
    BY <1>0, <2>1 DEF Cycle
  <2>4. /\ d.pc \in {"cancel", "submit"} /\ d.todo = c.todo /\ d.prior = c.prior
        /\ d.close = c.close
    BY <1>0, <1>9, DecidesType
  <2>5. UNCHANGED rows
    BY <1>9 DEF Decides
  <2>. QED
    BY <1>0, <1>9, <2>2, <2>3, <2>4, <2>5 DEF RowsOf, HasPrior
<1>10. ASSUME Cancels(c, d) PROVE RowsOf(d, rows') /\ UNCHANGED rows
  <2>1. /\ c.pc = "cancel" /\ d.pc = "submit" /\ d.cur = c.cur /\ d.target = c.target
        /\ d.hwm = c.hwm /\ d.close = c.close /\ d.todo = c.todo /\ d.prior = c.prior
        /\ UNCHANGED rows
    BY <1>0, <1>10 DEF Cancels, Cycle
  <2>. QED
    BY <1>0, <2>1 DEF RowsOf, HasPrior
<1>11. ASSUME NEW order, c.pc = "submit", rows' = RowFor(c, order)
       PROVE  c.cur \in Symbols /\ WritesOne(c, c.cur)
  <2>1. c.cur \in Symbols
    BY <1>0, <1>11 DEF AboutToSubmit
  <2>2. c.prior[c.cur] # NoPrior =>
            /\ c.hwm >= rows[c.cur].hwm
            /\ c.target >= rows[c.cur].stop \/ c.target = MaxAllowed(c.close[c.cur])
    BY <1>0, <1>11 DEF RowsOf
  <2>. QED
    BY <1>6, <1>11, <2>1, <2>2 DEF RowFor
<1>12. ASSUME Accepts(c, d) \/ Refuses(c, d)
       PROVE  /\ RowsOf(d, rows')
              /\ UNCHANGED rows \/ \E s \in Symbols : WritesOne(c, s)
  <2>1. /\ c.pc = "submit"
        /\ \/ d = Idle /\ UNCHANGED rows
           \/ d = Done(c, c.cur) /\ \E order : rows' = RowFor(c, order)
    BY <1>12 DEF Accepts, Refuses
  <2>2. CASE d = Idle /\ UNCHANGED rows
    BY <1>3, <2>2
  <2>3. CASE d = Done(c, c.cur) /\ \E order : rows' = RowFor(c, order)
    <3>1. c.cur \in Symbols /\ WritesOne(c, c.cur)
      BY <1>11, <2>1, <2>3
    <3>2. RowsOf(d, rows')
      BY <1>2, <2>1, <2>3, <3>1 DEF WritesOne, HasPrior
    <3>. QED
      BY <3>1, <3>2
  <2>. QED
    BY <2>1, <2>2, <2>3
<1>13. ASSUME NEW s \in Symbols, c.pc = "symbols", s \in c.todo,
              Passes(c, s, d) \/ Writes(c, s, d) \/ Keeps(c, s, d)
       PROVE  /\ RowsOf(d, rows')
              /\ UNCHANGED rows \/ WritesOne(c, s)
  <2>1. UNCHANGED rows \/ WritesOne(c, s)
    BY <1>7, <1>8, <1>13 DEF Passes
  <2>2. d = Idle \/ d = Done(c, s)
    BY <1>13 DEF Passes, Writes, Keeps
  <2>. QED
    BY <1>2, <1>3, <1>13, <2>1, <2>2 DEF WritesOne, HasPrior
<1>14. MainManages(c, d)
  BY DEF c, d
<1>15. /\ RowsOf(d, rows')
       /\ UNCHANGED rows \/ \E s \in Symbols : WritesOne(c, s)
  BY <1>3, <1>4, <1>9, <1>10, <1>12, <1>13, <1>14 DEF MainManages
<1>. QED
  BY <1>15 DEF c, d

(* RowRatchets of LiveCycle for the trading process alone, whatever fails  *)
(* and at all prices: trailing_stops.py:118, "High-water mark ratchets up  *)
(* on every recompute - never resets", where the rows could be read.       *)
THEOREM RowsRatchet ==
  ASSUME Procs = {"main"}
  PROVE  Spec => RowRatchets
<1>1. Init => RowsOf(Main, rows)
  BY DEF Init, RowsOf, Main, Idle, HasPrior
<1>2. Sound /\ RowsOf(Main, rows) /\ [Next]_vars =>
          RowsOf(Main, rows)' /\ (UNCHANGED rows \/ \E s \in Symbols : WritesOne(Main, s))
  <2>. SUFFICES ASSUME Sound, RowsOf(Main, rows), [Next]_vars
                PROVE  /\ RowsOf(Main', rows')
                       /\ UNCHANGED rows \/ \E s \in Symbols : WritesOne(Main, s)
    OBVIOUS
  <2>1. CASE Elsewhere
    <3>1. /\ UNCHANGED rows
          /\ \/ Main' = Main
             \/ Main'.pc \notin HasPrior \cup {"prior"}
             \/ Main'.pc = "prior" /\ \A s \in Symbols : Main'.prior[s] = NoPrior
      BY <2>1 DEF Elsewhere, Main, Working, HasPrior
    <3>. QED
      BY <3>1 DEF RowsOf, HasPrior
  <2>2. CASE MainManages(Main, Main')
    BY <2>2, RatchetStep
  <2>. QED
    BY <2>1, <2>2, AloneSteps
<1>3. Sound /\ RowsOf(Main, rows) /\ [Next]_vars =>
          [\A s \in Symbols, p \in Procs :
               LET c == cycle[p]
               IN  rows'[s] # rows[s] /\ cycle'[p] # c /\ c.prior[s] # NoPrior =>
                       /\ rows'[s].hwm >= rows[s].hwm
                       /\ \/ rows'[s].stop >= rows[s].stop
                          \/ rows'[s].stop = MaxAllowed(c.close[s])]_vars
  BY <1>2 DEF WritesOne, Main
<1>. QED
  BY <1>1, <1>2, <1>3, SoundAlways, PTL DEF Spec, RowRatchets
-----------------------------------------------------------------------------
(* The broker never holds orders for more shares than the position has,    *)
(* whatever fails and whoever manages the stops at the same time: a        *)
(* submission that would is refused (SubmitRefused), a sale takes only     *)
(* available shares (RouteTrim, RouteExit) and a fill takes its own.       *)
THEOREM NeverSellsTwice == Spec => []NeverOversold
<1>1. Sound => NeverOversold
  BY DEF Sound
<1>. QED
  BY <1>1, SoundAlways, PTL
-----------------------------------------------------------------------------
(* Prices at which every level is a price that the broker takes.           *)
LevelsStand ==
    \A px \in Prices, vol \in Vols : px >= 2 /\ px > KLooseVol * vol /\ px > KTightVol * vol

LEMMA LevelStands ==
  ASSUME LevelsStand, NEW c \in Cycle, c.close \in Closes, NEW s \in Symbols,
         NEW level, Computed(c, s, level)
  PROVE  SnapToBrokerTick(level.stop, c.close[s]) # TooClose
<1>1. PICK vol \in Vols, edge \in {-1, 0} : level = Level(c, s, vol, edge)
  BY DEF Computed
<1>. DEFINE px == c.close[s]
            k == IF edge >= 0 THEN KLooseVol ELSE KTightVol
            spread == k * vol
            chandelier == HighWaterMark(c.prior[s], c.seen[s].entry, px) - KChandelier * Atr
<1>2. px \in Nat /\ px >= 2 /\ spread \in Nat /\ px > spread
  <2>1. px \in Prices
    BY DEF Closes
  <2>2. px >= 2 /\ px > KLooseVol * vol /\ px > KTightVol * vol
    BY <1>1, <2>1 DEF LevelsStand
  <2>3. vol \in Nat /\ k \in Nat /\ k * vol \in Nat
    BY <1>1
  <2>. QED
    BY <2>1, <2>2, <2>3
<1>3. chandelier \in Int /\ c.prior[s].stop \in Int
  <2>1. c.prior[s] \in Prior /\ c.seen[s].entry \in Nat
    BY DEF Cycle, RowsRead, PositionsRead, Position
  <2>2. KChandelier * Atr \in Nat
    OBVIOUS
  <2>. QED
    BY <1>2, <2>1, <2>2 DEF HighWaterMark, Larger, Prior
<1>4. level.stop = Larger(Larger(chandelier, Larger(0, px - spread)), c.prior[s].stop)
  BY <1>1 DEF Level, ComputeLevel, NewStop
<1>. HIDE DEF px, spread, chandelier
<1>5. level.stop > 0 /\ level.stop \in Int
  BY <1>2, <1>3, <1>4 DEF Larger
<1>6. MaxAllowed(px) > 0 /\ MaxAllowed(px) < px /\ MaxAllowed(px) \in Int
  BY <1>2 DEF MaxAllowed
<1>7. SnapToBrokerTick(level.stop, px) # TooClose
  BY <1>2, <1>5, <1>6 DEF SnapToBrokerTick, Smaller, TooClose
<1>. QED
  BY <1>7 DEF px

(* At most one call of a day fails, or none ever does.                     *)
OneFailure == Failures = {} \/ MaxFaults <= 1

FirstFault == faults = 0 /\ faults' = 1

LEMMA FaultIsFirst ==
  ASSUME OneFailure, Typed, NEW kind, Fault(kind)
  PROVE  FirstFault
BY DEF OneFailure, Typed, Fault, FirstFault

(* What a step of its manage_cycle does then, when no level is without a   *)
(* price: it settles a symbol, or fails and gives up the symbol or all     *)
(* that are left.                                                          *)
Settles(c, s, d) ==
    /\ c.pc = "symbols" /\ s \in c.todo
    /\ \/ d = Done(c, s) /\ (Exempt(c, s) \/ s \notin Canary \/ c.standing[s] # NoStop)
       \/ s \in Canary /\ Decides(c, s, d)

GivesUp(c, d) ==
    /\ FirstFault
    /\ d = Idle \/ \E s \in Symbols : c.pc \in {"symbols", "submit"} /\ d = Done(c, s)

Handles(c, d) ==
    /\ UNCHANGED faults \/ FirstFault
    /\ \/ Reads(c, d) /\ UNCHANGED stops
       \/ (\E s \in Symbols : Settles(c, s, d)) /\ UNCHANGED stops
       \/ GivesUp(c, d) /\ UNCHANGED stops
       \/ Cancels(c, d)
       \/ Accepts(c, d) /\ (d = Done(c, c.cur) \/ FirstFault)
       \/ Refuses(c, d) /\ c.seen[c.cur].qty > Available(c.cur)

LEMMA HandlesStep ==
  ASSUME OneFailure, LevelsStand, Sound, NEW p \in Procs, ManageStep(p),
         cycle[p].pc \in Working => cycle[p].close \in Closes
  PROVE  Handles(cycle[p], cycle'[p])
<1>. DEFINE c == cycle[p]
            d == cycle'[p]
<1>0. /\ Typed /\ cycle \in [Procs -> Cycle] /\ c \in Cycle
      /\ \A kind : Fault(kind) => FirstFault
  BY FaultIsFirst DEF Sound, Typed
<1>1. ASSUME LoadPrior(p) \/ LoadStanding(p) \/ LoadEntry(p)
      PROVE  Handles(c, d)
  <2>1. Reads(c, d) /\ UNCHANGED stops
    BY <1>0, <1>1, ReadsEffect DEF orderVars
  <2>2. UNCHANGED faults \/ FirstFault
    BY <1>0, <1>1 DEF LoadPrior, LoadStanding, LoadEntry, NoFault
  <2>. HIDE DEF c, d
  <2>. QED
    BY <2>1, <2>2 DEF Handles
<1>2. ASSUME NEW s \in Symbols, SkipSymbol(p, s)
      PROVE  \/ Settles(c, s, d) /\ UNCHANGED faults
             \/ GivesUp(c, d)
  <2>1. /\ c.pc = "symbols" /\ s \in c.todo
        /\ (Exempt(c, s) /\ UNCHANGED faults) \/ FirstFault
        /\ cycle' = [cycle EXCEPT ![p] = Done(c, s)]
    BY <1>0, <1>2 DEF SkipSymbol, NoFault
  <2>2. d = Done(c, s)
    BY <1>0, <2>1, Moved
  <2>. HIDE DEF c, d
  <2>. QED
    BY <2>1, <2>2 DEF Settles, GivesUp
<1>3. ASSUME NEW s, NEW stop, NEW hwm, NEW order, Persist(p, s, stop, hwm, order)
      PROVE  \/ d = Done(c, s) /\ UNCHANGED faults
             \/ d = Idle /\ FirstFault
  <2>1. \/ cycle' = [cycle EXCEPT ![p] = Done(c, s)] /\ UNCHANGED faults
        \/ cycle' = [cycle EXCEPT ![p] = Idle] /\ FirstFault
    BY <1>0, <1>3 DEF Persist, NoFault
  <2>. HIDE DEF c
  <2>. QED
    BY <1>0, <2>1, Moved
<1>4. ASSUME NEW s \in Symbols, NEW vol \in Vols, NEW edge \in {-1, 0},
             ShadowSymbol(p, s, vol, edge)
      PROVE  \/ Settles(c, s, d) /\ UNCHANGED faults
             \/ GivesUp(c, d)
  <2>. DEFINE level == Level(c, s, vol, edge)
  <2>1. /\ c.pc = "symbols" /\ s \in c.todo
        /\ s \notin Canary \/ SnapToBrokerTick(level.stop, c.close[s]) = TooClose
        /\ Persist(p, s, level.stop, level.hwm, NoOrder)
    BY <1>4 DEF ShadowSymbol
  <2>2. Computed(c, s, level) /\ c.close \in Closes
    BY <2>1 DEF Computed, Working
  <2>. HIDE DEF level
  <2>3. SnapToBrokerTick(level.stop, c.close[s]) # TooClose
    BY <1>0, <2>2, LevelStands
  <2>4. (d = Done(c, s) /\ UNCHANGED faults) \/ (d = Idle /\ FirstFault)
    BY <1>3, <2>1
  <2>. HIDE DEF c, d
  <2>. QED
    BY <2>1, <2>3, <2>4 DEF Settles, GivesUp
<1>5. ASSUME NEW s \in Symbols, NEW vol \in Vols, NEW edge \in {-1, 0},
             DecideSymbol(p, s, vol, edge)
      PROVE  \/ Settles(c, s, d) /\ UNCHANGED faults
             \/ GivesUp(c, d)
  <2>. DEFINE level == Level(c, s, vol, edge)
              target == SnapToBrokerTick(level.stop, c.close[s])
              next == [c EXCEPT !.pc = IF c.standing[s] = NoStop THEN "submit" ELSE "cancel",
                                !.cur = s, !.target = target, !.hwm = level.hwm]
  <2>1. /\ c.pc = "symbols" /\ s \in c.todo /\ s \in Canary
        /\ ~Exempt(c, s) /\ target # TooClose
        /\ \/ /\ c.standing[s] # NoStop
              /\ Persist(p, s, target, level.hwm, c.standing[s].id)
           \/ cycle' = [cycle EXCEPT ![p] = next] /\ UNCHANGED rows /\ UNCHANGED faults
    BY <1>5 DEF DecideSymbol, NoFault
  <2>2. Computed(c, s, level)
    BY DEF Computed
  <2>3. CASE cycle' = [cycle EXCEPT ![p] = next] /\ UNCHANGED rows /\ UNCHANGED faults
    <3>1. Decides(c, s, next)
      BY <2>1, <2>2, <2>3 DEF Decides
    <3>2. d = next
      BY <1>0, <2>3, Moved
    <3>. HIDE DEF next, c, d
    <3>. QED
      BY <2>1, <2>3, <3>1, <3>2 DEF Settles
  <2>4. CASE c.standing[s] # NoStop /\ Persist(p, s, target, level.hwm, c.standing[s].id)
    <3>1. (d = Done(c, s) /\ UNCHANGED faults) \/ (d = Idle /\ FirstFault)
      BY <1>3, <2>4
    <3>. HIDE DEF c, d
    <3>. QED
      BY <2>1, <2>4, <3>1 DEF Settles, GivesUp
  <2>. QED
    BY <2>1, <2>3, <2>4
<1>6. ASSUME NEW s \in Symbols, AtSymbol(p, s)
      PROVE  Handles(c, d)
  <2>1. UNCHANGED stops
    BY <1>0, <1>6, SymbolEffect DEF orderVars
  <2>2. (Settles(c, s, d) /\ UNCHANGED faults) \/ GivesUp(c, d)
    BY <1>2, <1>4, <1>5, <1>6 DEF AtSymbol
  <2>. HIDE DEF c, d
  <2>. QED
    BY <2>1, <2>2 DEF Handles, GivesUp
<1>7. ASSUME Submits(p) PROVE Handles(c, d)
  <2>0. UNCHANGED faults \/ FirstFault
    BY <1>0, <1>7 DEF Submits, CancelStanding, SubmitStop, SubmitRefused, SubmitReplyLost,
                      Persist, NoFault
  <2>1. CASE CancelStanding(p)
    <3>1. c.pc = "cancel" /\ (Cancels(c, d) \/ Accepts(c, d) \/ Refuses(c, d))
      BY <1>0, <1>7, <2>1, SubmitEffect DEF CancelStanding
    <3>. HIDE DEF c, d
    <3>. QED
      BY <2>0, <3>1 DEF Handles, Accepts, Refuses
  <2>2. CASE SubmitStop(p) \/ SubmitReplyLost(p)
    <3>1. Cancels(c, d) \/ Accepts(c, d) \/ Refuses(c, d)
      BY <1>0, <1>7, SubmitEffect
    <3>2. c.pc = "submit" /\ lastId' = lastId + 1 /\ lastId \in Nat
      BY <1>0, <2>2 DEF SubmitStop, SubmitReplyLost, Typed
    <3>3. d = Done(c, c.cur) \/ FirstFault
      <4>1. CASE SubmitStop(p)
        BY <1>3, <4>1 DEF SubmitStop
      <4>2. CASE SubmitReplyLost(p)
        BY <1>0, <4>2 DEF SubmitReplyLost
      <4>. QED
        BY <2>2, <4>1, <4>2
    <3>4. Accepts(c, d)
      BY <3>1, <3>2 DEF Cancels, Refuses, orderVars
    <3>. HIDE DEF c, d
    <3>. QED
      BY <2>0, <3>3, <3>4 DEF Handles
  <2>3. CASE SubmitRefused(p)
    <3>1. /\ c.pc = "submit" /\ cycle' = [cycle EXCEPT ![p] = Done(c, c.cur)]
          /\ UNCHANGED orderVars
          /\ c.seen[c.cur].qty > Available(c.cur) \/ FirstFault
          /\ rows' = RowFor(c, NoOrder)
      BY <1>0, <2>3 DEF SubmitRefused, RowFor
    <3>2. d = Done(c, c.cur)
      BY <1>0, <3>1, Moved
    <3>3. c.cur \in Symbols
      BY <1>0, <3>1 DEF Typed, AboutToSubmit, Cycle, Names
    <3>. HIDE DEF c, d
    <3>4. Refuses(c, d)
      BY <3>1, <3>2 DEF Refuses
    <3>5. FirstFault => GivesUp(c, d)
      BY <3>1, <3>2, <3>3 DEF GivesUp
    <3>. QED
      BY <2>0, <3>1, <3>4, <3>5 DEF Handles, orderVars
  <2>. QED
    BY <1>7, <2>1, <2>2, <2>3 DEF Submits
<1>8. ASSUME Crash(p) PROVE Handles(c, d)
  <2>1. FirstFault /\ cycle' = [cycle EXCEPT ![p] = Idle] /\ UNCHANGED stops
    BY <1>0, <1>8 DEF Crash, orderVars
  <2>2. d = Idle
    BY <1>0, <2>1, Moved
  <2>. HIDE DEF c, d
  <2>. QED
    BY <2>1, <2>2 DEF Handles, GivesUp
<1>. QED
  BY <1>1, <1>6, <1>7, <1>8 DEF ManageStep, AtSymbol, Submits


(* Every share is under a stop but before the first cycle of the day has   *)
(* seen to it: nothing stands then for the symbol, and the cycle is still  *)
(* to come or has the symbol left with the whole position for sale.  What  *)
(* the day's failure keeps it from, the second cycle is there to do.       *)
Fine(s) == held[s].qty = 0 \/ boughtOn[s] = day \/ Covered(s) = held[s].qty
Bare == {s \in Symbols : StopsOf(s) = {} /\ clock # "1555"}

Coming(c, s) ==
    \/ c.pc = "due"
    \/ c.pc \in Working /\ c.today = day /\ s \in c.todo /\ c.seen[s].qty = held[s].qty

Pending(c, s, failed) ==
    \/ clock = "night"
    \/ clock = "0940" /\ (failed > 0 \/ Coming(c, s))
    \/ clock = "1230" /\ failed > 0 /\ Coming(c, s)

Knows(c, s) == c.today = day /\ c.seen[s].qty = held[s].qty /\ c.standing[s] = NoStop

Guarded == \A s \in Canary : Fine(s) \/ (s \in Bare /\ Pending(Main, s, faults))

Left(c, bare) ==
    /\ c.pc \in Working =>
          /\ c.close \in Closes
          /\ \A s \in c.todo : s \in Canary =>
                c.seen[s].qty <= 0 \/ boughtOn[s] = c.today \/ (s \in bare /\ Knows(c, s))
    /\ c.pc # "cancel"
    /\ c.pc = "submit" => c.cur \in Canary /\ c.cur \in bare /\ Knows(c, c.cur)

(* A failure leaves what is pending to the cycle after it.                 *)
LEMMA FailurePends ==
  ASSUME Typed, UNCHANGED faults \/ FirstFault, NEW c, NEW d, NEW s,
         Pending(c, s, faults), FirstFault \/ (Coming(c, s) => Coming(d, s))
  PROVE  Pending(d, s, faults')
<1>1. faults \in Nat
  BY DEF Typed
<1>. QED
  BY <1>1 DEF Pending, FirstFault

LEMMA CalmGuard ==
  ASSUME Sound, EntryDates, Guarded, Left(Main, Bare), "main" \in Procs, Main' \in Cycle,
         Handles(Main, Main'), UNCHANGED <<day, clock, held, boughtOn>>
  PROVE  Guarded' /\ Left(Main, Bare)'
<1>. DEFINE c == Main
            d == Main'
<1>0. /\ Typed /\ c \in Cycle /\ d \in Cycle /\ day \in Int /\ held \in [Symbols -> Lot]
      /\ c.todo \subseteq Symbols /\ c.seen \in PositionsRead /\ c.bought \in DatesRead
      /\ AboutToSubmit(c) /\ DatesOf(c) /\ Left(c, Bare) /\ lastId \in Nat
      /\ Canary \subseteq Symbols
      /\ UNCHANGED faults \/ FirstFault
      /\ \A s \in Canary : Fine(s) \/ (s \in Bare /\ Pending(c, s, faults))
  BY DEF Sound, Typed, Main, Cycle, Names, Lot, EntryDates, Guarded, Handles
<1>1. Handles(c, d)
  BY DEF c, d
<1>2. ASSUME Left(d, Bare'), \A s \in Canary : Fine(s)' \/ (s \in Bare' /\ Pending(d, s, faults'))
      PROVE  Guarded' /\ Left(Main, Bare)'
  <2>1. Left(Main, Bare)'
    BY <1>2 DEF Left, Knows
  <2>2. Guarded'
    BY <1>2 DEF Guarded, Pending, Coming
  <2>. QED
    BY <2>1, <2>2
<1>. HIDE DEF c, d
<1>3. \A s \in Symbols : ~Fine(s) => held[s].qty > 0 /\ boughtOn[s] # day
  BY <1>0 DEF Fine, Lot
<1>4. ASSUME UNCHANGED stops, Left(d, Bare),
             \A s \in Canary : ~Fine(s) /\ s \in Bare /\ Coming(c, s) => FirstFault \/ Coming(d, s)
      PROVE  Guarded' /\ Left(Main, Bare)'
  <2>1. Bare' = Bare
    BY <1>4 DEF Bare, StopsOf
  <2>2. \A s \in Symbols : Fine(s) => Fine(s)'
    BY <1>4 DEF Fine, Covered, StopsOf
  <2>3. ASSUME NEW s \in Canary PROVE Fine(s)' \/ (s \in Bare' /\ Pending(d, s, faults'))
    <3>1. CASE Fine(s)
      BY <1>0, <2>2, <3>1
    <3>2. CASE ~Fine(s)
      <4>1. s \in Bare /\ Pending(c, s, faults)
        BY <1>0, <3>2
      <4>2. FirstFault \/ (Coming(c, s) => Coming(d, s))
        BY <1>4, <3>2, <4>1
      <4>3. Pending(d, s, faults')
        BY <1>0, <4>1, <4>2, FailurePends
      <4>. QED
        BY <2>1, <4>1, <4>3
    <3>. QED
      BY <3>1, <3>2
  <2>. QED
    BY <1>2, <1>4, <2>1, <2>3
<1>5. ASSUME Reads(c, d), UNCHANGED stops PROVE Guarded' /\ Left(Main, Bare)'
  <2>1. /\ d.pc \in {"standing", "entry", "symbols"} /\ c.pc \in {"prior", "standing", "entry"}
        /\ d.todo = c.todo /\ d.today = c.today /\ d.seen = c.seen /\ d.close = c.close
    BY <1>0, <1>5, ReadsType DEF Reads
  <2>2. ASSUME NEW s \in Symbols, s \in Bare, Knows(c, s) PROVE Knows(d, s)
    <3>1. Newest(s) = NoStop
      BY <2>2 DEF Bare, Newest
    <3>2. d.standing \in {c.standing, [x \in Symbols |-> Newest(x)]}
      BY <1>0, <1>5 DEF Reads, Cycle
    <3>3. d.standing[s] = NoStop
      BY <2>2, <3>1, <3>2 DEF Knows
    <3>. QED
      BY <2>1, <2>2, <3>3 DEF Knows
  <2>3. Left(d, Bare)
    BY <1>0, <2>1, <2>2 DEF Left, Working
  <2>4. \A s \in Canary : Coming(c, s) => Coming(d, s)
    BY <2>1 DEF Coming, Working
  <2>. QED
    BY <1>4, <1>5, <2>3, <2>4
<1>6. ASSUME NEW s \in Symbols, c.pc \in Choosing, d = Done(c, s),
             NEW x \in Symbols, x # s, Coming(c, x)
      PROVE  Coming(d, x)
  <2>1. x \in c.todo /\ c.today = day /\ c.seen[x].qty = held[x].qty
    BY <1>6 DEF Coming, Choosing
  <2>2. d.pc = "symbols"
    BY <1>6, <2>1 DEF Done
  <2>3. d.todo = c.todo \ {s} /\ d.today = c.today /\ d.seen = c.seen
    BY <1>0, <1>6, <2>2, DoneType
  <2>. QED
    BY <1>6, <2>1, <2>2, <2>3 DEF Coming, Working
<1>7. ASSUME NEW s \in Symbols, c.pc \in Choosing, d = Done(c, s), NEW bare,
             Bare \ {s} \subseteq bare
      PROVE  Left(d, bare)
  <2>1. /\ d.pc \in {"idle", "symbols"}
        /\ d.pc = "symbols" =>
              /\ d.todo = c.todo \ {s} /\ d.today = c.today /\ d.close = c.close
              /\ d.seen = c.seen /\ d.standing = c.standing
    BY <1>0, <1>7, DoneType
  <2>. QED
    BY <1>0, <1>7, <2>1 DEF Left, Working, Choosing, Knows
<1>8. ASSUME NEW s \in Symbols, Settles(c, s, d), UNCHANGED stops
      PROVE  Guarded' /\ Left(Main, Bare)'
  <2>0. c.pc = "symbols" /\ s \in c.todo /\ c.seen[s].qty \in Int /\ c.bought = boughtOn
    BY <1>0, <1>8 DEF Settles, PositionsRead, Position, DatesOf, Choosing
  <2>1. CASE d = Done(c, s) /\ (Exempt(c, s) \/ s \notin Canary \/ c.standing[s] # NoStop)
    <3>1. ASSUME s \in Canary, ~Fine(s), Coming(c, s) PROVE FALSE
      <4>1. c.today = day /\ c.seen[s].qty = held[s].qty /\ held[s].qty > 0 /\ boughtOn[s] # day
        BY <1>3, <2>0, <3>1 DEF Coming
      <4>2. ~(c.seen[s].qty <= 0)
        BY <1>0, <4>1 DEF Lot
      <4>3. Knows(c, s)
        BY <1>0, <2>0, <3>1, <4>1, <4>2 DEF Left, Working
      <4>. QED
        BY <2>0, <2>1, <3>1, <4>1, <4>2, <4>3 DEF Knows, Exempt
    <3>2. \A x \in Canary : ~Fine(x) /\ Coming(c, x) => Coming(d, x)
      BY <1>0, <1>6, <2>0, <2>1, <3>1 DEF Choosing
    <3>3. Left(d, Bare)
      BY <1>7, <2>0, <2>1 DEF Choosing
    <3>. QED
      BY <1>4, <1>8, <3>2, <3>3
  <2>2. CASE s \in Canary /\ Decides(c, s, d)
    <3>1. /\ d.pc \in {"cancel", "submit"} /\ d.cur = s
          /\ d.todo = c.todo /\ d.today = c.today /\ d.seen = c.seen /\ d.close = c.close
          /\ d.standing = c.standing
      BY <1>0, <2>0, <2>2, DecidesType
    <3>2. ~(c.seen[s].qty <= 0) /\ boughtOn[s] # c.today
      BY <2>0, <2>2 DEF Decides, Exempt
    <3>3. s \in Bare /\ Knows(c, s)
      BY <1>0, <2>0, <2>2, <3>2 DEF Left, Working
    <3>4. d.pc = "submit"
      BY <1>0, <2>2, <3>3 DEF Decides, Knows, Cycle
    <3>5. Left(d, Bare)
      BY <1>0, <2>0, <2>2, <3>1, <3>3, <3>4 DEF Left, Working, Knows
    <3>6. \A x \in Canary : Coming(c, x) => Coming(d, x)
      BY <2>0, <3>1, <3>4 DEF Coming, Working
    <3>. QED
      BY <1>4, <1>8, <3>5, <3>6
  <2>. QED
    BY <1>8, <2>1, <2>2 DEF Settles
<1>9. c.pc = "submit" => /\ c.cur \in Symbols /\ c.cur \in Canary /\ c.cur \in Bare
                         /\ c.seen[c.cur].qty = held[c.cur].qty
                         /\ held[c.cur].qty > 0
  BY <1>0 DEF Left, Knows, AboutToSubmit
<1>10. Left(Idle, Bare) /\ Left(Idle, Bare')
  BY DEF Left, Idle, Working
<1>11. ASSUME GivesUp(c, d), UNCHANGED stops PROVE Guarded' /\ Left(Main, Bare)'
  <2>1. Left(d, Bare)
    BY <1>7, <1>10, <1>11 DEF GivesUp, Choosing
  <2>. QED
    BY <1>4, <1>11, <2>1 DEF GivesUp
<1>12. ~(Refuses(c, d) /\ c.seen[c.cur].qty > Available(c.cur))
  <2>. SUFFICES ASSUME c.pc = "submit" PROVE ~(c.seen[c.cur].qty > Available(c.cur))
    BY DEF Refuses
  <2>1. Covered(c.cur) = 0
    BY <1>9, SharesEmpty DEF Covered, Bare
  <2>. QED
    BY <1>0, <1>9, <2>1 DEF Available, Lot
<1>13. ASSUME Accepts(c, d), d = Done(c, c.cur) \/ FirstFault
       PROVE  Guarded' /\ Left(Main, Bare)'
  <2>. PICK s \in Symbols : s = c.cur
    BY <1>9, <1>13 DEF Accepts
  <2>. PICK new : new = Submitted(c)
    OBVIOUS
  <2>0. c.pc = "submit" /\ stops' = stops \cup {new} /\ new.sym = s /\ new.qty = held[s].qty
    BY <1>9, <1>13 DEF Accepts, Submitted
  <2>1. /\ s \in Symbols /\ s \in Canary /\ StopsOf(s) = {}
        /\ held[s].qty > 0 /\ held[s].qty \in Nat
    BY <1>0, <1>9, <2>0 DEF Bare, Lot
  <2>2. StopsOf(s)' = {new}
    BY <2>0, <2>1 DEF StopsOf
  <2>3. Shares({new}) = new.qty
    <3>1. Shares({} \cup {new}) = Shares({}) + new.qty
      BY <2>0, <2>1, FS_EmptySet, SharesAdd DEF Quantities
    <3>2. {} \cup {new} = {new}
      OBVIOUS
    <3>3. Shares({new}) = Shares({}) + new.qty
      BY <3>1, <3>2, Zenon
    <3>. QED
      BY <2>0, <2>1, <3>3, SharesEmpty
  <2>4. Fine(s)'
    <3>1. Covered(s)' = new.qty
      BY <2>2, <2>3 DEF Covered
    <3>. QED
      BY <2>0, <3>1 DEF Fine
  <2>5. ASSUME NEW x \in Symbols, x # s
        PROVE  (Fine(x) => Fine(x)') /\ (x \in Bare => x \in Bare')
    <3>1. StopsOf(x)' = StopsOf(x)
      BY <2>0, <2>5 DEF StopsOf
    <3>2. Covered(x)' = Covered(x)
      BY <3>1 DEF Covered
    <3>. QED
      BY <3>1, <3>2 DEF Fine, Bare
  <2>6. d = Idle \/ d = Done(c, s)
    BY <1>13 DEF Accepts
  <2>7. Left(d, Bare')
    <3>1. Bare \ {s} \subseteq Bare'
      BY <2>5 DEF Bare
    <3>. QED
      BY <1>7, <1>10, <2>0, <2>6, <3>1 DEF Choosing
  <2>8. ASSUME NEW x \in Canary, ~Fine(x)' PROVE x \in Bare' /\ Pending(d, x, faults')
    <3>1. x # s /\ x \in Symbols
      BY <1>0, <2>4, <2>8
    <3>2. x \in Bare /\ x \in Bare' /\ Pending(c, x, faults)
      BY <1>0, <2>5, <2>8, <3>1
    <3>3. FirstFault \/ (Coming(c, x) => Coming(d, x))
      BY <1>6, <1>13, <2>0, <3>1 DEF Choosing
    <3>. QED
      BY <1>0, <3>2, <3>3, FailurePends
  <2>. QED
    BY <1>2, <2>7, <2>8
<1>14. ~Cancels(c, d)
  BY <1>0 DEF Left, Cancels
<1>. QED
  BY <1>1, <1>5, <1>8, <1>11, <1>12, <1>13, <1>14 DEF Handles

(* Orders that fill leave what was wholly under orders so.                 *)
LEMMA FillsCover ==
  ASSUME Typed, NeverOversold, NEW filled \in SUBSET stops, stops' = stops \ filled,
         NEW s \in Symbols, UNCHANGED <<day, boughtOn>>,
         \/ held'[s] = Less(held[s], Shares({o \in filled : o.sym = s}))
         \/ held'[s] = held[s] /\ {o \in filled : o.sym = s} = {}
  PROVE  /\ Fine(s) => Fine(s)'
         /\ StopsOf(s) = {} => StopsOf(s)' = {} /\ held'[s].qty = held[s].qty
<1>. DEFINE F == {o \in filled : o.sym = s}
            R == {o \in stops' : o.sym = s}
<1>1. /\ IsFiniteSet(StopsOf(s)) /\ Quantities(StopsOf(s)) /\ Covered(s) \in Nat
      /\ Covered(s) <= held[s].qty /\ held[s] \in Lot
  BY StopSets DEF NeverOversold, Typed, Lot
<1>2. F \in SUBSET StopsOf(s) /\ StopsOf(s) \ F = R /\ R \in SUBSET StopsOf(s)
  BY DEF StopsOf
<1>3. Covered(s) = Shares(F) + Shares(StopsOf(s) \ F)
  BY <1>1, <1>2, SharesSplit DEF Covered
<1>4. Covered(s) = Shares(F) + Shares(R)
  BY <1>2, <1>3, Zenon
<1>5. Shares(F) \in Nat /\ Shares(R) \in Nat
  <2>1. /\ IsFiniteSet(F) /\ Quantities(F) /\ IsFiniteSet(R) /\ Quantities(R)
    BY <1>1, <1>2, FS_Subset DEF Quantities
  <2>. QED
    BY <2>1, SharesType
<1>6. held'[s].qty = held[s].qty - Shares(F)
  <2>1. CASE held'[s] = Less(held[s], Shares(F))
    <3>1. Shares(F) <= held[s].qty
      BY <1>1, <1>4, <1>5 DEF Lot
    <3>2. Less(held[s], Shares(F)).qty = held[s].qty - Shares(F)
      BY <1>1, <1>5, <3>1, LessType
    <3>. QED
      BY <2>1, <3>2
  <2>2. CASE held'[s] = held[s] /\ F = {}
    <3>1. Shares(F) = 0
      BY <2>2, SharesEmpty, Zenon
    <3>2. held[s].qty \in Nat
      BY <1>1 DEF Lot
    <3>. QED
      BY <2>2, <3>1, <3>2
  <2>. QED
    BY <2>1, <2>2
<1>7. Covered(s)' = Shares(R)
  BY DEF Covered, StopsOf
<1>. HIDE DEF F, R
<1>8. held[s].qty \in Nat
  BY <1>1 DEF Lot
<1>9. Fine(s) => Fine(s)'
  <2>1. CASE held[s].qty = 0
    <3>1. held'[s].qty = 0
      BY <1>1, <1>4, <1>5, <1>6, <2>1
    <3>. QED
      BY <3>1 DEF Fine
  <2>2. CASE Covered(s) = held[s].qty
    <3>1. Covered(s)' = held'[s].qty
      BY <1>4, <1>5, <1>6, <1>7, <1>8, <2>2
    <3>. QED
      BY <3>1 DEF Fine
  <2>. QED
    BY <2>1, <2>2 DEF Fine
<1>10. ASSUME StopsOf(s) = {} PROVE StopsOf(s)' = {} /\ held'[s].qty = held[s].qty
  <2>1. R = {} /\ F = {}
    BY <1>2, <1>10
  <2>2. held'[s].qty = held[s].qty
    BY <1>6, <1>8, <2>1, SharesEmpty
  <2>. QED
    BY <2>1, <2>2 DEF R, StopsOf
<1>. QED
  BY <1>9, <1>10

LEMMA FillGuard ==
  ASSUME Sound, Guarded, Left(Main, Bare), NEW o \in stops, StopFill(o)
  PROVE  Guarded' /\ Left(Main, Bare)'
<1>1. o.sym \in Symbols /\ held \in [Symbols -> Lot] /\ o.qty \in Nat
  BY DEF Sound, Typed, Accepted, Lot
<1>2. /\ stops' = stops \ {o} /\ held' = [held EXCEPT ![o.sym] = Less(@, o.qty)]
      /\ UNCHANGED <<day, boughtOn, cycle, clock, faults>>
  BY DEF StopFill
<1>3. Shares({o}) = o.qty
  BY <1>1, SharesOne
<1>4. ASSUME NEW s \in Symbols
      PROVE  /\ Fine(s) => Fine(s)'
             /\ s \in Bare => s \in Bare' /\ held'[s].qty = held[s].qty
  <2>1. \/ held'[s] = Less(held[s], Shares({x \in {o} : x.sym = s}))
        \/ held'[s] = held[s] /\ {x \in {o} : x.sym = s} = {}
    <3>1. CASE s = o.sym
      <4>1. {x \in {o} : x.sym = s} = {o}
        BY <3>1
      <4>2. held'[s] = Less(held[s], o.qty)
        BY <1>1, <1>2, <3>1
      <4>. QED
        BY <1>3, <4>1, <4>2, Zenon
    <3>2. CASE s # o.sym
      BY <1>1, <1>2, <3>2
    <3>. QED
      BY <3>1, <3>2
  <2>2. Typed /\ NeverOversold /\ {o} \in SUBSET stops
    BY DEF Sound
  <2>3. /\ Fine(s) => Fine(s)'
        /\ StopsOf(s) = {} => StopsOf(s)' = {} /\ held'[s].qty = held[s].qty
    BY <1>2, <2>1, <2>2, FillsCover
  <2>. QED
    BY <1>2, <2>3 DEF Bare
<1>5. Main' = Main /\ Main \in Cycle /\ Canary \subseteq Symbols
  BY <1>2 DEF Main, Sound, Typed
<1>6. Guarded'
  BY <1>2, <1>4, <1>5 DEF Guarded, Pending, Coming
<1>7. ASSUME NEW s \in Symbols, s \in Bare, Knows(Main, s) PROVE (s \in Bare /\ Knows(Main, s))'
  BY <1>2, <1>4, <1>5, <1>7 DEF Knows
<1>8. Left(Main, Bare)'
  BY <1>2, <1>5, <1>7 DEF Left, Bare
<1>. QED
  BY <1>6, <1>8

LEMMA TickGuard ==
  ASSUME Sound, Guarded, Tick, "main" \in Procs
  PROVE  Guarded' /\ Left(Main, Bare)'
<1>1. /\ UNCHANGED <<day, boughtOn, faults>>
      /\ Main.pc = "idle"
      /\ \/ clock = "night" /\ clock' = "0940"
         \/ clock = "0940" /\ clock' = "1230"
         \/ clock = "1230" /\ clock' = "1555"
  BY DEF Tick, Quiet, Main, Schedule
<1>2. Main'.pc = "due"
  BY DEF Main, Tick, Sound, Typed, Cycle
<1>3. PICK px \in Closes :
          LET filled == {o \in stops : o.price >= px[o.sym]}
              sold(s) == Shares({o \in filled : o.sym = s})
          IN  /\ close' = px
              /\ stops' = stops \ filled
              /\ held' = [s \in Symbols |-> Less(held[s], sold(s))]
  BY DEF Tick, MarketMoves
<1>4. ASSUME NEW s \in Symbols
      PROVE  /\ Fine(s) => Fine(s)'
             /\ StopsOf(s) = {} => StopsOf(s)' = {}
  <2>. DEFINE filled == {o \in stops : o.price >= px[o.sym]}
  <2>1. Typed /\ NeverOversold /\ filled \in SUBSET stops /\ stops' = stops \ filled
    BY <1>3 DEF Sound
  <2>2. held'[s] = Less(held[s], Shares({o \in filled : o.sym = s}))
    BY <1>3
  <2>. HIDE DEF filled
  <2>. QED
    BY <1>1, <2>1, <2>2, FillsCover
<1>5. ASSUME NEW s \in Canary, ~Fine(s)'
      PROVE  s \in Bare' /\ (clock' = "0940" \/ (clock' = "1230" /\ faults > 0))
  <2>1. s \in Symbols /\ s \in Bare /\ (clock = "night" \/ (clock = "0940" /\ faults > 0))
    BY <1>1, <1>4, <1>5 DEF Guarded, Pending, Coming, Working
  <2>. QED
    BY <1>1, <1>4, <2>1 DEF Bare
<1>6. Guarded'
  BY <1>1, <1>2, <1>5 DEF Guarded, Pending, Coming
<1>7. Left(Main, Bare)'
  BY <1>2 DEF Left, Working
<1>. QED
  BY <1>6, <1>7

LEMMA CloseGuard ==
  ASSUME Sound, Guarded, Left(Main, Bare), CloseOfDay
  PROVE  Guarded' /\ Left(Main, Bare)'
<1>1. /\ clock = "1555" /\ clock' = "night" /\ stops' = {} /\ UNCHANGED <<cycle, boughtOn>>
  BY DEF CloseOfDay
<1>2. Main' = Main /\ Bare = {} /\ Bare' = Symbols /\ Canary \subseteq Symbols
  BY <1>1 DEF Main, Bare, StopsOf
<1>3. Guarded'
  BY <1>1, <1>2 DEF Guarded, Pending
<1>4. Left(Main, Bare)'
  BY <1>1, <1>2 DEF Left
<1>. QED
  BY <1>3, <1>4

(* A cycle that starts takes every position of the moment.                 *)
LEMMA StartGuard ==
  ASSUME Sound, Guarded, NEW mode \in Modes, GetPositions("main", mode),
         "main" \in Procs, Main.pc # "due" \/ clock # "1555",
         UNCHANGED <<envVars, orderVars, liveVars>> /\ UNCHANGED faults
  PROVE  Guarded' /\ Left(Main, Bare)'
<1>. DEFINE d == Main'
            seen == [s \in Symbols |-> [qty |-> Available(s), entry |-> held[s].entry]]
            todo == {s \in Symbols : held[s].qty > 0}
            b == [Idle EXCEPT !.pc = "prior", !.mode = mode, !.today = day, !.close = close,
                              !.todo = todo, !.seen = seen]
<1>0. Typed /\ cycle \in [Procs -> Cycle] /\ held \in [Symbols -> Lot] /\ close \in Closes
  BY DEF Sound, Typed, Lot
<1>1. /\ UNCHANGED <<stops, day, boughtOn, clock, held, faults>>
      /\ \A s \in Symbols : (Fine(s) => Fine(s)') /\ Bare' = Bare
  BY DEF envVars, orderVars, liveVars, Fine, Covered, Bare, StopsOf
<1>2. \/ (\A s \in Symbols : held[s].qty = 0) /\ d = Idle
      \/ d = b
  BY <1>0 DEF GetPositions, Main
<1>3. /\ b.pc = "prior" /\ b.today = day /\ b.close = close /\ b.todo = todo /\ b.seen = seen
      /\ b.standing = Idle.standing
  BY DEF Idle
<1>4. ASSUME NEW s \in Symbols
      PROVE  /\ b.standing[s] = NoStop
             /\ StopsOf(s) = {} => seen[s].qty = held[s].qty
             /\ Covered(s) = held[s].qty => seen[s].qty <= 0
  <2>1. StopsOf(s) = {} => Covered(s) = 0
    BY SharesEmpty DEF Covered
  <2>2. held[s].qty \in Nat
    BY <1>0 DEF Lot
  <2>3. seen[s].qty = held[s].qty - Covered(s)
    BY DEF Available
  <2>4. b.standing[s] = NoStop
    BY <1>3 DEF Idle
  <2>. HIDE DEF seen
  <2>. QED
    BY <2>1, <2>2, <2>3, <2>4
<1>5. \A s \in Canary : s \in Symbols /\ (Fine(s) \/ (s \in Bare /\ Pending(Main, s, faults)))
  BY DEF Guarded
<1>6. \A s \in Bare : StopsOf(s) = {}
  BY DEF Bare
<1>7. \A s \in todo : held[s].qty > 0 /\ held[s].qty \in Nat
  BY <1>0 DEF Lot
<1>8. \A s \in Symbols : ~Fine(s) => s \in todo
  BY <1>0 DEF Fine, Lot
<1>. HIDE DEF b, seen, d
<1>9. Left(d, Bare)
  <2>1. ASSUME NEW s \in todo, s \in Canary
        PROVE  b.seen[s].qty <= 0 \/ boughtOn[s] = b.today \/ (s \in Bare /\ Knows(b, s))
    <3>1. CASE s \in Bare
      BY <1>3, <1>4, <1>5, <1>6, <2>1, <3>1 DEF Knows
    <3>2. CASE Fine(s)
      BY <1>3, <1>4, <1>5, <1>7, <2>1, <3>2 DEF Fine
    <3>. QED
      BY <1>5, <2>1, <3>1, <3>2
  <2>2. Left(b, Bare)
    BY <1>0, <1>3, <2>1 DEF Left
  <2>3. Left(Idle, Bare)
    BY DEF Left, Idle, Working
  <2>. QED
    BY <1>2, <2>2, <2>3
<1>10. \A s \in Canary : Fine(s) \/ (s \in Bare /\ Pending(d, s, faults))
  <2>1. CASE d = b
    <3>1. ASSUME NEW s \in Canary, ~Fine(s) PROVE Coming(d, s)
      BY <1>3, <1>4, <1>5, <1>6, <1>8, <2>1, <3>1 DEF Coming, Working
    <3>. QED
      BY <1>5, <3>1 DEF Pending
  <2>2. CASE \A s \in Symbols : held[s].qty = 0
    BY <1>5, <2>2 DEF Fine
  <2>. QED
    BY <1>2, <2>1, <2>2
<1>11. Left(Main, Bare)'
  BY <1>1, <1>9 DEF Left, Knows, d
<1>12. Guarded'
  BY <1>1, <1>5, <1>10 DEF Guarded, Pending, Coming, d
<1>. QED
  BY <1>11, <1>12

(* Routing finds every older share under an order: there is none to trim,  *)
(* and what it closes is gone.                                             *)
LEMMA RouteFine ==
  ASSUME Sound, NEW s \in Symbols, RouteOrder(s), "main" \in Procs
  PROVE  /\ Main'.pc \in {"routed", "routing"}
         /\ \A x \in Symbols : Fine(x) => Fine(x)'
<1>0. Typed /\ Main \in Cycle /\ cycle \in [Procs -> Cycle] /\ held \in [Symbols -> Lot] /\ day \in Int
  BY DEF Sound, Typed, Lot, Main
<1>1. /\ Main.pc = "routing" /\ UNCHANGED <<day, clock, stops>>
      /\ \A x \in Symbols : x # s => held'[x] = held[x]
  BY RouteEffect DEF orderVars
<1>2. Main'.pc \in {"routed", "routing"}
  <2>. DEFINE y == IF Main.todo = {s} THEN "routed" ELSE "routing"
              t == Main.todo \ {s}
              d == [Main EXCEPT !.pc = y, !.todo = t]
  <2>1. cycle' = [cycle EXCEPT !["main"] = d]
    BY <1>0 DEF RouteOrder, Routed, Main
  <2>2. d.pc \in {"routed", "routing"}
    BY <1>0 DEF Cycle
  <2>. HIDE DEF d
  <2>. QED
    BY <1>0, <2>1, <2>2 DEF Main
<1>3. \A x \in Symbols : Covered(x)' = Covered(x)
  BY <1>1 DEF StopsOf, Covered
<1>4. ASSUME NEW x \in Symbols, x # s \/ UNCHANGED held, boughtOn'[x] = boughtOn[x], Fine(x)
      PROVE  Fine(x)'
  <2>1. held'[x] = held[x]
    BY <1>1, <1>4
  <2>. QED
    BY <1>1, <1>3, <1>4, <2>1 DEF Fine
<1>5. ASSUME NEW x \in Symbols, Fine(x) PROVE Fine(x)'
  <2>1. CASE RouteNothing(s)
    BY <1>4, <1>5, <2>1 DEF RouteNothing, envVars
  <2>2. CASE RouteBuy(s)
    <3>1. boughtOn' = [boughtOn EXCEPT ![s] = day] /\ boughtOn \in [Symbols -> Int]
      BY <1>0, <2>2 DEF RouteBuy, Typed
    <3>2. CASE x = s
      BY <1>1, <3>1, <3>2 DEF Fine
    <3>3. CASE x # s
      BY <1>4, <1>5, <3>1, <3>3
    <3>. QED
      BY <3>2, <3>3
  <2>3. CASE RouteTrim(s)
    <3>1. UNCHANGED <<day, boughtOn>>
      BY <2>3 DEF RouteTrim
    <3>2. CASE x = s /\ boughtOn[s] # day
      <4>1. PICK n \in 1..MaxQty : n <= Available(s)
        BY <2>3 DEF RouteTrim
      <4>2. Covered(s) \in Nat /\ Covered(s) <= held[s].qty /\ held[s].qty \in Nat
        BY <1>0, StopSets DEF Sound, NeverOversold, Lot
      <4>. QED
        BY <1>5, <3>2, <4>1, <4>2 DEF Fine, Available
    <3>3. CASE x = s /\ boughtOn[s] = day
      BY <3>1, <3>3 DEF Fine
    <3>4. CASE x # s
      BY <1>4, <1>5, <3>1, <3>4
    <3>. QED
      BY <3>2, <3>3, <3>4
  <2>4. CASE RouteExit(s)
    <3>1. UNCHANGED boughtOn
      BY <2>4 DEF RouteExit
    <3>2. CASE held' = [held EXCEPT ![s] = Less(@, @.qty)]
      <4>1. held'[s].qty = 0
        BY <1>0, <3>2 DEF Less
      <4>2. Fine(s)'
        BY <4>1 DEF Fine
      <4>. QED
        BY <1>4, <1>5, <3>1, <4>2
    <3>3. CASE UNCHANGED held
      BY <1>4, <1>5, <3>1, <3>3
    <3>. QED
      BY <2>4, <3>2, <3>3 DEF RouteExit
  <2>. QED
    BY <2>1, <2>2, <2>3, <2>4 DEF RouteOrder
<1>. QED
  BY <1>2, <1>5

LEMMA RouteGuard ==
  ASSUME "record" \notin Failures,
         Sound, Guarded, NEW s \in Symbols, RouteOrder(s), "main" \in Procs
  PROVE  Guarded' /\ Left(Main, Bare)'
<1>1. Main.pc = "routing" /\ UNCHANGED <<day, clock, stops>>
  BY RouteEffect DEF orderVars
<1>2. UNCHANGED faults
  BY DEF RouteOrder, RouteNothing, RouteBuy, RouteTrim, RouteExit, NoFault, Fault
<1>3. Main'.pc \in {"routed", "routing"}
  BY RouteFine
<1>4. Left(Main, Bare)'
  BY <1>3 DEF Left, Working
<1>5. Bare' = Bare
  BY <1>1 DEF Bare, StopsOf
<1>6. Canary \subseteq Symbols
  BY TrailingStopsAssumption
<1>7. \A x \in Symbols : Fine(x) => Fine(x)'
  BY RouteFine
<1>8. ASSUME NEW x \in Canary, ~Fine(x) PROVE x \in Bare' /\ Pending(Main, x, faults)'
  BY <1>1, <1>2, <1>3, <1>5, <1>8 DEF Guarded, Pending, Coming, Working
<1>9. Guarded'
  BY <1>6, <1>7, <1>8 DEF Guarded
<1>. QED
  BY <1>4, <1>9

LEMMA LiveGuard ==
  ASSUME Sound, Guarded, LiveCycle, "main" \in Procs
  PROVE  Guarded' /\ Left(Main, Bare)'
<1>1. clock = "1555" /\ UNCHANGED <<envVars, orderVars, clock, boughtOn>> /\ Bare = {}
  BY DEF LiveCycle, Bare
<1>2. \A s \in Canary : Fine(s)'
  BY <1>1 DEF Guarded, Fine, Covered, StopsOf, envVars, orderVars
<1>3. Main'.pc = "routing"
  <2>. DEFINE d == [Idle EXCEPT !.pc = "routing", !.today = day, !.todo = Symbols,
                       !.seen = [x \in Symbols |->
                           [qty |-> Available(x), entry |-> held[x].entry]]]
  <2>1. cycle' = [cycle EXCEPT !["main"] = d] /\ d.pc = "routing"
    BY DEF LiveCycle, Idle
  <2>. HIDE DEF d
  <2>. QED
    BY <2>1 DEF Main, Sound, Typed
<1>. QED
  BY <1>2, <1>3 DEF Guarded, Left, Working

(* A cycle that is missed leaves it to the next, or finds nothing to do.   *)
LEMMA FailGuard ==
  ASSUME OneFailure, Sound, Guarded, CycleFails, "main" \in Procs
  PROVE  Guarded' /\ Left(Main, Bare)'
<1>0. Typed /\ cycle \in [Procs -> Cycle]
  BY DEF Sound, Typed
<1>1. FirstFault /\ UNCHANGED <<envVars, orderVars, liveVars>> /\ Main' = Idle
  BY <1>0, FaultIsFirst DEF CycleFails, Main
<1>2. UNCHANGED <<stops, day, boughtOn, clock, held>>
  BY <1>1 DEF envVars, orderVars, liveVars
<1>3. Left(Main, Bare)'
  BY <1>1 DEF Left, Idle, Working
<1>4. ASSUME NEW s \in Canary PROVE Fine(s)' \/ (s \in Bare' /\ Pending(Main, s, faults)')
  <2>1. CASE Fine(s)
    BY <1>2, <2>1 DEF Fine, Covered, StopsOf
  <2>2. CASE s \in Bare /\ Pending(Main, s, faults)
    <3>1. s \in Bare'
      BY <1>2, <2>2 DEF Bare, StopsOf
    <3>2. Pending(Main', s, faults')
      BY <1>0, <1>1, <2>2, FailurePends
    <3>3. Pending(Main, s, faults)'
      BY <1>2, <3>2 DEF Pending, Coming
    <3>. QED
      BY <3>1, <3>3
  <2>. QED
    BY <2>1, <2>2 DEF Guarded
<1>. QED
  BY <1>3, <1>4 DEF Guarded

LEMMA GuardInit ==
  ASSUME Init
  PROVE  EntryDates /\ Guarded /\ Left(Main, Bare)
<1>1. EntryDates
  BY DEF Init, EntryDates, DatesOf, Main, Idle, Working, Choosing
<1>2. Guarded
  BY DEF Init, Guarded, Fine
<1>3. Left(Main, Bare)
  BY DEF Init, Left, Main, Idle, Working
<1>. QED
  BY <1>1, <1>2, <1>3

LEMMA GuardStep ==
  ASSUME Procs = {"main"}, OneFailure, "record" \notin Failures, LevelsStand,
         Sound, EntryDates, Guarded, Left(Main, Bare), [Next]_vars
  PROVE  Guarded' /\ Left(Main, Bare)'
<1>0. "main" \in Procs
  OBVIOUS
<1>1. CASE Manage
  <2>1. ManageStep("main") /\ UNCHANGED liveVars
    BY <1>1 DEF Manage
  <2>2. cycle["main"].pc \in Working => cycle["main"].close \in Closes
    BY DEF Left, Main
  <2>3. Handles(Main, Main')
    BY <1>0, <2>1, <2>2, HandlesStep DEF Main
  <2>4. UNCHANGED <<day, clock, held, boughtOn>>
    BY <1>0, <2>1, StepType DEF Sound, envVars, liveVars
  <2>5. Main' \in Cycle
    BY <1>0, SoundNext DEF Sound, Typed, Main
  <2>. QED
    BY <1>0, <2>3, <2>4, <2>5, CalmGuard
<1>2. CASE UNCHANGED vars
  BY <1>2 DEF vars, envVars, orderVars, liveVars, Guarded, Left, Fine, Covered, Bare, StopsOf,
              Pending, Coming, Knows, Main
<1>3. CASE PhantomCycle \/ ManageFresh \/ ModelUpdate \/ RunTool
  <2>1. /\ \E mode \in Modes : GetPositions("main", mode)
        /\ Main.pc # "due" \/ clock # "1555"
        /\ UNCHANGED <<envVars, orderVars, liveVars>> /\ UNCHANGED faults
    BY <1>3 DEF PhantomCycle, ManageFresh, ModelUpdate, RunTool, Modes, Busy
  <2>. QED
    BY <1>0, <2>1, StartGuard
<1>. QED
  BY <1>0, <1>1, <1>2, <1>3, FillGuard, TickGuard, CloseGuard, RouteGuard, LiveGuard, FailGuard
     DEF Next

(* What Guarded says of a moment when no cycle is at work.                 *)
LEMMA GuardedAtRest ==
  ASSUME "main" \in Procs, Sound, Guarded, Quiet, NEW s \in Symbols, Uncovered(s)
  PROVE  clock = "night" \/ (clock = "0940" /\ faults > 0)
<1>1. s \in Canary /\ ~Fine(s)
  <2>1. /\ s \in Canary /\ held[s].qty > 0 /\ boughtOn[s] # day
        /\ Covered(s) < held[s].qty /\ Covered(s) \in Nat /\ held[s].qty \in Nat
    BY StopSets DEF Uncovered, Sound, Typed
  <2>. QED
    BY <2>1 DEF Fine
<1>2. Main.pc = "idle"
  BY DEF Quiet, Main
<1>. QED
  BY <1>1, <1>2 DEF Guarded, Pending, Coming, Working

(* RepairedByLive of LiveCycle for a trading process that runs alone, when *)
(* one call of a day may fail, of any kind but the two that hide a         *)
(* purchase from the exemption of its day: it never cancels, because       *)
(* shares under a stop are not available and the symbol is passed over     *)
(* (manage_cycle's test of qty_available); and what the failure leaves     *)
(* undone at 09:40 is done at 12:30, with the whole position for sale.     *)
THEOREM AlwaysRepaired ==
  ASSUME Procs = {"main"}, MaxFaults <= 1, "entry" \notin Failures, "record" \notin Failures,
         LevelsStand
  PROVE  Spec => []RepairedByLive
<1>1. Sound /\ EntryDates /\ [Next]_vars => EntryDates'
  BY EntryDatesStep
<1>2. Sound /\ EntryDates /\ Guarded /\ Left(Main, Bare) /\ [Next]_vars =>
          Guarded' /\ Left(Main, Bare)'
  BY GuardStep DEF OneFailure
<1>3. Sound /\ Guarded => RepairedByLive
  BY GuardedAtRest DEF RepairedByLive
<1>4. Init => EntryDates /\ Guarded /\ Left(Main, Bare)
  BY GuardInit
<1>. QED
  BY <1>1, <1>2, <1>3, <1>4, SoundAlways, PTL DEF Spec

(* Nothing fails where no kind of failure is given.                        *)
Unfailed == faults = 0

LEMMA UnfailedStep ==
  ASSUME Failures = {}, Unfailed, [Next]_vars
  PROVE  Unfailed'
<1>0. \A kind : ~Fault(kind)
  BY DEF Fault
<1>1. ASSUME NEW p \in Procs, ManageStep(p) PROVE UNCHANGED faults
  <2>1. ASSUME NEW s, NEW stop, NEW hwm, NEW order, Persist(p, s, stop, hwm, order)
        PROVE  UNCHANGED faults
    BY <1>0, <2>1 DEF Persist, NoFault
  <2>2. ASSUME NEW s \in Symbols, SkipSymbol(p, s) PROVE UNCHANGED faults
    BY <1>0, <2>2 DEF SkipSymbol, NoFault
  <2>3. ASSUME NEW s \in Symbols, NEW vol \in Vols, NEW edge \in {-1, 0},
               ShadowSymbol(p, s, vol, edge) \/ DecideSymbol(p, s, vol, edge)
        PROVE  UNCHANGED faults
    BY <2>1, <2>3 DEF ShadowSymbol, DecideSymbol, NoFault
  <2>4. CASE SubmitStop(p)
    BY <2>1, <2>4 DEF SubmitStop
  <2>5. CASE LoadPrior(p) \/ LoadStanding(p) \/ LoadEntry(p)
    BY <1>0, <2>5 DEF LoadPrior, LoadStanding, LoadEntry, NoFault
  <2>6. CASE CancelStanding(p) \/ SubmitRefused(p) \/ SubmitReplyLost(p) \/ Crash(p)
    BY <1>0, <2>6 DEF CancelStanding, SubmitRefused, SubmitReplyLost, Crash, NoFault
  <2>. QED
    BY <1>1, <2>2, <2>3, <2>4, <2>5, <2>6 DEF ManageStep
<1>2. ASSUME NEW s \in Symbols, RouteOrder(s) PROVE UNCHANGED faults
  BY <1>0, <1>2 DEF RouteOrder, RouteNothing, RouteBuy, RouteTrim, RouteExit, NoFault
<1>3. UNCHANGED faults \/ faults' = 0
  BY <1>0, <1>1, <1>2 DEF Next, Tick, CloseOfDay, StopFill, PhantomCycle, LiveCycle, CycleFails,
                          ManageFresh, ModelUpdate, RunTool, Manage, vars
<1>. QED
  BY <1>3 DEF Unfailed
-----------------------------------------------------------------------------
(* Whatever process is at work on a symbol no stop stands for will cover   *)
(* it: it has the whole position for sale, and it has not read of a stop   *)
(* to keep.                                                                *)
Attends(c, s) ==
    /\ c.pc \in Working /\ c.today = day /\ s \in c.todo
    /\ c.seen[s].qty = held[s].qty
    /\ \/ c.pc \in {"prior", "standing"}
       \/ c.standing[s] = NoStop
       \/ c.pc \in {"cancel", "submit"} /\ c.cur = s

Awaited(s) == \/ clock = "night"
              \/ clock = "0940" /\ (Main.pc = "due" \/ \E p \in Procs : Attends(cycle[p], s))

Watched == \A s \in Canary : Fine(s) \/ (StopsOf(s) = {} /\ Awaited(s))

(* What a process read of a position before the first cycle of the day was *)
(* over is still what is held, unless its stop has filled.                 *)
UpToDate(c, s) ==
    /\ c.today = day /\ clock \in {"night", "0940"}
    /\ held[s].qty = 0 \/ c.seen[s].qty = held[s].qty

(* A process only acts on such a position: one that it read later has no   *)
(* shares for sale, or was bought that day.                                *)
Careful(c) ==
    /\ c.pc \in Working =>
          /\ c.close \in Closes
          /\ clock # "night" => c.today = day
          /\ \A s \in Canary : s \in c.todo =>
                c.seen[s].qty <= 0 \/ boughtOn[s] = c.today \/ UpToDate(c, s)
    /\ c.pc \in Choosing =>
          \A s \in Canary : s \in c.todo /\ c.seen[s].qty > 0 =>
                (c.bought[s] = c.today <=> boughtOn[s] = c.today)
    /\ c.pc \in {"cancel", "submit"} => c.cur \in Canary /\ UpToDate(c, c.cur)

(* Orders are only routed at 15:55.                                        *)
RoutedLate ==
    /\ \A s \in Symbols : boughtOn[s] = day => clock = "1555"
    /\ Main.pc \in {"routing", "routed"} => clock = "1555"

(* The order a process cancels is one of the symbol it cancels it for.     *)
OwnOrders == \A p \in Procs, s \in Symbols : \A o \in stops :
                 o.id = cycle[p].standing[s].id => o.sym = s

Beside == /\ lastBuy = boughtOn /\ RoutedLate
          /\ Single /\ UniqueIds /\ OwnOrders
          /\ Watched /\ \A p \in Procs : Careful(cycle[p])

(* Where a symbol has one stop at most, its stop is all that covers it.    *)
LEMMA CoverOfOne ==
  ASSUME Typed, Single, NEW s \in Symbols
  PROVE  /\ StopsOf(s) = {} => Covered(s) = 0
         /\ \A o \in StopsOf(s) : /\ StopsOf(s) = {o} /\ Covered(s) = o.qty
                                  /\ o.qty \in Nat /\ o.qty > 0
<1>1. StopsOf(s) = {} => Covered(s) = 0
  BY SharesEmpty DEF Covered
<1>2. ASSUME NEW o \in StopsOf(s)
      PROVE  /\ StopsOf(s) = {o} /\ Covered(s) = o.qty /\ o.qty \in Nat /\ o.qty > 0
  <2>1. StopsOf(s) = {o}
    BY <1>2 DEF Single, StopsOf
  <2>2. o.qty \in Nat /\ o.qty > 0
    BY <1>2 DEF StopsOf, Typed, Accepted
  <2>3. Covered(s) = Shares({o})
    BY <2>1, Zenon DEF Covered
  <2>. QED
    BY <2>1, <2>2, <2>3, SharesOne
<1>. QED
  BY <1>1, <1>2

(* An order that a process cancels belongs to the symbol it was read for.  *)
LEMMA OwnStep ==
  ASSUME Sound, [Next]_vars, UniqueIds, OwnOrders
  PROVE  UniqueIds' /\ OwnOrders'
<1>0. /\ Typed /\ lastId \in Nat
      /\ \A o \in stops : o.id \in 1..lastId
      /\ \A p \in Procs, s \in Symbols : cycle[p].standing[s].id \in 0..lastId
  BY DEF Sound, Typed, Accepted, KnownIds, Cycle, StopsRead, AnyStop
<1>1. ASSUME NEW p \in Procs, NEW s \in Symbols, NEW o \in stops,
             o.id = cycle'[p].standing[s].id
      PROVE  o.sym = s
  <2>1. CASE cycle'[p].standing[s] = cycle[p].standing[s]
    BY <1>1, <2>1 DEF OwnOrders
  <2>2. CASE cycle'[p].standing[s] = NoStop
    BY <1>0, <1>1, <2>2 DEF NoStop, NoOrder
  <2>3. CASE cycle'[p].standing[s] = Newest(s) /\ Newest(s) # NoStop
    <3>1. Newest(s) \in stops /\ Newest(s).sym = s
      BY <1>0, <2>3, NewestOrder DEF StopsOf
    <3>. QED
      BY <1>1, <2>3, <3>1 DEF UniqueIds
  <2>. QED
    BY <2>1, <2>2, <2>3, StandingChange
<1>2. \A p \in Procs, s \in Symbols : cycle'[p].standing[s].id \in 0..lastId
  <2>. SUFFICES ASSUME NEW p \in Procs, NEW s \in Symbols
                PROVE  cycle'[p].standing[s].id \in 0..lastId
    OBVIOUS
  <2>1. NoStop.id \in 0..lastId
    BY <1>0 DEF NoStop, NoOrder
  <2>2. Newest(s).id \in 0..lastId
    BY <1>0, <2>1, NewestOrder, StopSets
  <2>. QED
    BY <1>0, <2>1, <2>2, StandingChange
<1>3. CASE stops' \subseteq stops
  BY <1>1, <1>3 DEF UniqueIds, OwnOrders
<1>4. ASSUME NEW p \in Procs, Accepts(cycle[p], cycle'[p])
      PROVE  UniqueIds' /\ OwnOrders'
  <2>. DEFINE new == Submitted(cycle[p])
  <2>1. stops' = stops \cup {new} /\ new.id = lastId + 1
    BY <1>4 DEF Accepts, Submitted
  <2>. HIDE DEF new
  <2>2. UniqueIds'
    BY <1>0, <2>1 DEF UniqueIds
  <2>3. OwnOrders'
    BY <1>0, <1>1, <1>2, <2>1 DEF OwnOrders
  <2>. QED
    BY <2>2, <2>3
<1>. QED
  BY <1>3, <1>4, StopsChange

(* Fills take a position whole, so what a process has read of it stays     *)
(* true of it, and nothing falls behind.                                   *)
LEMMA BesideFill ==
  ASSUME Sound, Beside, NEW o \in stops, StopFill(o)
  PROVE  Single' /\ Watched' /\ \A p \in Procs : Careful(cycle[p])'
<1>0. /\ Typed /\ NeverOversold /\ o.sym \in Symbols /\ held \in [Symbols -> Lot]
      /\ o \in StopsOf(o.sym) /\ Canary \subseteq Symbols
  BY DEF Sound, Typed, Accepted, Lot, StopsOf
<1>1. /\ stops' = stops \ {o} /\ held' = [held EXCEPT ![o.sym] = Less(@, o.qty)]
      /\ UNCHANGED <<day, boughtOn, cycle, clock>> /\ Main' = Main
  BY DEF StopFill, Main
<1>2. StopsOf(o.sym) = {o} /\ Covered(o.sym) = o.qty
  BY <1>0, CoverOfOne DEF Beside
<1>3. StopsOf(o.sym)' = {} /\ \A s \in Symbols : s # o.sym => StopsOf(s)' = StopsOf(s)
  BY <1>1, <1>2 DEF StopsOf
<1>4. ASSUME o.sym \in Canary, boughtOn[o.sym] # day PROVE held'[o.sym].qty = 0
  <2>1. Fine(o.sym)
    BY <1>0, <1>2, <1>4 DEF Beside, Watched
  <2>2. Covered(o.sym) = held[o.sym].qty
    <3>1. o.qty \in Nat /\ o.qty > 0 /\ Covered(o.sym) <= held[o.sym].qty
      BY <1>0, CoverOfOne DEF Beside, NeverOversold
    <3>. QED
      BY <1>2, <1>4, <2>1, <3>1 DEF Fine
  <2>3. o.qty = held[o.sym].qty
    BY <1>2, <2>2
  <2>. QED
    BY <1>0, <1>1, <2>3 DEF Less
<1>5. \A s \in Symbols : s # o.sym => held'[s] = held[s] /\ (Fine(s) => Fine(s)')
  BY <1>0, <1>1, <1>3 DEF Fine, Covered
<1>6. ASSUME NEW s \in Canary, clock # "1555", NEW c, UpToDate(c, s)
      PROVE  (held'[s].qty = 0 \/ c.seen[s].qty = held'[s].qty)
  <2>1. boughtOn[s] # day
    BY <1>0, <1>6 DEF Beside, RoutedLate
  <2>. QED
    BY <1>4, <1>5, <1>0, <1>6, <2>1 DEF UpToDate
<1>7. Single'
  BY <1>1 DEF Beside, Single
<1>8. ASSUME NEW s \in Canary PROVE Fine(s)' \/ (StopsOf(s)' = {} /\ Awaited(s)')
  <2>1. CASE s = o.sym
    BY <1>1, <1>4, <2>1 DEF Fine
  <2>2. CASE s # o.sym /\ Fine(s)
    BY <1>0, <1>5, <2>2
  <2>3. CASE s # o.sym /\ StopsOf(s) = {} /\ Awaited(s)
    BY <1>0, <1>1, <1>3, <1>5, <2>3 DEF Awaited, Attends
  <2>. QED
    BY <1>8, <2>1, <2>2, <2>3 DEF Beside, Watched
<1>9. ASSUME NEW p \in Procs PROVE Careful(cycle[p])'
  <2>. DEFINE c == cycle[p]
  <2>1. Careful(c) /\ cycle'[p] = c
    BY <1>1 DEF Beside
  <2>2. \A s \in Canary : UpToDate(c, s) => UpToDate(c, s)'
    BY <1>1, <1>6 DEF UpToDate
  <2>. QED
    BY <1>1, <2>1, <2>2 DEF Careful
<1>. QED
  BY <1>7, <1>8, <1>9 DEF Watched

(* Time only passes when no process is at work: then nothing is left from  *)
(* the first cycle on.                                                     *)
LEMMA BesideTick ==
  ASSUME Sound, Beside, Tick
  PROVE  Single' /\ Watched' /\ \A p \in Procs : Careful(cycle[p])'
<1>0. /\ Typed /\ NeverOversold /\ cycle \in [Procs -> Cycle] /\ "main" \in Procs
      /\ Canary \subseteq Symbols
  BY TrailingStopsAssumption DEF Sound, Typed
<1>1. /\ UNCHANGED <<day, boughtOn>>
      /\ \A p \in Procs : cycle[p].pc = "idle"
      /\ \/ clock = "night" /\ clock' = "0940"
         \/ clock = "0940" /\ clock' = "1230"
         \/ clock = "1230" /\ clock' = "1555"
  BY DEF Tick, Quiet, Schedule
<1>2. \A p \in Procs : cycle'[p].pc \in {"idle", "due"}
  BY <1>0, <1>1 DEF Tick, Cycle
<1>3. Main'.pc = "due"
  BY <1>0 DEF Main, Tick, Cycle
<1>4. PICK px \in Closes :
          LET filled == {o \in stops : o.price >= px[o.sym]}
              sold(s) == Shares({o \in filled : o.sym = s})
          IN  /\ close' = px
              /\ stops' = stops \ filled
              /\ held' = [s \in Symbols |-> Less(held[s], sold(s))]
  BY DEF Tick, MarketMoves
<1>5. ASSUME NEW s \in Symbols
      PROVE  /\ Fine(s) => Fine(s)'
             /\ StopsOf(s) = {} => StopsOf(s)' = {}
  <2>. DEFINE filled == {o \in stops : o.price >= px[o.sym]}
  <2>1. filled \in SUBSET stops /\ stops' = stops \ filled
    BY <1>4
  <2>2. held'[s] = Less(held[s], Shares({o \in filled : o.sym = s}))
    BY <1>4
  <2>. HIDE DEF filled
  <2>. QED
    BY <1>0, <1>1, <2>1, <2>2, FillsCover
<1>6. Single'
  BY <1>4 DEF Beside, Single
<1>7. ASSUME NEW s \in Canary, ~Fine(s) PROVE clock = "night"
  BY <1>0, <1>1, <1>7 DEF Beside, Watched, Awaited, Attends, Working, Main
<1>8. Watched'
  BY <1>0, <1>1, <1>3, <1>5, <1>7 DEF Watched, Awaited, Beside
<1>9. \A p \in Procs : Careful(cycle[p])'
  BY <1>2 DEF Careful, Working, Choosing
<1>. QED
  BY <1>6, <1>8, <1>9

(* At the close the orders expire, and no process holds what it read in    *)
(* the morning.                                                            *)
LEMMA BesideClose ==
  ASSUME Sound, Beside, CloseOfDay
  PROVE  Single' /\ Watched' /\ \A p \in Procs : Careful(cycle[p])'
<1>1. /\ clock = "1555" /\ clock' = "night" /\ stops' = {} /\ UNCHANGED <<cycle, boughtOn>>
  BY DEF CloseOfDay
<1>2. Single' /\ Watched'
  BY <1>1 DEF Single, Watched, Awaited, StopsOf
<1>3. ASSUME NEW p \in Procs PROVE Careful(cycle[p])'
  <2>1. Careful(cycle[p]) /\ \A s \in Canary : ~UpToDate(cycle[p], s)
    BY <1>1 DEF Beside, UpToDate
  <2>. QED
    BY <1>1, <2>1 DEF Careful
<1>. QED
  BY <1>2, <1>3

(* A process that starts finds nothing for sale in a position under a      *)
(* stop, and the whole of one that is left.                                *)
LEMMA BesideStart ==
  ASSUME Sound, Beside, NEW p \in Procs, NEW mode \in Modes, GetPositions(p, mode),
         UNCHANGED <<envVars, orderVars, liveVars>>
  PROVE  Single' /\ Watched' /\ \A q \in Procs : Careful(cycle[q])'
<1>. DEFINE d == cycle'[p]
            seen == [s \in Symbols |-> [qty |-> Available(s), entry |-> held[s].entry]]
            todo == {s \in Symbols : held[s].qty > 0}
            b == [Idle EXCEPT !.pc = "prior", !.mode = mode, !.today = day, !.close = close,
                              !.todo = todo, !.seen = seen]
<1>0. /\ Typed /\ cycle \in [Procs -> Cycle] /\ held \in [Symbols -> Lot] /\ close \in Closes
      /\ Canary \subseteq Symbols /\ Single
  BY DEF Sound, Typed, Lot, Beside
<1>1. /\ UNCHANGED <<stops, day, boughtOn, clock, held>>
      /\ \A s \in Symbols : Fine(s)' = Fine(s) /\ StopsOf(s)' = StopsOf(s)
  BY DEF envVars, orderVars, liveVars, Fine, Covered, StopsOf
<1>2. /\ \/ (\A s \in Symbols : held[s].qty = 0) /\ d = Idle
         \/ d = b
      /\ \A q \in Procs : q # p => cycle'[q] = cycle[q]
  BY <1>0 DEF GetPositions
<1>3. /\ b.pc = "prior" /\ b.today = day /\ b.close = close /\ b.todo = todo /\ b.seen = seen
  BY DEF Idle
<1>4. ASSUME NEW s \in Symbols
      PROVE  /\ seen[s].qty = held[s].qty - Covered(s)
             /\ StopsOf(s) = {} => seen[s].qty = held[s].qty
             /\ Covered(s) = held[s].qty => seen[s].qty <= 0
  <2>1. StopsOf(s) = {} => Covered(s) = 0
    BY <1>0, CoverOfOne
  <2>2. held[s].qty \in Nat
    BY <1>0 DEF Lot
  <2>3. seen[s].qty = held[s].qty - Covered(s)
    BY DEF Available
  <2>. HIDE DEF seen
  <2>. QED
    BY <2>1, <2>2, <2>3
<1>5. \A s \in Canary : Fine(s) \/ (StopsOf(s) = {} /\ Awaited(s))
  BY DEF Beside, Watched
<1>6. \A s \in todo : held[s].qty > 0 /\ held[s].qty \in Nat
  BY <1>0 DEF Lot
<1>7. \A s \in Symbols : ~Fine(s) => s \in todo
  BY <1>0 DEF Fine, Lot
<1>. HIDE DEF b, seen, d
<1>8. Careful(d)
  <2>1. ASSUME NEW s \in Canary, s \in todo
        PROVE  b.seen[s].qty <= 0 \/ boughtOn[s] = b.today \/ UpToDate(b, s)
    <3>1. CASE StopsOf(s) = {} /\ Awaited(s)
      BY <1>0, <1>3, <1>4, <3>1 DEF UpToDate, Awaited
    <3>2. CASE Fine(s)
      BY <1>0, <1>3, <1>4, <1>6, <2>1, <3>2 DEF Fine
    <3>. QED
      BY <1>5, <3>1, <3>2
  <2>2. Careful(b)
    BY <1>0, <1>3, <2>1 DEF Careful, Choosing
  <2>3. Careful(Idle)
    BY DEF Careful, Idle, Working, Choosing
  <2>. QED
    BY <1>2, <2>2, <2>3
<1>9. ASSUME NEW q \in Procs PROVE Careful(cycle[q])'
  <2>1. Careful(cycle'[q])
    BY <1>2, <1>8 DEF Beside, d
  <2>. QED
    BY <1>1, <2>1 DEF Careful, UpToDate
<1>10. ASSUME NEW s \in Canary, ~Fine(s) PROVE Awaited(s)'
  <2>1. s \in todo /\ StopsOf(s) = {} /\ Awaited(s)
    BY <1>0, <1>5, <1>7, <1>10
  <2>2. Attends(d, s)
    <3>1. d = b
      BY <1>2, <1>6, <2>1
    <3>. QED
      BY <1>0, <1>3, <1>4, <2>1, <3>1 DEF Attends, Working
  <2>. QED
    BY <1>1, <2>1, <2>2 DEF Awaited, Attends, d
<1>11. Watched'
  BY <1>0, <1>1, <1>5, <1>10 DEF Watched
<1>12. Single'
  BY <1>0, <1>1 DEF Single
<1>. QED
  BY <1>9, <1>11, <1>12

(* Orders are only routed late in the day: every share is under a stop or  *)
(* bought that day, and no process holds what it read in the morning.      *)
LEMMA BesideRoute ==
  ASSUME Sound, Beside, NEW s \in Symbols, RouteOrder(s)
  PROVE  Single' /\ Watched' /\ \A p \in Procs : Careful(cycle[p])'
<1>0. /\ Typed /\ cycle \in [Procs -> Cycle] /\ "main" \in Procs /\ Canary \subseteq Symbols
      /\ boughtOn \in [Symbols -> Int]
  BY TrailingStopsAssumption DEF Sound, Typed
<1>1. /\ clock = "1555" /\ UNCHANGED <<day, clock, stops>>
      /\ boughtOn' = boughtOn \/ boughtOn' = [boughtOn EXCEPT ![s] = day]
  BY RouteEffect DEF Beside, RoutedLate, orderVars
<1>2. Main'.pc \in {"routed", "routing"} /\ \A x \in Symbols : Fine(x) => Fine(x)'
  BY <1>0, RouteFine
<1>3. Single' /\ Watched'
  BY <1>0, <1>1, <1>2 DEF Beside, Single, Watched, Awaited
<1>4. ASSUME NEW p \in Procs PROVE Careful(cycle[p])'
  <2>1. CASE p = "main"
    BY <1>2, <2>1 DEF Careful, Working, Choosing, Main
  <2>2. CASE p # "main"
    <3>. DEFINE c == cycle[p]
    <3>1. cycle'[p] = c
      BY <1>0, <2>2 DEF RouteOrder, Routed
    <3>2. Careful(c) /\ \A x \in Canary : ~UpToDate(c, x)
      BY <1>1 DEF Beside, UpToDate
    <3>3. c.pc \in Working => c.today = day
      BY <1>1, <3>2 DEF Careful
    <3>4. \A x \in Canary : boughtOn'[x] = boughtOn[x] \/ boughtOn'[x] = day
      BY <1>0, <1>1
    <3>5. \A x \in Canary : c.pc \in Working /\ boughtOn[x] = c.today => boughtOn'[x] = c.today
      BY <3>3, <3>4
    <3>. HIDE DEF c
    <3>6. \A x \in Canary : c.pc \in Choosing /\ x \in c.todo /\ c.seen[x].qty > 0 =>
              boughtOn[x] = c.today \/ c.seen[x].qty <= 0
      BY <3>2 DEF Careful, Choosing, Working
    <3>7. \A x \in Symbols : c.seen[x].qty \in Int
      BY <1>0 DEF c, Cycle, PositionsRead, Position
    <3>8. Choosing \subseteq Working
      BY DEF Choosing, Working
    <3>. QED
      BY <1>0, <1>1, <3>1, <3>2, <3>3, <3>5, <3>6, <3>7, <3>8 DEF Careful
  <2>. QED
    BY <2>1, <2>2
<1>. QED
  BY <1>3, <1>4

(* The live cycle comes after the first one: nothing waits for it.         *)
LEMMA BesideLive ==
  ASSUME Sound, Beside, LiveCycle
  PROVE  Single' /\ Watched' /\ \A p \in Procs : Careful(cycle[p])'
<1>0. Typed /\ cycle \in [Procs -> Cycle] /\ "main" \in Procs
  BY TrailingStopsAssumption DEF Sound, Typed
<1>1. UNCHANGED <<day, held, stops, clock, boughtOn>> /\ clock = "1555"
  BY DEF LiveCycle, envVars, orderVars
<1>2. Single' /\ Watched'
  BY <1>1 DEF Beside, Single, Watched, Awaited, Fine, Covered, StopsOf
<1>3. cycle'["main"].pc = "routing" /\ \A p \in Procs : p # "main" => cycle'[p] = cycle[p]
  <2>. DEFINE d == [Idle EXCEPT !.pc = "routing", !.today = day, !.todo = Symbols,
                       !.seen = [x \in Symbols |->
                           [qty |-> Available(x), entry |-> held[x].entry]]]
  <2>1. cycle' = [cycle EXCEPT !["main"] = d] /\ d.pc = "routing"
    BY DEF LiveCycle, Idle
  <2>. HIDE DEF d
  <2>. QED
    BY <1>0, <2>1
<1>4. ASSUME NEW p \in Procs PROVE Careful(cycle[p])'
  BY <1>1, <1>3 DEF Beside, Careful, UpToDate, Working, Choosing
<1>. QED
  BY <1>2, <1>4

(* A symbol that is done is taken off the list; the others stay attended.  *)
LEMMA CarefulDone ==
  ASSUME NEW c \in Cycle, NEW s \in Symbols, c.pc \in Choosing, Careful(c),
         c.pc \in {"cancel", "submit"} => c.cur = s,
         NEW d, d = Done(c, s)
  PROVE  /\ Careful(d)
         /\ \A x \in Symbols : x # s /\ Attends(c, x) => Attends(d, x)
<1>1. /\ d \in Cycle /\ d.pc \in {"idle", "symbols"}
      /\ d.pc = "symbols" =>
             /\ d.todo = c.todo \ {s} /\ d.today = c.today /\ d.close = c.close
             /\ d.seen = c.seen /\ d.standing = c.standing /\ d.bought = c.bought
  BY DoneType
<1>2. c.todo # {s} => d.pc = "symbols"
  BY DEF Done, Cycle
<1>3. Careful(d)
  BY <1>1 DEF Careful, Choosing, Working, UpToDate
<1>4. ASSUME NEW x \in Symbols, x # s, Attends(c, x) PROVE Attends(d, x)
  <2>1. x \in c.todo /\ c.standing[x] = NoStop
    BY <1>4 DEF Attends, Choosing
  <2>2. d.pc = "symbols"
    BY <1>2, <1>4, <2>1
  <2>. QED
    BY <1>1, <1>4, <2>1, <2>2 DEF Attends, Working
<1>. QED
  BY <1>3, <1>4

(* The tables are read as they are.                                        *)
LEMMA CarefulReads ==
  ASSUME Typed, lastBuy = boughtOn, Failures = {},
         NEW c \in Cycle, NEW d, Reads(c, d), Careful(c)
  PROVE  /\ Careful(d)
         /\ \A x \in Symbols : StopsOf(x) = {} /\ Attends(c, x) => Attends(d, x)
<1>1. /\ d \in Cycle /\ d.pc \in {"standing", "entry", "symbols"}
      /\ d.todo = c.todo /\ d.today = c.today /\ d.seen = c.seen /\ d.close = c.close
  BY ReadsType
<1>2. c.pc \in {"prior", "standing", "entry"}
  BY DEF Reads
<1>3. d.pc = "symbols" => d.bought = boughtOn
  BY DEF Reads, Cycle
<1>4. Careful(d)
  BY <1>1, <1>2, <1>3 DEF Careful, Choosing, Working, UpToDate
<1>5. ASSUME NEW x \in Symbols, StopsOf(x) = {}, Attends(c, x) PROVE Attends(d, x)
  <2>1. Newest(x) = NoStop
    BY <1>5, NewestOrder
  <2>2. c.pc = "prior" => d.pc = "standing"
    BY DEF Reads, Cycle
  <2>3. ASSUME c.pc = "standing" PROVE d.standing[x] = NoStop
    <3>. DEFINE read == [y \in Symbols |-> Newest(y)]
    <3>1. d = [c EXCEPT !.pc = "entry", !.standing = read]
      BY <2>3 DEF Reads
    <3>2. read[x] = NoStop
      BY <2>1
    <3>. HIDE DEF read
    <3>. QED
      BY <3>1, <3>2 DEF Cycle
  <2>4. c.pc = "entry" => d.standing = c.standing
    BY DEF Reads, Cycle
  <2>. QED
    BY <1>1, <1>2, <1>5, <2>2, <2>3, <2>4 DEF Attends, Working
<1>. QED
  BY <1>4, <1>5

(* What is attended is not passed over: it is for sale, and not exempt.    *)
LEMMA CarefulSettles ==
  ASSUME Typed, NEW c \in Cycle, NEW s \in Symbols, NEW d, Settles(c, s, d), Careful(c)
  PROVE  /\ Careful(d)
         /\ \A x \in Canary : ~Fine(x) /\ Attends(c, x) => Attends(d, x)
<1>0. c.pc = "symbols" /\ s \in c.todo /\ Canary \subseteq Symbols
  BY TrailingStopsAssumption DEF Settles
<1>1. CASE d = Done(c, s) /\ (Exempt(c, s) \/ s \notin Canary \/ c.standing[s] # NoStop)
  <2>1. Careful(d) /\ \A x \in Symbols : x # s /\ Attends(c, x) => Attends(d, x)
    BY <1>0, <1>1, CarefulDone DEF Choosing
  <2>2. ASSUME s \in Canary, Attends(c, s) PROVE Fine(s)
    <3>1. /\ c.standing[s] = NoStop /\ c.today = day /\ c.seen[s].qty = held[s].qty
          /\ held[s].qty \in Nat
      BY <1>0, <2>2 DEF Attends, Typed
    <3>2. Exempt(c, s)
      BY <1>1, <2>2, <3>1
    <3>3. CASE c.seen[s].qty <= 0
      BY <3>1, <3>3 DEF Fine
    <3>4. CASE ~(c.seen[s].qty <= 0) /\ c.bought[s] = c.today
      <4>1. c.seen[s].qty > 0
        BY <3>1, <3>4
      <4>2. boughtOn[s] = day
        BY <1>0, <2>2, <3>1, <3>4, <4>1 DEF Careful, Choosing
      <4>. QED
        BY <4>2 DEF Fine
    <3>. QED
      BY <3>2, <3>3, <3>4 DEF Exempt
  <2>. QED
    BY <1>0, <2>1, <2>2
<1>2. CASE s \in Canary /\ Decides(c, s, d)
  <2>1. /\ d \in Cycle /\ d.pc \in {"cancel", "submit"} /\ d.cur = s
        /\ d.todo = c.todo /\ d.today = c.today /\ d.seen = c.seen /\ d.close = c.close
        /\ d.standing = c.standing /\ d.bought = c.bought
    BY <1>0, <1>2, DecidesType
  <2>2. c.seen[s].qty \in Int /\ ~(c.seen[s].qty <= 0) /\ c.bought[s] # c.today
    BY <1>2 DEF Decides, Exempt, Cycle, PositionsRead, Position
  <2>3. UpToDate(c, s)
    BY <1>0, <1>2, <2>2 DEF Careful, Choosing, Working
  <2>4. Careful(d)
    BY <1>0, <1>2, <2>1, <2>3 DEF Careful, Choosing, Working, UpToDate
  <2>5. \A x \in Canary : Attends(c, x) => Attends(d, x)
    BY <1>0, <2>1 DEF Attends, Working
  <2>. QED
    BY <2>4, <2>5
<1>. QED
  BY <1>1, <1>2 DEF Settles

(* Any step of manage_cycle, of any process: what is attended stays so or  *)
(* is covered, and a stop is only cancelled by a process that will send    *)
(* another for the whole position.                                         *)
LEMMA BesideManage ==
  ASSUME Failures = {}, LevelsStand, Sound, Beside, Unfailed, Unfailed',
         NEW p \in Procs, ManageStep(p), UNCHANGED liveVars
  PROVE  Single' /\ Watched' /\ \A q \in Procs : Careful(cycle[q])'
<1>. DEFINE c == cycle[p]
            d == cycle'[p]
<1>0. /\ Typed /\ NeverOversold /\ c \in Cycle /\ d \in Cycle /\ AboutToSubmit(c)
      /\ Canary \subseteq Symbols /\ held \in [Symbols -> Lot] /\ cycle' \in [Procs -> Cycle]
      /\ \A q \in Procs : q # p => cycle'[q] = cycle[q]
      /\ UNCHANGED <<day, held, clock, boughtOn>>
  BY StepType, TrailingStopsAssumption DEF Sound, Typed, Lot, envVars, liveVars
<1>1. Careful(c) /\ lastBuy = boughtOn
  BY DEF Beside
<1>2. Handles(c, d) /\ ~FirstFault
  <2>1. c.pc \in Working => c.close \in Closes
    BY <1>1 DEF Careful
  <2>. QED
    BY <2>1, HandlesStep DEF OneFailure, FirstFault, Unfailed
<1>3. c.pc \in {"cancel", "submit"} =>
          /\ c.cur \in Canary /\ c.cur \in Symbols /\ UpToDate(c, c.cur)
          /\ c.cur \in c.todo /\ c.seen[c.cur].qty \in Nat /\ c.seen[c.cur].qty > 0
          /\ held[c.cur].qty \in Nat
  <2>1. ASSUME c.pc \in {"cancel", "submit"}
        PROVE  /\ c.cur \in Canary /\ c.cur \in Symbols /\ UpToDate(c, c.cur)
               /\ c.cur \in c.todo /\ c.seen[c.cur].qty > 0
    BY <1>0, <1>1, <2>1 DEF Careful, AboutToSubmit
  <2>2. \A x \in Symbols : c.seen[x].qty \in Int /\ held[x].qty \in Nat
    BY <1>0 DEF Cycle, PositionsRead, Position, Lot
  <2>. HIDE DEF c, d
  <2>. QED
    BY <2>1, <2>2
<1>4. ASSUME c.pc \in Working, Careful(d)
      PROVE  /\ \A q \in Procs : Careful(cycle[q])'
             /\ \A s \in Canary : /\ StopsOf(s)' = StopsOf(s)
                                  /\ ~Fine(s) /\ StopsOf(s) = {} /\ Attends(c, s) => Attends(d, s)
                                  => Fine(s)' \/ (StopsOf(s)' = {} /\ Awaited(s)')
  <2>1. ASSUME NEW q \in Procs PROVE Careful(cycle[q])'
    <3>1. Careful(cycle'[q])
      BY <1>0, <1>4, <2>1 DEF Beside
    <3>. QED
      BY <1>0, <3>1 DEF Careful, UpToDate
  <2>2. ASSUME NEW s \in Canary, StopsOf(s)' = StopsOf(s), ~Fine(s)',
               ~Fine(s) /\ StopsOf(s) = {} /\ Attends(c, s) => Attends(d, s)
        PROVE  StopsOf(s)' = {} /\ Awaited(s)'
    <3>1. ~Fine(s)
      BY <1>0, <2>2 DEF Fine, Covered
    <3>2. StopsOf(s) = {} /\ Awaited(s)
      BY <2>2, <3>1 DEF Beside, Watched
    <3>3. CASE clock = "night"
      BY <1>0, <2>2, <3>2, <3>3 DEF Awaited
    <3>4. CASE clock = "0940" /\ Main.pc = "due"
      <4>1. Main'.pc = "due"
        BY <1>0, <1>4, <3>4, TrailingStopsAssumption DEF Main, Working
      <4>. QED
        BY <1>0, <2>2, <3>2, <3>4, <4>1 DEF Awaited
    <3>5. ASSUME clock = "0940", NEW q \in Procs, Attends(cycle[q], s) PROVE Awaited(s)'
      <4>1. Attends(cycle'[q], s)
        BY <1>0, <2>2, <3>1, <3>2, <3>5
      <4>2. Attends(cycle[q], s)'
        BY <1>0, <4>1 DEF Attends
      <4>. QED
        BY <1>0, <3>5, <4>2 DEF Awaited
    <3>. QED
      BY <2>2, <3>2, <3>3, <3>4, <3>5 DEF Awaited
  <2>. QED
    BY <2>1, <2>2
<1>5. ASSUME c.pc \in Working, Careful(d), UNCHANGED stops,
             \A s \in Canary : ~Fine(s) /\ StopsOf(s) = {} /\ Attends(c, s) => Attends(d, s)
      PROVE  Single' /\ Watched' /\ \A q \in Procs : Careful(cycle[q])'
  <2>1. \A s \in Canary : StopsOf(s)' = StopsOf(s)
    BY <1>5 DEF StopsOf
  <2>2. Watched'
    BY <1>4, <1>5, <2>1 DEF Watched
  <2>. QED
    BY <1>4, <1>5, <2>2 DEF Beside, Single
<1>. HIDE DEF c, d
<1>6. CASE Reads(c, d) /\ UNCHANGED stops
  <2>1. /\ Careful(d)
        /\ \A x \in Symbols : StopsOf(x) = {} /\ Attends(c, x) => Attends(d, x)
    BY <1>0, <1>1, <1>6, CarefulReads
  <2>2. c.pc \in Working
    BY <1>6 DEF Reads, Working
  <2>. QED
    BY <1>0, <1>5, <1>6, <2>1, <2>2
<1>7. ASSUME NEW s \in Symbols, Settles(c, s, d), UNCHANGED stops
      PROVE  Single' /\ Watched' /\ \A q \in Procs : Careful(cycle[q])'
  <2>1. Careful(d) /\ \A x \in Canary : ~Fine(x) /\ Attends(c, x) => Attends(d, x)
    BY <1>0, <1>1, <1>7, CarefulSettles
  <2>2. c.pc \in Working
    BY <1>7 DEF Settles, Working
  <2>. QED
    BY <1>5, <1>7, <2>1, <2>2
<1>8. CASE Cancels(c, d)
  <2>1. /\ c.pc = "cancel" /\ c.pc \in Working /\ d.pc = "submit"
        /\ d.cur = c.cur /\ d.todo = c.todo /\ d.today = c.today /\ d.seen = c.seen
        /\ d.close = c.close /\ d.standing = c.standing /\ d.bought = c.bought
        /\ stops' = {o \in stops : o.id # c.standing[c.cur].id}
    BY <1>0, <1>8 DEF Cancels, Cancel, Cycle, Working
  <2>0. PICK u \in Canary : u = c.cur
    BY <1>3, <2>1
  <2>2. Careful(d)
    BY <1>1, <1>3, <2>1 DEF Careful, Working, Choosing, UpToDate
  <2>3. \A x \in Symbols : Attends(c, x) => Attends(d, x)
    BY <2>1 DEF Attends, Working
  <2>4. ASSUME NEW x \in Symbols, x # u PROVE StopsOf(x)' = StopsOf(x)
    <3>1. \A o \in stops : o.id = c.standing[c.cur].id => o.sym = c.cur
      BY <1>3, <2>1 DEF Beside, OwnOrders, c
    <3>. QED
      BY <2>0, <2>1, <2>4, <3>1 DEF StopsOf
  <2>5. Single'
    BY <2>1 DEF Beside, Single
  <2>6. CASE StopsOf(u)' = StopsOf(u)
    <3>1. \A x \in Canary : StopsOf(x)' = StopsOf(x)
      BY <1>0, <2>4, <2>6
    <3>2. Watched'
      BY <1>0, <1>4, <2>1, <2>2, <2>3, <3>1 DEF Watched
    <3>. QED
      BY <1>4, <2>1, <2>2, <2>5, <3>2
  <2>7. CASE StopsOf(u)' # StopsOf(u)
    <3>1. StopsOf(u)' = {}
      BY <2>0, <2>1, <2>7 DEF Beside, Single, StopsOf
    <3>2. Fine(u)' \/ Awaited(u)'
      <4>1. CASE held[u].qty = 0
        BY <1>0, <4>1 DEF Fine
      <4>2. CASE held[u].qty # 0
        <5>1. Attends(cycle[p], u)' /\ clock' \in {"night", "0940"}
          BY <1>0, <1>3, <2>0, <2>1, <4>2 DEF UpToDate, Attends, Working, d
        <5>. QED
          BY <5>1 DEF Awaited
      <4>. QED
        BY <4>1, <4>2
    <3>3. ASSUME NEW x \in Canary PROVE Fine(x)' \/ (StopsOf(x)' = {} /\ Awaited(x)')
      <4>1. CASE x = u
        BY <3>1, <3>2, <4>1
      <4>2. CASE x # u
        BY <1>0, <1>4, <2>1, <2>2, <2>3, <2>4, <4>2
      <4>. QED
        BY <4>1, <4>2
    <3>. QED
      BY <1>4, <2>1, <2>2, <2>5, <3>3 DEF Watched
  <2>. QED
    BY <2>6, <2>7
<1>9. CASE Accepts(c, d) /\ d = Done(c, c.cur)
  <2>. DEFINE new == Submitted(c)
  <2>0. PICK u \in Canary : u = c.cur
    BY <1>3, <1>9 DEF Accepts
  <2>1. /\ c.pc = "submit" /\ c.seen[c.cur].qty <= Available(c.cur)
        /\ stops' = stops \cup {new} /\ new.sym = c.cur /\ new.qty = c.seen[c.cur].qty
    BY <1>9 DEF Accepts, Submitted
  <2>. HIDE DEF new
  <2>2. Careful(d) /\ \A x \in Symbols : x # c.cur /\ Attends(c, x) => Attends(d, x)
    BY <1>0, <1>1, <1>3, <1>9, <2>1, CarefulDone DEF Choosing
  <2>3. c.seen[c.cur].qty = held[c.cur].qty /\ StopsOf(c.cur) = {}
    <3>1. Covered(c.cur) \in Nat /\ Available(c.cur) = held[c.cur].qty - Covered(c.cur)
      BY <1>0, <1>3, <2>1, StopSets DEF Available
    <3>2. c.seen[c.cur].qty = held[c.cur].qty /\ Covered(c.cur) = 0
      BY <1>3, <2>1, <3>1 DEF UpToDate
    <3>. QED
      BY <1>0, <1>3, <2>1, <3>2, CoverOfOne DEF Beside
  <2>4. StopsOf(u)' = {new} /\ \A x \in Symbols : x # u => StopsOf(x)' = StopsOf(x)
    BY <2>0, <2>1, <2>3 DEF StopsOf
  <2>5. Single'
    BY <2>1, <2>3 DEF Beside, Single, StopsOf
  <2>6. Fine(u)'
    <3>1. Covered(u)' = Shares({new})
      BY <2>4 DEF Covered
    <3>2. Covered(u)' = held[u].qty
      BY <1>3, <2>0, <2>1, <2>3, <3>1, SharesOne
    <3>. QED
      BY <1>0, <3>2 DEF Fine
  <2>7. c.pc \in Working
    BY <2>1 DEF Working
  <2>8. ASSUME NEW x \in Canary, x # u PROVE Fine(x)' \/ (StopsOf(x)' = {} /\ Awaited(x)')
    BY <1>0, <1>4, <2>0, <2>2, <2>4, <2>7, <2>8
  <2>. QED
    BY <1>4, <2>2, <2>5, <2>6, <2>7, <2>8 DEF Watched
<1>10. CASE Refuses(c, d) /\ c.seen[c.cur].qty > Available(c.cur)
  <2>1. c.pc = "submit" /\ d = Done(c, c.cur) /\ UNCHANGED stops /\ c.pc \in Working
    BY <1>10 DEF Refuses, orderVars, Working
  <2>2. Careful(d) /\ \A x \in Symbols : x # c.cur /\ Attends(c, x) => Attends(d, x)
    BY <1>0, <1>1, <1>3, <2>1, CarefulDone DEF Choosing
  <2>3. ASSUME StopsOf(c.cur) = {} PROVE ~Attends(c, c.cur)
    <3>1. Covered(c.cur) = 0
      BY <1>0, <1>3, <2>1, <2>3, CoverOfOne DEF Beside
    <3>2. Available(c.cur) = held[c.cur].qty
      BY <1>3, <2>1, <3>1 DEF Available
    <3>. QED
      BY <1>3, <1>10, <2>1, <3>2 DEF Attends
  <2>. QED
    BY <1>0, <1>5, <2>1, <2>2, <2>3
<1>. QED
  <2>1. ~GivesUp(c, d)
    BY <1>2 DEF GivesUp
  <2>2. Accepts(c, d) /\ (d = Done(c, c.cur) \/ FirstFault) => Accepts(c, d) /\ d = Done(c, c.cur)
    BY <1>2
  <2>. QED
    BY <1>2, <1>6, <1>7, <1>8, <1>9, <1>10, <2>1, <2>2 DEF Handles

(* A step of manage_cycle leaves the process at work or idle.              *)
LEMMA ManageStays ==
  ASSUME Typed, NEW c \in Cycle, AboutToSubmit(c), NEW d, Handles(c, d)
  PROVE  d.pc \in Working \cup {"idle"}
<1>1. \A s \in Symbols : Done(c, s).pc \in Working \cup {"idle"}
  BY DoneType DEF Working
<1>2. Idle.pc \in Working \cup {"idle"}
  BY DEF Idle
<1>3. CASE Reads(c, d)
  BY <1>3, ReadsType DEF Working
<1>4. ASSUME NEW s \in Symbols, Settles(c, s, d) PROVE d.pc \in Working \cup {"idle"}
  BY <1>1, <1>4, DecidesType DEF Settles, Working
<1>5. CASE Cancels(c, d)
  BY <1>5 DEF Cancels, Cycle, Working
<1>6. c.pc = "submit" => c.cur \in Symbols
  BY DEF AboutToSubmit, Cycle, Names
<1>7. CASE Accepts(c, d) \/ Refuses(c, d)
  BY <1>1, <1>2, <1>6, <1>7 DEF Accepts, Refuses
<1>8. CASE GivesUp(c, d)
  BY <1>1, <1>2, <1>8 DEF GivesUp
<1>. QED
  BY <1>3, <1>4, <1>5, <1>7, <1>8 DEF Handles

(* Every purchase is on record, and made at 15:55.                         *)
LEMMA BesideLate ==
  ASSUME Failures = {}, LevelsStand, Sound, Beside, [Next]_vars
  PROVE  lastBuy' = boughtOn' /\ RoutedLate'
<1>0. /\ Typed /\ cycle \in [Procs -> Cycle] /\ "main" \in Procs /\ day \in Nat
      /\ lastBuy = boughtOn /\ RoutedLate /\ \A s \in Symbols : boughtOn[s] \in Int /\ boughtOn[s] <= day
  BY TrailingStopsAssumption DEF Sound, Typed, Beside, Dates, NoDate
<1>1. ASSUME UNCHANGED <<day, clock, boughtOn, lastBuy>>,
             UNCHANGED Main \/ Main'.pc \notin {"routing", "routed"} \/ clock = "1555"
      PROVE  lastBuy' = boughtOn' /\ RoutedLate'
  BY <1>0, <1>1 DEF RoutedLate
<1>2. CASE Tick
  <2>1. UNCHANGED <<day, boughtOn, lastBuy>> /\ clock # "1555"
    BY <1>2 DEF Tick, Schedule
  <2>2. Main'.pc = "due"
    BY <1>0, <1>2 DEF Main, Tick, Cycle
  <2>. QED
    BY <1>0, <2>1, <2>2 DEF RoutedLate
<1>3. CASE CloseOfDay
  <2>1. day' = day + 1 /\ UNCHANGED <<boughtOn, lastBuy, cycle>>
        /\ Main.pc \notin {"routing", "routed"}
    BY <1>3 DEF CloseOfDay
  <2>2. \A s \in Symbols : boughtOn'[s] # day'
    BY <1>0, <2>1
  <2>. QED
    BY <1>0, <2>1, <2>2 DEF RoutedLate, Main
<1>4. ASSUME NEW o \in stops, StopFill(o) PROVE lastBuy' = boughtOn' /\ RoutedLate'
  BY <1>1, <1>4 DEF StopFill, Main
<1>5. CASE PhantomCycle \/ ManageFresh \/ ModelUpdate \/ RunTool
  <2>1. PICK p \in Procs, mode \in Modes :
            GetPositions(p, mode) /\ UNCHANGED <<day, clock, boughtOn, lastBuy>>
    BY <1>0, <1>5 DEF PhantomCycle, ManageFresh, ModelUpdate, RunTool, Modes, envVars, liveVars
  <2>2. cycle' = [cycle EXCEPT ![p] = cycle'[p]] /\ cycle'[p].pc \in {"idle", "prior"}
    BY <1>0, <2>1, StartType
  <2>3. UNCHANGED Main \/ Main'.pc \in {"idle", "prior"}
    BY <1>0, <2>2 DEF Main
  <2>. QED
    BY <1>1, <2>1, <2>3
<1>6. CASE LiveCycle
  BY <1>1, <1>6 DEF LiveCycle, envVars
<1>7. ASSUME NEW s \in Symbols, RouteOrder(s) PROVE lastBuy' = boughtOn' /\ RoutedLate'
  <2>1. clock = "1555" /\ UNCHANGED clock
    BY <1>0, <1>7, RouteEffect DEF RoutedLate
  <2>2. lastBuy' = boughtOn'
    BY <1>0, <1>7, RouteEffect
  <2>. QED
    BY <2>1, <2>2 DEF RoutedLate
<1>8. ASSUME NEW p \in Procs, ManageStep(p), UNCHANGED liveVars
      PROVE  lastBuy' = boughtOn' /\ RoutedLate'
  <2>1. UNCHANGED <<day, clock, boughtOn, lastBuy>> /\ \A q \in Procs : q # p => cycle'[q] = cycle[q]
    BY <1>0, <1>8, StepType DEF envVars, liveVars
  <2>2. cycle[p].pc \in Working => cycle[p].close \in Closes
    BY DEF Beside, Careful
  <2>3. Handles(cycle[p], cycle'[p])
    BY <1>8, <2>2, HandlesStep DEF OneFailure
  <2>4. cycle'[p].pc \in Working \cup {"idle"}
    BY <1>0, <2>3, ManageStays DEF Typed
  <2>5. UNCHANGED Main \/ Main'.pc \notin {"routing", "routed"}
    BY <1>0, <2>1, <2>4 DEF Main, Working
  <2>. QED
    BY <1>1, <2>1, <2>5
<1>9. CASE UNCHANGED vars
  BY <1>1, <1>9 DEF vars, envVars, liveVars, Main
<1>10. ~CycleFails
  BY DEF CycleFails, Fault
<1>. QED
  BY <1>2, <1>3, <1>4, <1>5, <1>6, <1>7, <1>8, <1>9, <1>10 DEF Next, Manage

(* The invariant holds at the start and survives every step.               *)
LEMMA BesideInit == Init => Beside
<1>. SUFFICES ASSUME Init PROVE Beside
  OBVIOUS
<1>1. lastBuy = boughtOn /\ RoutedLate
  BY TrailingStopsAssumption DEF Init, RoutedLate, Main, Idle, NoDate
<1>2. Single /\ UniqueIds /\ OwnOrders
  BY DEF Init, Single, UniqueIds, OwnOrders
<1>3. Watched
  BY TrailingStopsAssumption DEF Init, Watched, Fine
<1>4. \A p \in Procs : Careful(cycle[p])
  BY DEF Init, Careful, Idle, Working, Choosing
<1>. QED
  BY <1>1, <1>2, <1>3, <1>4 DEF Beside

LEMMA BesideStep ==
  ASSUME Failures = {}, LevelsStand, Sound, Unfailed, Beside, [Next]_vars
  PROVE  Beside'
<1>1. lastBuy' = boughtOn' /\ RoutedLate' /\ UniqueIds' /\ OwnOrders' /\ Unfailed'
  BY BesideLate, OwnStep, UnfailedStep DEF Beside
<1>2. ASSUME Manage PROVE Single' /\ Watched' /\ \A p \in Procs : Careful(cycle[p])'
  BY <1>1, <1>2, BesideManage DEF Manage
<1>3. ASSUME UNCHANGED vars PROVE Single' /\ Watched' /\ \A p \in Procs : Careful(cycle[p])'
  <2>1. UNCHANGED <<day, close, held, stops, cycle, clock, boughtOn>> /\ Main' = Main
    BY <1>3 DEF vars, envVars, orderVars, liveVars, Main
  <2>2. Single'
    BY <2>1 DEF Beside, Single
  <2>3. Watched'
    BY <2>1 DEF Beside, Watched, Fine, Covered, StopsOf, Awaited, Attends
  <2>4. \A p \in Procs : Careful(cycle[p])'
    BY <2>1 DEF Beside, Careful, UpToDate
  <2>. QED
    BY <2>2, <2>3, <2>4
<1>4. ASSUME PhantomCycle \/ ManageFresh \/ ModelUpdate \/ RunTool
      PROVE  Single' /\ Watched' /\ \A p \in Procs : Careful(cycle[p])'
  <2>1. PICK p \in Procs, mode \in Modes :
            GetPositions(p, mode) /\ UNCHANGED <<envVars, orderVars, liveVars>>
    BY <1>4, TrailingStopsAssumption DEF PhantomCycle, ManageFresh, ModelUpdate, RunTool, Modes
  <2>. QED
    BY <2>1, BesideStart
<1>5. ~CycleFails
  BY DEF CycleFails, Fault
<1>6. Single' /\ Watched' /\ \A p \in Procs : Careful(cycle[p])'
  BY <1>2, <1>3, <1>4, <1>5, BesideFill, BesideTick, BesideClose, BesideRoute, BesideLive
     DEF Next, Beside
<1>. QED
  BY <1>1, <1>6 DEF Beside

LEMMA BesideAlways ==
  ASSUME Failures = {}, LevelsStand
  PROVE  Spec => [](Sound /\ Beside)
<1>1. Sound /\ Unfailed /\ [Next]_vars => Unfailed'
  BY UnfailedStep
<1>2. Sound /\ Unfailed /\ Beside /\ [Next]_vars => Beside'
  BY BesideStep
<1>3. Init => Beside /\ Unfailed
  BY BesideInit DEF Init, Unfailed
<1>. QED
  BY <1>1, <1>2, <1>3, SoundAlways, PTL DEF Spec

(* CoveredIntraday of LiveCycle with any number of processes at work on    *)
(* the stops at any time (the trading process, the trigger_stops tool, in  *)
(* either mode), as long as nothing fails: a stop is only cancelled by a   *)
(* process that will send one for the whole position, and a process that   *)
(* waits with what it read of a position finds it so or refused.           *)
THEOREM AlwaysCovered ==
  ASSUME Failures = {}, LevelsStand
  PROVE  Spec => []CoveredIntraday
<1>1. Sound /\ Beside => CoveredIntraday
  <2>. SUFFICES ASSUME Sound, Beside, clock # "night", Quiet, NEW s \in Symbols, Uncovered(s)
                PROVE  FALSE
    BY DEF CoveredIntraday
  <2>1. s \in Canary /\ ~Fine(s)
    BY StopSets DEF Uncovered, Sound, Typed, Fine
  <2>2. ~Awaited(s)
    BY TrailingStopsAssumption DEF Quiet, Awaited, Attends, Working, Main
  <2>. QED
    BY <2>1, <2>2 DEF Beside, Watched
<1>. QED
  BY <1>1, BesideAlways, PTL

(* OneStopPerSymbol of LiveCycle, likewise: the broker takes a stop for    *)
(* the whole position only where none stands.                              *)
THEOREM OneStopBesideTool ==
  ASSUME Failures = {}, LevelsStand
  PROVE  Spec => []OneStopPerSymbol
<1>1. Sound /\ Beside => OneStopPerSymbol
  <2>. SUFFICES ASSUME Sound, Beside, NEW s \in Symbols PROVE Cardinality(StopsOf(s)) <= 1
    BY DEF OneStopPerSymbol
  <2>1. CASE StopsOf(s) = {}
    BY <2>1, FS_EmptySet
  <2>2. ASSUME NEW o \in StopsOf(s) PROVE Cardinality(StopsOf(s)) <= 1
    <3>1. StopsOf(s) = {o}
      BY <2>2 DEF Beside, Single, StopsOf
    <3>2. Cardinality({o}) = 1
      BY FS_Singleton
    <3>. QED
      BY <3>1, <3>2
  <2>. QED
    BY <2>1, <2>2
<1>. QED
  BY <1>1, BesideAlways, PTL

(* NoSubmitOnEntryDay of LiveCycle, likewise: whatever a process is about  *)
(* to submit it read on a morning, before the orders of the day.           *)
THEOREM NoEntryDayBesideTool ==
  ASSUME Failures = {}, LevelsStand
  PROVE  Spec => NoSubmitOnEntryDay
<1>1. Sound /\ Beside /\ [Next]_vars =>
          [\A o \in stops' \ stops : boughtOn[o.sym] # day]_vars
  <2>. SUFFICES ASSUME Sound, Beside, [Next]_vars, NEW o \in stops' \ stops
                PROVE  boughtOn[o.sym] # day
    OBVIOUS
  <2>1. PICK p \in Procs : Accepts(cycle[p], cycle'[p])
    BY StopsChange
  <2>2. o.sym = cycle[p].cur /\ cycle[p].pc = "submit"
    BY <2>1 DEF Accepts, Submitted
  <2>3. cycle[p].cur \in Symbols /\ UpToDate(cycle[p], cycle[p].cur)
    BY <2>2, TrailingStopsAssumption DEF Beside, Careful
  <2>. QED
    BY <2>2, <2>3 DEF Beside, RoutedLate, UpToDate
<1>. QED
  BY <1>1, BesideAlways, PTL DEF Spec, NoSubmitOnEntryDay
-----------------------------------------------------------------------------
(* Where nothing fails, a symbol with a stop has one, for the whole of an  *)
(* older position.                                                         *)
Standing == {s \in Canary : StopsOf(s) # {}}

Accounted == UnderStops = Standing /\ Standing \subseteq Owned

(* Guarded are the canary positions for which a stop stands.               *)
LEMMA UnderStopsAre == Sound /\ Beside => Accounted
<1>. SUFFICES ASSUME Sound, Beside PROVE Accounted
  OBVIOUS
<1>1. ASSUME NEW s \in Canary, NEW o \in StopsOf(s)
      PROVE  UnderOneStop(s) /\ held[s].qty > 0
  <2>1. /\ StopsOf(s) = {o} /\ Covered(s) = o.qty /\ o.qty \in Nat /\ o.qty > 0 /\ o \in stops
        /\ held[s].qty \in Nat /\ Covered(s) <= held[s].qty
    BY <1>1, CoverOfOne, TrailingStopsAssumption
       DEF Sound, Typed, Beside, NeverOversold, StopsOf
  <2>2. held[s].qty > 0
    BY <2>1
  <2>3. o.qty = held[s].qty \/ boughtOn[s] = day
    BY <2>1, <2>2 DEF Beside, Watched, Fine
  <2>. QED
    BY <2>1, <2>2, <2>3 DEF UnderOneStop
<1>2. \A s \in Canary : UnderOneStop(s) => StopsOf(s) # {}
  BY DEF UnderOneStop
<1>. QED
  BY <1>1, <1>2 DEF Accounted, UnderStops, Standing, Owned

LEMMA UnderStopsNext == Sound' /\ Beside' => Accounted'
BY UnderStopsAre, PTL

(* Stops that fill take their positions with them.                         *)
LEMMA PromiseFilled ==
  ASSUME Sound, Beside, Sound', Beside',
         NEW filled \in SUBSET stops, stops' = stops \ filled, UNCHANGED <<day, boughtOn>>,
         \A s \in Symbols : \/ held'[s] = Less(held[s], Shares({o \in filled : o.sym = s}))
                            \/ held'[s] = held[s] /\ {o \in filled : o.sym = s} = {}
  PROVE  Promise!Filled
<1>0. /\ UnderStops = Standing /\ Standing \subseteq Owned
      /\ UnderStops' = Standing' /\ Standing' \subseteq Owned'
      /\ Typed /\ NeverOversold /\ Canary \subseteq Symbols
  BY UnderStopsAre, UnderStopsNext, TrailingStopsAssumption DEF Sound, Accounted
<1>1. BoughtToday' = BoughtToday
  BY DEF BoughtToday
<1>2. \A s \in Canary : /\ Fine(s) => Fine(s)'
                        /\ StopsOf(s) = {} => StopsOf(s)' = {} /\ held'[s].qty = held[s].qty
  <2>. SUFFICES ASSUME NEW s \in Canary
                PROVE  /\ Fine(s) => Fine(s)'
                       /\ StopsOf(s) = {} => StopsOf(s)' = {} /\ held'[s].qty = held[s].qty
    OBVIOUS
  <2>. QED
    BY <1>0, FillsCover
<1>3. Standing' \subseteq Standing
  BY <1>2 DEF Standing
<1>4. ASSUME NEW s \in Standing \ Standing', s \notin BoughtToday PROVE s \notin Owned'
  <2>1. s \in Canary /\ Fine(s) /\ StopsOf(s)' = {}
    BY <1>4 DEF Standing, Beside, Watched
  <2>2. Fine(s)' /\ boughtOn'[s] # day'
    BY <1>2, <1>4, <2>1 DEF BoughtToday
  <2>3. Covered(s)' = 0
    BY <2>1, SharesEmpty DEF Covered
  <2>. QED
    BY <2>2, <2>3 DEF Fine, Owned
<1>5. \A s \in Canary \ Standing : s \in Owned <=> s \in Owned'
  BY <1>2 DEF Standing, Owned
<1>6. Owned' \subseteq Owned /\ Owned \ Owned' \subseteq Standing \ Standing'
  <2>1. Owned \subseteq Canary /\ Owned' \subseteq Canary
    BY DEF Owned
  <2>. QED
    BY <1>0, <1>5, <2>1
<1>7. Owned' \cap (Standing \ Standing') \subseteq BoughtToday
  BY <1>4
<1>. QED
  BY <1>0, <1>1, <1>3, <1>6, <1>7 DEF Promise!Filled

LEMMA PromiseFill ==
  ASSUME Sound, Beside, Sound', Beside', NEW o \in stops, StopFill(o)
  PROVE  Promise!Fill
<1>1. /\ o.sym \in Symbols /\ held \in [Symbols -> Lot] /\ o.qty \in Nat
  BY DEF Sound, Typed, Accepted, Lot
<1>2. /\ stops' = stops \ {o} /\ held' = [held EXCEPT ![o.sym] = Less(@, o.qty)]
      /\ UNCHANGED <<day, boughtOn, clock>> /\ clock # "night"
  BY DEF StopFill
<1>3. ASSUME NEW s \in Symbols
      PROVE  \/ held'[s] = Less(held[s], Shares({x \in {o} : x.sym = s}))
             \/ held'[s] = held[s] /\ {x \in {o} : x.sym = s} = {}
  <2>1. CASE s = o.sym
    <3>1. {x \in {o} : x.sym = s} = {o}
      BY <2>1
    <3>2. held'[s] = Less(held[s], o.qty) /\ Shares({o}) = o.qty
      BY <1>1, <1>2, <2>1, SharesOne
    <3>. QED
      BY <3>1, <3>2, Zenon
  <2>2. CASE s # o.sym
    BY <1>1, <1>2, <2>2
  <2>. QED
    BY <2>1, <2>2
<1>4. {o} \in SUBSET stops
  OBVIOUS
<1>5. Promise!Filled
  BY <1>2, <1>3, <1>4, PromiseFilled
<1>. QED
  BY <1>2, <1>5 DEF Promise!Fill, DayPart

(* A move of the market: the next session opens, the first cycle of the    *)
(* day is over, or stops fill.                                             *)
LEMMA PromiseTick ==
  ASSUME Sound, Beside, Sound', Beside', Tick
  PROVE  Promise!Fill \/ Promise!Open \/ Promise!FirstCycleOver
<1>1. PICK px \in Closes :
          LET filled == {o \in stops : o.price >= px[o.sym]}
              sold(s) == Shares({o \in filled : o.sym = s})
          IN  /\ close' = px
              /\ stops' = stops \ filled
              /\ held' = [s \in Symbols |-> Less(held[s], sold(s))]
  BY DEF Tick, MarketMoves
<1>2. Promise!Filled
  <2>. DEFINE filled == {o \in stops : o.price >= px[o.sym]}
  <2>1. filled \in SUBSET stops /\ stops' = stops \ filled /\ UNCHANGED <<day, boughtOn>>
    BY <1>1 DEF Tick
  <2>2. \A s \in Symbols : held'[s] = Less(held[s], Shares({o \in filled : o.sym = s}))
    BY <1>1
  <2>. HIDE DEF filled
  <2>. QED
    BY <2>1, <2>2, PromiseFilled
<1>3. \/ clock = "night" /\ clock' = "0940"
      \/ clock = "0940" /\ clock' = "1230"
      \/ clock = "1230" /\ clock' = "1555"
  BY DEF Tick, Schedule
<1>4. ASSUME clock = "0940" PROVE Promise!Unguarded = {}
  <2>1. \A s \in Canary : ~Awaited(s)
    BY <1>4, TrailingStopsAssumption DEF Tick, Quiet, Awaited, Attends, Working, Main
  <2>2. \A s \in Canary : Fine(s)
    BY <2>1 DEF Beside, Watched
  <2>3. ASSUME NEW s \in Owned, s \notin BoughtToday PROVE s \in Standing
    <3>1. s \in Canary /\ Covered(s) # 0
      BY <2>2, <2>3 DEF Owned, BoughtToday, Fine
    <3>. QED
      BY <3>1, SharesEmpty DEF Standing, Covered
  <2>. QED
    BY <2>3, UnderStopsAre DEF Promise!Unguarded, Accounted
<1>. QED
  BY <1>2, <1>3, <1>4 DEF Promise!Fill, Promise!Open, Promise!FirstCycleOver, DayPart

(* At the close every stop expires.                                        *)
LEMMA PromiseClose ==
  ASSUME Sound, Beside, Sound', Beside', CloseOfDay
  PROVE  Promise!Close
<1>1. /\ clock = "1555" /\ clock' = "night" /\ stops' = {} /\ day' = day + 1
      /\ UNCHANGED <<held, boughtOn>>
  BY DEF CloseOfDay
<1>2. UnderStops' = {}
  BY <1>1 DEF UnderStops, UnderOneStop
<1>3. BoughtToday' = {}
  BY <1>1 DEF Beside, RoutedLate, BoughtToday
<1>4. Owned' = Owned
  BY <1>1 DEF Owned
<1>. QED
  BY <1>1, <1>2, <1>3, <1>4 DEF Promise!Close, DayPart

(* A step of a stop manager leaves the orders, or it is early in the day,  *)
(* and it sends or withdraws one for one symbol.                           *)
LEMMA PromiseManage ==
  ASSUME Failures = {}, LevelsStand, Sound, Beside, Unfailed, Sound', Beside', Unfailed',
         NEW p \in Procs, ManageStep(p), UNCHANGED liveVars
  PROVE  \/ UNCHANGED <<DayPart, Owned, BoughtToday, UnderStops>>
         \/ \E s \in Canary : Promise!Send(s) \/ Promise!Withdraw(s)
<1>. DEFINE c == cycle[p]
            d == cycle'[p]
<1>0. /\ Typed /\ c \in Cycle /\ AboutToSubmit(c) /\ Canary \subseteq Symbols
      /\ UNCHANGED <<day, held, clock, boughtOn>>
  BY StepType, TrailingStopsAssumption DEF Sound, Typed, envVars, liveVars
<1>1. Handles(c, d) /\ ~FirstFault
  <2>1. c.pc \in Working => c.close \in Closes
    BY DEF Beside, Careful
  <2>. QED
    BY <2>1, HandlesStep DEF OneFailure, FirstFault, Unfailed
<1>2. DayPart' = DayPart /\ Owned' = Owned /\ BoughtToday' = BoughtToday
  BY <1>0 DEF DayPart, Owned, BoughtToday
<1>3. /\ UnderStops = Standing /\ Standing \subseteq Owned
      /\ UnderStops' = Standing' /\ Standing' \subseteq Owned'
  BY UnderStopsAre, UnderStopsNext DEF Accounted
<1>4. CASE UNCHANGED stops
  <2>1. Standing' = Standing
    BY <1>4 DEF Standing, StopsOf
  <2>. QED
    BY <1>2, <1>3, <2>1
<1>5. ASSUME NEW u \in Canary, UpToDate(c, u),
             \A x \in Canary : x # u => StopsOf(x)' = StopsOf(x)
      PROVE  \/ UNCHANGED <<DayPart, Owned, BoughtToday, UnderStops>>
             \/ Promise!Send(u) \/ Promise!Withdraw(u)
  <2>1. DayPart # "session" /\ u \notin BoughtToday
    BY <1>0, <1>5 DEF UpToDate, DayPart, BoughtToday, Beside, RoutedLate
  <2>2. \A x \in Canary : x # u => (x \in Standing <=> x \in Standing')
    BY <1>5 DEF Standing
  <2>3. Standing \subseteq Canary /\ Standing' \subseteq Canary
    BY DEF Standing
  <2>4. CASE u \in Standing <=> u \in Standing'
    <3>1. Standing' = Standing
      BY <2>2, <2>3, <2>4
    <3>. QED
      BY <1>2, <1>3, <3>1
  <2>5. CASE u \in Standing /\ u \notin Standing'
    <3>1. Standing' = Standing \ {u}
      BY <2>2, <2>3, <2>5
    <3>. QED
      BY <1>2, <1>3, <2>1, <2>5, <3>1 DEF Promise!Withdraw
  <2>6. CASE u \notin Standing /\ u \in Standing'
    <3>1. Standing' = Standing \cup {u}
      BY <2>2, <2>3, <2>6
    <3>2. u \in Promise!Unguarded
      BY <1>2, <1>3, <2>1, <2>6 DEF Promise!Unguarded
    <3>. QED
      BY <1>2, <1>3, <2>1, <3>1, <3>2 DEF Promise!Send
  <2>. QED
    BY <2>4, <2>5, <2>6
<1>6. CASE Cancels(c, d)
  <2>1. PICK u \in Canary : u = c.cur /\ UpToDate(c, u)
    BY <1>6 DEF Cancels, Beside, Careful
  <2>2. stops' = {o \in stops : o.id # c.standing[u].id}
    BY <1>6, <2>1 DEF Cancels, Cancel
  <2>3. \A o \in stops : o.id = c.standing[u].id => o.sym = u
    BY <1>0 DEF Beside, OwnOrders
  <2>4. \A x \in Canary : x # u => StopsOf(x)' = StopsOf(x)
    BY <2>2, <2>3 DEF StopsOf
  <2>. QED
    BY <1>5, <2>1, <2>4
<1>7. CASE Accepts(c, d)
  <2>1. PICK u \in Canary : u = c.cur /\ UpToDate(c, u)
    BY <1>7 DEF Accepts, Beside, Careful
  <2>. DEFINE new == Submitted(c)
  <2>2. stops' = stops \cup {new} /\ new.sym = u
    BY <1>7, <2>1 DEF Accepts, Submitted
  <2>. HIDE DEF new
  <2>3. \A x \in Canary : x # u => StopsOf(x)' = StopsOf(x)
    BY <2>2 DEF StopsOf
  <2>. QED
    BY <1>5, <2>1, <2>3
<1>. QED
  BY <1>1, <1>4, <1>6, <1>7 DEF Handles, GivesUp, Refuses, orderVars

(* Routing buys, or sells what was bought that day: an older position has  *)
(* no share that is not under its stop.                                    *)
LEMMA PromiseRoute ==
  ASSUME Sound, Beside, Sound', Beside', NEW s \in Symbols, RouteOrder(s)
  PROVE  \/ UNCHANGED <<DayPart, Owned, BoughtToday, UnderStops>>
         \/ \E x \in Canary : Promise!Buy(x) \/ Promise!Sell(x)
<1>0. /\ Typed /\ held \in [Symbols -> Lot] /\ boughtOn \in [Symbols -> Int]
      /\ Canary \subseteq Symbols /\ Covered(s) \in Nat /\ Covered(s) <= held[s].qty
  BY StopSets, TrailingStopsAssumption DEF Sound, Typed, Lot, NeverOversold
<1>1. /\ clock = "1555" /\ UNCHANGED <<day, clock, stops>>
      /\ held' \in [Symbols -> Lot] /\ \A x \in Symbols : x # s => held'[x] = held[x]
      /\ Covered(s) <= held'[s].qty
  BY RouteEffect DEF Beside, RoutedLate, orderVars
<1>2. DayPart' = DayPart /\ DayPart = "session"
  BY <1>1 DEF DayPart
<1>3. UnderStops' = UnderStops /\ UnderStops = Standing
  <2>1. Standing' = Standing
    BY <1>1 DEF Standing, StopsOf
  <2>. QED
    BY <2>1, UnderStopsAre, UnderStopsNext DEF Accounted
<1>4. CASE s \notin Canary
  <2>1. \A x \in Canary : x # s
    BY <1>4
  <2>2. Owned' = Owned
    BY <1>0, <1>1, <2>1 DEF Owned
  <2>3. BoughtToday' = BoughtToday
    BY <1>0, <1>1, <2>1, RouteEffect DEF BoughtToday
  <2>. QED
    BY <1>2, <1>3, <2>2, <2>3
<1>5. CASE s \in Canary /\ RouteBuy(s)
  <2>1. /\ \E n \in 1..(MaxQty - held[s].qty) :
              held' = [held EXCEPT ![s] =
                  [qty   |-> @.qty + n,
                   entry |-> (@.qty * @.entry + n * close[s]) \div (@.qty + n)]]
        /\ boughtOn' = [boughtOn EXCEPT ![s] = day]
    BY <1>5 DEF RouteBuy
  <2>2. held'[s].qty > 0
    <3>1. PICK n \in 1..(MaxQty - held[s].qty) : held'[s].qty = held[s].qty + n
      BY <1>0, <2>1
    <3>2. held[s].qty \in Nat /\ MaxQty \in Nat
      BY <1>0, TrailingStopsAssumption DEF Lot
    <3>. QED
      BY <3>1, <3>2
  <2>3. Owned' = Owned \cup {s}
    BY <1>0, <1>1, <1>5, <2>2 DEF Owned
  <2>4. BoughtToday' = BoughtToday \cup {s}
    BY <1>0, <1>1, <1>5, <2>1 DEF BoughtToday
  <2>5. Promise!Buy(s)
    BY <1>2, <1>3, <2>3, <2>4 DEF Promise!Buy
  <2>. QED
    BY <1>5, <2>5
<1>6. CASE s \in Canary /\ (RouteNothing(s) \/ RouteTrim(s) \/ RouteExit(s))
  <2>1. UNCHANGED boughtOn
    BY <1>6 DEF RouteNothing, RouteTrim, RouteExit
  <2>2. BoughtToday' = BoughtToday
    BY <1>1, <2>1 DEF BoughtToday
  <2>3. held[s].qty = 0 => held'[s].qty = 0
    <3>1. CASE RouteNothing(s)
      BY <3>1 DEF RouteNothing, envVars
    <3>2. CASE RouteTrim(s)
      <4>1. PICK n \in 1..MaxQty : n <= Available(s)
        BY <3>2 DEF RouteTrim
      <4>2. held[s].qty \in Nat
        BY <1>0 DEF Lot
      <4>. QED
        BY <1>0, <4>1, <4>2 DEF Available
    <3>3. CASE RouteExit(s)
      BY <3>3 DEF RouteExit
    <3>. QED
      BY <1>6, <3>1, <3>2, <3>3
  <2>4. CASE s \in Owned <=> s \in Owned'
    <3>1. Owned' = Owned
      BY <1>0, <1>1, <2>4 DEF Owned
    <3>. QED
      BY <1>2, <1>3, <2>2, <3>1
  <2>5. CASE s \in Owned /\ s \notin Owned'
    <3>1. Owned' = Owned \ {s}
      BY <1>0, <1>1, <2>5 DEF Owned
    <3>2. held[s].qty > 0 /\ held[s].qty \in Nat /\ held'[s].qty = 0
      BY <1>0, <1>1, <1>6, <2>5 DEF Owned, Lot
    <3>3. Covered(s) = 0
      BY <1>0, <1>1, <3>2
    <3>4. s \notin Standing
      <4>1. \A o \in StopsOf(s) : Covered(s) = o.qty /\ o.qty > 0
        BY <1>0, CoverOfOne DEF Beside
      <4>. QED
        BY <3>3, <4>1 DEF Standing
    <3>5. s \in BoughtToday
      <4>1. Fine(s)
        BY <1>1, <1>6 DEF Beside, Watched, Awaited
      <4>. QED
        BY <1>6, <3>2, <3>3, <4>1 DEF Fine, BoughtToday
    <3>6. Promise!Sell(s)
      BY <1>2, <1>3, <2>2, <2>5, <3>1, <3>4, <3>5 DEF Promise!Sell
    <3>. QED
      BY <1>6, <3>6
  <2>6. s \in Owned' => s \in Owned
    <3>1. held[s].qty \in Nat /\ held'[s].qty \in Nat
      BY <1>0, <1>1 DEF Lot
    <3>. QED
      BY <1>6, <2>3, <3>1 DEF Owned
  <2>. QED
    BY <2>4, <2>5, <2>6
<1>. QED
  BY <1>4, <1>5, <1>6 DEF RouteOrder

(* Every step of the trading day is one of the promise, or leaves it       *)
(* alone.                                                                  *)
LEMMA PromiseStep ==
  ASSUME Failures = {}, LevelsStand, Sound, Beside, Unfailed, Sound', Beside', Unfailed', [Next]_vars
  PROVE  [Promise!Next]_(Promise!vars)
<1>1. ASSUME UNCHANGED <<DayPart, Owned, BoughtToday, UnderStops>>
      PROVE  [Promise!Next]_(Promise!vars)
  BY <1>1 DEF Promise!vars
<1>2. ASSUME UNCHANGED <<day, held, stops, clock, boughtOn>>
      PROVE  [Promise!Next]_(Promise!vars)
  <2>1. UNCHANGED <<DayPart, Owned, BoughtToday, UnderStops>>
    BY <1>2 DEF DayPart, Owned, BoughtToday, UnderStops, UnderOneStop, StopsOf
  <2>. QED
    BY <1>1, <2>1
<1>3. CASE Tick
  BY <1>3, PromiseTick DEF Promise!Next
<1>4. CASE CloseOfDay
  BY <1>4, PromiseClose DEF Promise!Next
<1>5. ASSUME NEW o \in stops, StopFill(o) PROVE [Promise!Next]_(Promise!vars)
  BY <1>5, PromiseFill DEF Promise!Next
<1>6. ASSUME NEW s \in Symbols, RouteOrder(s) PROVE [Promise!Next]_(Promise!vars)
  BY <1>1, <1>6, PromiseRoute DEF Promise!Next
<1>7. CASE Manage
  BY <1>1, <1>7, PromiseManage DEF Promise!Next, Manage
<1>8. CASE PhantomCycle \/ LiveCycle \/ ManageFresh \/ ModelUpdate \/ RunTool \/ UNCHANGED vars
  <2>1. UNCHANGED <<day, held, stops, clock, boughtOn>>
    BY <1>8 DEF PhantomCycle, LiveCycle, ManageFresh, ModelUpdate, RunTool, vars, envVars, orderVars,
                liveVars
  <2>. QED
    BY <1>2, <2>1
<1>9. ~CycleFails
  BY DEF CycleFails, Fault
<1>. QED
  BY <1>3, <1>4, <1>5, <1>6, <1>7, <1>8, <1>9 DEF Next

LEMMA PromiseInit == Init => Promise!Init
BY TrailingStopsAssumption
   DEF Init, Promise!Init, DayPart, Owned, BoughtToday, UnderStops, UnderOneStop, NoDate

(* LiveCycle implements StopPromise, step by step, with any number of      *)
(* processes at work on the stops, as long as nothing fails and at prices  *)
(* where every level is one the broker takes (manage_cycle of the trading  *)
(* process and of the trigger_stops tool).                                 *)
THEOREM ImplementsPromise ==
  ASSUME Failures = {}, LevelsStand
  PROVE  Spec => KeepsPromise
<1>1. Sound /\ Beside /\ Unfailed /\ Sound' /\ Beside' /\ Unfailed' /\ [Next]_vars =>
          [Promise!Next]_(Promise!vars)
  BY PromiseStep
<1>2. Sound /\ Unfailed /\ [Next]_vars => Unfailed'
  BY UnfailedStep
<1>3. Init => Unfailed
  BY DEF Init, Unfailed
<1>. QED
  BY <1>1, <1>2, <1>3, PromiseInit, BesideAlways, PTL DEF Spec, Promise!Spec, KeepsPromise
=============================================================================
