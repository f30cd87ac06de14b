--------------------------- MODULE Rebalance_proofs ---------------------------
(***************************************************************************)
(* Targets and the rebalancing towards them, for any number of symbols,    *)
(* any edges, precisions and settings, and any history of failed calls,    *)
(* stop fills, crashes and moves of the market.                            *)
(***************************************************************************)
EXTENDS Rebalance, FiniteSetTheorems, WellFoundedInduction, TLAPS
(* The sum over a finite set does not depend on the order in which the     *)
(* fold of MapThenSumSet takes the elements.                               *)
Pick(T) == CHOOSE x \in T : TRUE

IsTotal(g, v, S) ==
    g = [T \in SUBSET S |-> IF T = {} THEN 0 ELSE v[Pick(T)] + g[T \ {Pick(T)}]]

SumOf(v, S) == (CHOOSE g : IsTotal(g, v, S))[S]

Naturals(v, S) == \A s \in S : v[s] \in Nat

(* Of the finite sets with some property, one has the fewest elements.     *)
LEMMA SmallestSet ==
  ASSUME NEW C, C # {}, \A T \in C : IsFiniteSet(T)
  PROVE  \E T \in C : \A U \in C : Cardinality(T) <= Cardinality(U)
<1>. DEFINE Sizes == {Cardinality(T) : T \in C}
<1>1. Sizes \subseteq Nat /\ Sizes # {}
  BY FS_CardinalityType
<1>2. PICK n \in Sizes : \A m \in Sizes : ~(<<m, n>> \in OpToRel(<, Nat))
  BY <1>1, WFMin, NatLessThanWellFounded
<1>3. n \in Nat /\ \A m \in Sizes : m \in Nat /\ ~(m < n)
  BY <1>1, <1>2 DEF OpToRel
<1>4. PICK T \in C : n = Cardinality(T)
  BY <1>2
<1>5. \A U \in C : Cardinality(U) \in Sizes
  OBVIOUS
<1>. HIDE DEF Sizes
<1>6. \A m \in Sizes : n <= m
  BY <1>3
<1>. QED
  BY <1>4, <1>5, <1>6

(* What is left of a set without the element picked is smaller.            *)
LEMMA PickSmaller ==
  ASSUME NEW T, IsFiniteSet(T), T # {}
  PROVE  /\ Pick(T) \in T
         /\ IsFiniteSet(T \ {Pick(T)})
         /\ Cardinality(T \ {Pick(T)}) < Cardinality(T)
<1>1. Pick(T) \in T
  BY DEF Pick
<1>2. Cardinality(T) \in Nat
  BY FS_CardinalityType
<1>3. /\ IsFiniteSet(T \ {Pick(T)})
      /\ Cardinality(T \ {Pick(T)}) = Cardinality(T) - 1
  BY <1>1, FS_RemoveElement
<1>. QED
  BY <1>1, <1>2, <1>3

(* Such a sum exists: the sets below a smallest one without it have one.   *)
LEMMA TotalExists ==
  ASSUME NEW v, NEW S, IsFiniteSet(S)
  PROVE  \E g : IsTotal(g, v, S)
<1>. DEFINE UpTo(n) == {T \in SUBSET S : Cardinality(T) <= n}
           Sum(g, T) == IF T = {} THEN 0 ELSE v[Pick(T)] + g[T \ {Pick(T)}]
           Partial(g, n) == g = [T \in UpTo(n) |-> Sum(g, T)]
           Bad == {n \in Nat : \A g : ~Partial(g, n)}
<1>0. \A T \in SUBSET S : IsFiniteSet(T) /\ Cardinality(T) \in Nat
  BY FS_Subset, FS_CardinalityType
<1>1. ASSUME NEW n \in Bad PROVE \E m \in Bad : m < n
  <2>1. CASE n = 0
    <3>. DEFINE z == [T \in UpTo(0) |-> 0]
    <3>1. \A T \in UpTo(0) : T = {}
      BY <1>0, FS_EmptySet
    <3>2. Partial(z, 0)
      BY <3>1
    <3>. QED
      BY <2>1, <3>2
  <2>2. CASE n # 0
    <3>1. n \in Nat /\ n - 1 \in Nat /\ n - 1 < n
      BY <2>2
    <3>. SUFFICES ASSUME n - 1 \notin Bad PROVE FALSE
      BY <3>1, Zenon
    <3>2. PICK g : Partial(g, n - 1)
      BY <3>1
    <3>. DEFINE h == [T \in UpTo(n) |-> Sum(g, T)]
    <3>3. \A T \in UpTo(n) : T # {} => T \ {Pick(T)} \in UpTo(n - 1)
      BY <1>0, PickSmaller
    <3>4. \A T \in UpTo(n - 1) : T \in UpTo(n) /\ h[T] = g[T]
      <4>1. \A T \in UpTo(n - 1) : T \in UpTo(n)
        BY <1>0
      <4>2. \A T \in UpTo(n - 1) : g[T] = Sum(g, T)
        BY <3>2
      <4>. QED
        BY <4>1, <4>2
    <3>5. \A T \in UpTo(n) : Sum(g, T) = Sum(h, T)
      BY <3>3, <3>4
    <3>6. Partial(h, n)
      BY <3>5
    <3>. QED
      BY <3>6
  <2>. QED
    BY <2>1, <2>2
<1>2. Bad = {}
  <2>. SUFFICES ASSUME Bad # {} PROVE FALSE
    OBVIOUS
  <2>1. PICK n \in Bad : \A m \in Bad : ~(<<m, n>> \in OpToRel(<, Nat))
    BY WFMin, NatLessThanWellFounded
  <2>2. PICK m \in Bad : m < n
    BY <1>1
  <2>3. m \in Nat /\ n \in Nat
    OBVIOUS
  <2>. QED
    BY <2>1, <2>2, <2>3 DEF OpToRel
<1>3. PICK g : Partial(g, Cardinality(S))
  <2>1. Cardinality(S) \in Nat /\ Cardinality(S) \notin Bad
    BY <1>0, <1>2
  <2>. QED
    BY <2>1
<1>4. UpTo(Cardinality(S)) = SUBSET S
  BY FS_Subset
<1>. QED
  BY <1>3, <1>4 DEF IsTotal

(* Whatever set it was built for, a total says the same of a subset.       *)
LEMMA TotalUnique ==
  ASSUME NEW v, NEW S, NEW R, NEW g, NEW h, IsTotal(g, v, S), IsTotal(h, v, R),
         IsFiniteSet(S)
  PROVE  \A T \in SUBSET S : T \in SUBSET R => g[T] = h[T]
<1>. DEFINE C == {T \in SUBSET S : T \in SUBSET R /\ g[T] # h[T]}
<1>. SUFFICES ASSUME C # {} PROVE FALSE
  OBVIOUS
<1>0. \A T \in C : IsFiniteSet(T)
  BY FS_Subset
<1>1. PICK T \in C : \A U \in C : Cardinality(T) <= Cardinality(U)
  BY <1>0, SmallestSet
<1>2. T # {}
  BY DEF IsTotal
<1>3. T \ {Pick(T)} \notin C
  BY <1>0, <1>1, <1>2, PickSmaller, FS_CardinalityType
<1>4. g[T \ {Pick(T)}] = h[T \ {Pick(T)}]
  BY <1>3
<1>5. g[T] = v[Pick(T)] + g[T \ {Pick(T)}] /\ h[T] = v[Pick(T)] + h[T \ {Pick(T)}]
  BY <1>2 DEF IsTotal
<1>. QED
  BY <1>4, <1>5

(* The sum of a set by the element the fold picks.                         *)
LEMMA SumStep ==
  ASSUME NEW v, NEW S, IsFiniteSet(S)
  PROVE  /\ SumOf(v, {}) = 0
         /\ S # {} => SumOf(v, S) = v[Pick(S)] + SumOf(v, S \ {Pick(S)})
<1>. DEFINE Total(T) == CHOOSE g : IsTotal(g, v, T)
<1>1. \A T : IsFiniteSet(T) => IsTotal(Total(T), v, T) /\ SumOf(v, T) = Total(T)[T]
  BY TotalExists DEF SumOf
<1>. HIDE DEF Total
<1>2. SumOf(v, {}) = 0
  BY <1>1, FS_EmptySet DEF IsTotal
<1>3. ASSUME S # {} PROVE SumOf(v, S) = v[Pick(S)] + SumOf(v, S \ {Pick(S)})
  <2>. DEFINE U == S \ {Pick(S)}
  <2>1. IsFiniteSet(U) /\ U \in SUBSET S
    BY <1>3, PickSmaller
  <2>2. SumOf(v, S) = v[Pick(S)] + Total(S)[U]
    BY <1>1, <1>3, <2>1 DEF IsTotal
  <2>3. Total(S)[U] = Total(U)[U]
    BY <1>1, <2>1, TotalUnique
  <2>. QED
    BY <1>1, <2>1, <2>2, <2>3
<1>. QED
  BY <1>2, <1>3

LEMMA SumEmpty == \A v : SumOf(v, {}) = 0
BY SumStep, FS_EmptySet

(* A set without one of its elements has one element less.                 *)
LEMMA RemoveSmaller ==
  ASSUME NEW T, IsFiniteSet(T), NEW x \in T
  PROVE  /\ IsFiniteSet(T \ {x})
         /\ Cardinality(T) \in Nat /\ Cardinality(T \ {x}) \in Nat
         /\ ~(Cardinality(T) <= Cardinality(T \ {x}))
<1>1. /\ IsFiniteSet(T \ {x}) /\ Cardinality(T \ {x}) = Cardinality(T) - 1
      /\ Cardinality(T) \in Nat /\ Cardinality(T \ {x}) \in Nat
  BY FS_RemoveElement, FS_CardinalityType
<1>. QED
  BY <1>1

(* A sum of natural numbers is one.                                        *)
LEMMA SumType ==
  ASSUME NEW v, NEW S, IsFiniteSet(S), Naturals(v, S)
  PROVE  SumOf(v, S) \in Nat
<1>. DEFINE C == {T \in SUBSET S : SumOf(v, T) \notin Nat}
<1>. SUFFICES ASSUME C # {} PROVE FALSE
  OBVIOUS
<1>0. \A T \in C : IsFiniteSet(T)
  BY FS_Subset
<1>1. PICK T \in C : \A U \in C : Cardinality(T) <= Cardinality(U)
  BY <1>0, SmallestSet
<1>2. T # {}
  BY <1>1, SumEmpty
<1>3. T \ {Pick(T)} \notin C
  BY <1>0, <1>1, <1>2, PickSmaller, FS_CardinalityType
<1>4. v[Pick(T)] \in Nat
  BY <1>0, <1>2, PickSmaller DEF Naturals
<1>5. SumOf(v, T \ {Pick(T)}) \in Nat
  BY <1>3
<1>. QED
  BY <1>0, <1>2, <1>4, <1>5, SumStep

(* Any element may be taken out first.                                     *)
LEMMA SumRemove ==
  ASSUME NEW v, NEW S, IsFiniteSet(S), Naturals(v, S), NEW x \in S
  PROVE  SumOf(v, S) = v[x] + SumOf(v, S \ {x})
<1>. DEFINE C == {T \in SUBSET S : \E y \in T : SumOf(v, T) # v[y] + SumOf(v, T \ {y})}
<1>. SUFFICES ASSUME C # {} PROVE FALSE
  OBVIOUS
<1>0. \A T \in SUBSET S : IsFiniteSet(T) /\ Naturals(v, T) /\ SumOf(v, T) \in Nat
  BY FS_Subset, SumType DEF Naturals
<1>1. PICK T \in C : \A U \in C : Cardinality(T) <= Cardinality(U)
  BY <1>0, SmallestSet
<1>2. PICK y \in T : SumOf(v, T) # v[y] + SumOf(v, T \ {y})
  BY <1>1
<1>. DEFINE p == Pick(T)
           A == T \ {p}
           B == T \ {y}
           D == (T \ {p}) \ {y}
<1>3. /\ p \in T /\ IsFiniteSet(T) /\ A \in SUBSET S /\ B \in SUBSET S /\ D \in SUBSET S
      /\ v[p] \in Nat /\ v[y] \in Nat
  <2>1. T \in SUBSET S /\ IsFiniteSet(T) /\ Naturals(v, T) /\ T # {}
    BY <1>0, <1>1, <1>2
  <2>2. p \in T
    BY <2>1, PickSmaller
  <2>. QED
    BY <1>2, <2>1, <2>2 DEF Naturals
<1>4. p # y
  BY <1>0, <1>1, <1>2, SumStep
<1>6. A \notin C /\ B \notin C
  <2>1. ~(Cardinality(T) <= Cardinality(A)) /\ ~(Cardinality(T) <= Cardinality(B))
    BY <1>2, <1>3, RemoveSmaller
  <2>. QED
    BY <1>1, <2>1
<1>7. SumOf(v, T) = v[p] + SumOf(v, A)
  BY <1>2, <1>3, SumStep
<1>8. SumOf(v, A) = v[y] + SumOf(v, D)
  BY <1>2, <1>3, <1>4, <1>6
<1>9. SumOf(v, B) = v[p] + SumOf(v, D)
  <2>1. B \ {p} = D
    OBVIOUS
  <2>. QED
    BY <1>3, <1>4, <1>6, <2>1
<1>10. SumOf(v, D) \in Nat /\ SumOf(v, A) \in Nat /\ SumOf(v, B) \in Nat
  BY <1>0, <1>3
<1>. HIDE DEF A, B, D, p
<1>11. SumOf(v, T) = v[y] + SumOf(v, B)
  BY <1>3, <1>7, <1>8, <1>9, <1>10
<1>. QED
  BY <1>2, <1>11 DEF B

(* Adding an element adds its value.                                       *)
LEMMA SumAdd ==
  ASSUME NEW v, NEW S, IsFiniteSet(S), Naturals(v, S), NEW x, x \notin S, v[x] \in Nat
  PROVE  SumOf(v, S \cup {x}) = SumOf(v, S) + v[x]
<1>1. /\ IsFiniteSet(S \cup {x}) /\ Naturals(v, S \cup {x})
      /\ (S \cup {x}) \ {x} = S /\ x \in S \cup {x}
  BY FS_AddElement DEF Naturals
<1>2. SumOf(v, S) \in Nat
  BY SumType
<1>. DEFINE U == S \cup {x}
<1>3. SumOf(v, U) = v[x] + SumOf(v, S)
  <2>1. U \ {x} = S
    BY <1>1
  <2>2. SumOf(v, U) = v[x] + SumOf(v, U \ {x})
    BY <1>1, SumRemove
  <2>. QED
    BY <2>1, <2>2, Zenon
<1>. HIDE DEF U
<1>4. SumOf(v, U) = SumOf(v, S) + v[x]
  BY <1>2, <1>3
<1>. QED
  BY <1>4 DEF U

(* A part of the set and the rest add up to the whole.                     *)
LEMMA SumSplit ==
  ASSUME NEW v, NEW S, IsFiniteSet(S), Naturals(v, S), NEW R \in SUBSET S
  PROVE  SumOf(v, S) = SumOf(v, R) + SumOf(v, S \ R)
<1>. DEFINE C == {T \in SUBSET R : SumOf(v, S) # SumOf(v, T) + SumOf(v, S \ T)}
<1>. SUFFICES ASSUME C # {} PROVE FALSE
  OBVIOUS
<1>0. \A T \in SUBSET S : IsFiniteSet(T) /\ Naturals(v, T) /\ SumOf(v, T) \in Nat
  BY FS_Subset, SumType DEF Naturals
<1>1. PICK T \in C : \A U \in C : Cardinality(T) <= Cardinality(U)
  <2>1. \A T \in C : IsFiniteSet(T)
    BY <1>0
  <2>. QED
    BY <2>1, SmallestSet
<1>2. T # {}
  <2>1. S \ {} = S /\ SumOf(v, {}) = 0 /\ SumOf(v, S) \in Nat
    BY <1>0, SumEmpty
  <2>2. SumOf(v, S) = SumOf(v, {}) + SumOf(v, S)
    BY <2>1
  <2>3. SumOf(v, S) = SumOf(v, {}) + SumOf(v, S \ {})
    BY <2>1, <2>2
  <2>. QED
    BY <1>1, <2>3
<1>3. PICK x \in T : TRUE
  BY <1>2
<1>. DEFINE U == T \ {x}
<1>4. /\ T \in SUBSET S /\ U \in SUBSET R /\ U \in SUBSET S /\ x \in S
      /\ S \ T \in SUBSET S /\ S \ U = (S \ T) \cup {x} /\ x \notin S \ T
      /\ v[x] \in Nat
  BY <1>1, <1>3 DEF Naturals
<1>5. U \notin C
  <2>1. ~(Cardinality(T) <= Cardinality(U))
    BY <1>0, <1>3, <1>4, RemoveSmaller
  <2>. QED
    BY <1>1, <2>1
<1>6. SumOf(v, S) = SumOf(v, U) + SumOf(v, S \ U)
  BY <1>4, <1>5
<1>7. SumOf(v, T) = v[x] + SumOf(v, U)
  BY <1>0, <1>3, <1>4, SumRemove
<1>8. SumOf(v, S \ U) = SumOf(v, S \ T) + v[x]
  BY <1>0, <1>4, SumAdd
<1>9. SumOf(v, U) \in Nat /\ SumOf(v, S \ T) \in Nat
  BY <1>0, <1>4
<1>. HIDE DEF U
<1>10. SumOf(v, S) = SumOf(v, T) + SumOf(v, S \ T)
  BY <1>4, <1>6, <1>7, <1>8, <1>9
<1>. QED
  BY <1>1, <1>10

(* A linear bound that holds of every element holds of the sums.           *)
LEMMA SumBound ==
  ASSUME NEW S, IsFiniteSet(S), NEW v, NEW w, Naturals(v, S), Naturals(w, S),
         NEW a \in Nat, NEW b \in Nat, NEW c \in Nat, NEW d \in Nat,
         \A s \in S : a * v[s] + c <= b * w[s] + d
  PROVE  a * SumOf(v, S) + c * Cardinality(S) <= b * SumOf(w, S) + d * Cardinality(S)
<1>. DEFINE Holds(T) == a * SumOf(v, T) + c * Cardinality(T)
                            <= b * SumOf(w, T) + d * Cardinality(T)
            C == {T \in SUBSET S : ~Holds(T)}
<1>. SUFFICES ASSUME C # {} PROVE FALSE
  OBVIOUS
<1>0. \A T \in SUBSET S : /\ IsFiniteSet(T) /\ Cardinality(T) \in Nat
                          /\ Naturals(v, T) /\ Naturals(w, T)
                          /\ SumOf(v, T) \in Nat /\ SumOf(w, T) \in Nat
  BY FS_Subset, FS_CardinalityType, SumType DEF Naturals
<1>1. PICK T \in C : \A U \in C : Cardinality(T) <= Cardinality(U)
  <2>1. \A T \in C : IsFiniteSet(T)
    BY <1>0
  <2>. QED
    BY <2>1, SmallestSet
<1>2. T # {}
  <2>1. Holds({})
    <3>1. SumOf(v, {}) = 0 /\ SumOf(w, {}) = 0 /\ Cardinality({}) = 0
      BY SumEmpty, FS_EmptySet
    <3>2. a * 0 = 0 /\ c * 0 = 0 /\ b * 0 = 0 /\ d * 0 = 0
      OBVIOUS
    <3>. QED
      BY <3>1, <3>2
  <2>. HIDE DEF Holds
  <2>. QED
    BY <1>1, <2>1
<1>3. PICK x \in T : TRUE
  BY <1>2
<1>. DEFINE U == T \ {x}
<1>4. /\ T \in SUBSET S /\ U \in SUBSET S /\ x \in S
      /\ v[x] \in Nat /\ w[x] \in Nat /\ IsFiniteSet(T)
  BY <1>0, <1>1, <1>3 DEF Naturals
<1>5. U \notin C
  <2>1. ~(Cardinality(T) <= Cardinality(U))
    BY <1>3, <1>4, RemoveSmaller
  <2>. QED
    BY <1>1, <2>1
<1>6. SumOf(v, T) = v[x] + SumOf(v, U) /\ SumOf(w, T) = w[x] + SumOf(w, U)
  BY <1>0, <1>3, <1>4, SumRemove
<1>7. Cardinality(T) = Cardinality(U) + 1 /\ Cardinality(U) \in Nat
  BY <1>0, <1>3, <1>4, FS_RemoveElement
<1>8. a * SumOf(v, U) + c * Cardinality(U) <= b * SumOf(w, U) + d * Cardinality(U)
  BY <1>4, <1>5
<1>. DEFINE sv == SumOf(v, U)
            sw == SumOf(w, U)
            n == Cardinality(U)
            vx == v[x]
            wx == w[x]
<1>9. /\ sv \in Nat /\ sw \in Nat /\ n \in Nat /\ vx \in Nat /\ wx \in Nat
      /\ a * vx + c <= b * wx + d
      /\ a * sv + c * n <= b * sw + d * n
      /\ SumOf(v, T) = vx + sv /\ SumOf(w, T) = wx + sw /\ Cardinality(T) = n + 1
  BY <1>0, <1>4, <1>6, <1>7, <1>8
<1>. HIDE DEF sv, sw, n, vx, wx
<1>10. /\ a * (vx + sv) = a * vx + a * sv /\ b * (wx + sw) = b * wx + b * sw
       /\ c * (n + 1) = c * n + c /\ d * (n + 1) = d * n + d
       /\ a * vx \in Int /\ a * sv \in Int /\ b * wx \in Int /\ b * sw \in Int
       /\ c * n \in Int /\ d * n \in Int
  BY <1>9
<1>11. a * (vx + sv) + c * (n + 1) <= b * (wx + sw) + d * (n + 1)
  BY <1>9, <1>10
<1>12. Holds(T)
  BY <1>9, <1>11
<1>. HIDE DEF Holds
<1>. QED
  BY <1>1, <1>12

(* The fold of ActiveScore is such a sum.                                  *)
Scores(names, edge) == [s \in names |-> Score(edge, s)]

(* The score of the names not capped is a sum of their scores.             *)
LEMMA ActiveScoreSum ==
  ASSUME NEW names, IsFiniteSet(names), NEW edge, NEW capped
  PROVE  ActiveScore(names, edge, capped) = SumOf(Scores(names, edge), names \ capped)
<1>. DEFINE S == names \ capped
            v == Scores(names, edge)
            IsFold(g) == g = [T \in SUBSET S |->
                                  IF T = {} THEN 0
                                  ELSE Score(edge, Pick(T)) + g[T \ {Pick(T)}]]
<1>1. ActiveScore(names, edge, capped) = (CHOOSE g : IsFold(g))[S]
  BY DEF ActiveScore, MapThenSumSet, MapThenFoldSet, Pick
<1>2. \A T \in SUBSET S : T # {} => Pick(T) \in names /\ v[Pick(T)] = Score(edge, Pick(T))
  BY DEF Scores, Pick
<1>3. \A g : IsFold(g) <=> IsTotal(g, v, S)
  <2>. HIDE DEF v
  <2>1. ASSUME NEW g
        PROVE  [T \in SUBSET S |-> IF T = {} THEN 0 ELSE Score(edge, Pick(T)) + g[T \ {Pick(T)}]]
             = [T \in SUBSET S |-> IF T = {} THEN 0 ELSE v[Pick(T)] + g[T \ {Pick(T)}]]
    BY <1>2
  <2>. QED
    BY <2>1, Zenon DEF IsTotal
<1>4. IsFiniteSet(S)
  BY FS_Subset
<1>5. PICK h : IsTotal(h, v, S)
  BY <1>4, TotalExists
<1>6. IsTotal(CHOOSE g : IsFold(g), v, S)
  <2>. HIDE DEF v, S
  <2>. SUFFICES IsFold(CHOOSE g : IsFold(g))
    BY <1>3
  <2>. HIDE DEF IsFold
  <2>. QED
    BY <1>3, <1>5
<1>7. IsTotal(CHOOSE g : IsTotal(g, v, S), v, S)
  BY <1>5
<1>. QED
  BY <1>1, <1>4, <1>6, <1>7, TotalUnique DEF SumOf

-----------------------------------------------------------------------------
USE TargetWeightsAssumption

(* Arithmetic of products of natural numbers.                              *)
LEMMA Cancel ==
  ASSUME NEW a \in Nat, NEW b \in Nat, NEW c \in Nat, c # 0, a * c >= b * c
  PROVE  a >= b
<1>. SUFFICES ASSUME a + 1 <= b PROVE FALSE
  OBVIOUS
<1>1. (a + 1) * c <= b * c
  <2>1. PICK k \in Nat : b = (a + 1) + k
    <3>1. b - (a + 1) \in Nat /\ b = (a + 1) + (b - (a + 1))
      OBVIOUS
    <3>. QED
      BY <3>1
  <2>2. ((a + 1) + k) * c = (a + 1) * c + k * c /\ k * c \in Nat /\ (a + 1) * c \in Nat
    OBVIOUS
  <2>. QED
    BY <2>1, <2>2
<1>2. (a + 1) * c = a * c + c /\ a * c \in Nat /\ b * c \in Nat
  OBVIOUS
<1>. QED
  BY <1>1, <1>2

LEMMA Naturally == \A m, n \in Nat : m * n \in Nat
  OBVIOUS

LEMMA Multiply ==
  ASSUME NEW a \in Int, NEW b \in Int, NEW c \in Nat, a <= b
  PROVE  a * c <= b * c
<1>1. PICK k \in Nat : b = a + k
  <2>1. b - a \in Nat /\ b = a + (b - a)
    OBVIOUS
  <2>. QED
    BY <2>1
<1>2. (a + k) * c = a * c + k * c /\ k * c \in Nat /\ a * c \in Int
  OBVIOUS
<1>. QED
  BY <1>1, <1>2

(* A share rounded down is a natural, and not more than the share.         *)
LEMMA ShareBound ==
  ASSUME NEW a \in Nat, NEW b \in Nat, b # 0
  PROVE  a \div b \in Nat /\ b * (a \div b) <= a
<1>1. a = b * (a \div b) + (a % b) /\ (a % b) \in 0..(b - 1) /\ a \div b \in Int
  OBVIOUS
<1>2. a \div b >= 0
  BY <1>1
<1>. QED
  BY <1>1, <1>2
-----------------------------------------------------------------------------
(* What a pass of the water fill keeps: something is left beside the       *)
(* capped names, and each of these would be above the cap at the level of  *)
(* the others.                                                             *)
Edged(names, edge) == names \subseteq Symbols /\ \A s \in names : edge[s] \in Int

Shareable(names, edge, capped) ==
    LET left == Remaining(capped)
        others == ActiveScore(names, edge, capped)
    IN  /\ capped \subseteq names
        /\ left > 0
        /\ \A s \in capped : Score(edge, s) * left >= NameCap * others /\ Score(edge, s) > 0

Partial(names, edge, fill) ==
    /\ Shareable(names, edge, fill.capped)
    /\ \A s \in fill.capped : fill.weight[s] = NameCap
    /\ \A s \in names \ fill.capped : Score(edge, s) = 0 => fill.weight[s] = 0

(* When a pass caps nobody, the others have their shares.                  *)
Level(names, edge, fill) ==
    LET left == Remaining(fill.capped)
        others == ActiveScore(names, edge, fill.capped)
    IN  \A s \in names \ fill.capped :
            /\ Score(edge, s) * left <= NameCap * others
            /\ fill.weight[s] = IF others = 0 THEN 0 ELSE (Score(edge, s) * left) \div others

(* A score is a natural number.                                            *)
LEMMA ScoreType ==
  ASSUME NEW names, NEW edge, Edged(names, edge)
  PROVE  /\ IsFiniteSet(names)
         /\ \A s \in names : Score(edge, s) \in Nat
         /\ Naturals(Scores(names, edge), names)
         /\ \A capped : ActiveScore(names, edge, capped) \in Nat
<1>1. IsFiniteSet(names)
  BY FS_Subset DEF Edged
<1>2. ASSUME NEW s \in names PROVE Score(edge, s) \in Nat
  <2>1. edge[s] \in Int /\ Precision[s] \in Nat
    BY DEF Edged
  <2>2. edge[s] > 0 => edge[s] \in Nat /\ edge[s] * Precision[s] \in Nat
    BY <2>1
  <2>. QED
    BY <2>2 DEF Score
<1>3. Naturals(Scores(names, edge), names)
  BY <1>2 DEF Naturals, Scores
<1>4. ASSUME NEW capped PROVE ActiveScore(names, edge, capped) \in Nat
  <2>1. IsFiniteSet(names \ capped) /\ Naturals(Scores(names, edge), names \ capped)
    BY <1>1, <1>3, FS_Subset DEF Naturals
  <2>. QED
    BY <1>1, <2>1, SumType, ActiveScoreSum
<1>. QED
  BY <1>1, <1>2, <1>3, <1>4

(* Where the others score nothing, none of them does.                      *)
LEMMA NoScoreLeft ==
  ASSUME NEW names, NEW edge, Edged(names, edge), NEW capped,
         ActiveScore(names, edge, capped) = 0
  PROVE  \A s \in names \ capped : Score(edge, s) = 0
<1>. DEFINE S == names \ capped
            v == Scores(names, edge)
<1>1. IsFiniteSet(S) /\ Naturals(v, S) /\ SumOf(v, S) = 0
  BY ScoreType, ActiveScoreSum, FS_Subset DEF Naturals
<1>2. ASSUME NEW s \in S PROVE v[s] = 0
  <2>1. SumOf(v, S) = v[s] + SumOf(v, S \ {s})
    BY <1>1, SumRemove
  <2>2. SumOf(v, S \ {s}) \in Nat /\ v[s] \in Nat
    <3>1. IsFiniteSet(S \ {s}) /\ Naturals(v, S \ {s})
      BY <1>1, FS_Subset DEF Naturals
    <3>. QED
      BY <1>1, <3>1, SumType DEF Naturals
  <2>. QED
    BY <1>1, <2>1, <2>2
<1>. QED
  BY <1>2 DEF Scores

(* The arithmetic of capping k names that score sum of the others' score:  *)
(* what is left shrinks no faster than the score.                          *)
LEMMA CapMore ==
  ASSUME NEW left \in Nat, left # 0, NEW others \in Nat, others # 0,
         NEW k \in Nat, k # 0, NEW sum \in Nat, sum <= others,
         (NameCap * others + 1) * k <= left * sum
  PROVE  /\ left - NameCap * k > 0
         /\ \A a \in Nat : a * left >= NameCap * others
                => a * (left - NameCap * k) >= NameCap * (others - sum)
<1>. DEFINE n == NameCap
            m == n * k
            rest == left - m
<1>0. n \in Nat /\ m \in Nat
  OBVIOUS
<1>1. others * m < left * sum
  <2>1. (n * others + 1) * k = others * m + k /\ others * m \in Nat
    BY <1>0
  <2>2. left * sum \in Nat
    OBVIOUS
  <2>. HIDE DEF n, m
  <2>. QED
    BY <2>1, <2>2 DEF n
<1>2. left * sum <= left * others
  <2>1. sum * left <= others * left
    BY Multiply
  <2>2. sum * left = left * sum /\ others * left = left * others
    OBVIOUS
  <2>. QED
    BY <2>1, <2>2
<1>. HIDE DEF n, m
<1>3. m < left
  <2>. SUFFICES ASSUME left <= m PROVE FALSE
    BY <1>0
  <2>1. left * others <= m * others
    BY <1>0, Multiply
  <2>2. m * others = others * m /\ left * others \in Nat /\ others * m \in Nat /\ left * sum \in Nat
    BY <1>0
  <2>. DEFINE p == others * m
              q == left * sum
              r == left * others
  <2>3. p < q /\ q <= r /\ r <= p /\ p \in Nat /\ q \in Nat /\ r \in Nat
    BY <1>1, <1>2, <2>1, <2>2, Zenon
  <2>. HIDE DEF p, q, r
  <2>. QED
    BY <2>3
<1>4. rest \in Nat /\ rest > 0
  BY <1>0, <1>3
<1>5. (others - sum) * left <= others * rest
  <2>1. (others - sum) * left = others * left - left * sum
    OBVIOUS
  <2>2. others * rest = others * left - others * m
    BY <1>0
  <2>3. others * left \in Int /\ left * sum \in Int /\ others * m \in Int
    BY <1>0
  <2>. QED
    BY <1>1, <2>1, <2>2, <2>3
<1>. HIDE DEF rest
<1>6. ASSUME NEW a \in Nat, a * left >= n * others
      PROVE  a * rest >= n * (others - sum)
  <2>1. (n * others) * rest <= (a * left) * rest
    <3>1. n * others \in Int /\ a * left \in Int
      BY <1>0
    <3>. QED
      BY <1>4, <1>6, <3>1, Multiply
  <2>2. ((others - sum) * left) * n <= (others * rest) * n
    <3>1. (others - sum) * left \in Int /\ others * rest \in Int
      BY <1>4
    <3>. QED
      BY <1>0, <1>5, <3>1, Multiply
  <2>3. /\ (n * others) * rest = (others * rest) * n
        /\ (a * left) * rest = (a * rest) * left
        /\ ((others - sum) * left) * n = (n * (others - sum)) * left
    BY <1>0, <1>4
  <2>4. /\ (a * rest) * left \in Nat /\ (others * rest) * n \in Nat
        /\ (n * (others - sum)) * left \in Nat
        /\ a * rest \in Nat /\ n * (others - sum) \in Nat
    <3>1. others - sum \in Nat
      OBVIOUS
    <3>. QED
      BY <1>0, <1>4, <3>1, Naturally
  <2>. DEFINE p == (a * rest) * left
              q == (others * rest) * n
              r == (n * (others - sum)) * left
  <2>5. p >= r
    <3>1. q <= p /\ r <= q /\ p \in Nat /\ q \in Nat /\ r \in Nat
      BY <2>1, <2>2, <2>3, <2>4, Zenon
    <3>. HIDE DEF p, q, r
    <3>. QED
      BY <3>1
  <2>6. (a * rest) * left >= (n * (others - sum)) * left
    BY <2>5
  <2>. QED
    BY <2>4, <2>6, Cancel
<1>. QED
  BY <1>4, <1>6 DEF rest, n, m

(* A pass caps nobody, and then the level is found, or somebody.           *)
LEMMA PassKeeps ==
  ASSUME NEW names, NEW edge, Edged(names, edge), NEW fill, Partial(names, edge, fill)
  PROVE  LET new == Pass(names, edge, fill)
         IN  /\ Partial(names, edge, new)
             /\ \/ Level(names, edge, new)
                \/ ~Level(names, edge, fill)
                   /\ Cardinality(new.capped) > Cardinality(fill.capped)
<1>. DEFINE v == Scores(names, edge)
            c == fill.capped
            left == Remaining(c)
            others == ActiveScore(names, edge, c)
            over == {s \in names \ c : Score(edge, s) * left > NameCap * others}
            both == c \cup over
            new == Pass(names, edge, fill)
<1>0. /\ IsFiniteSet(names) /\ Naturals(v, names)
      /\ \A s \in names : v[s] = Score(edge, s) /\ v[s] \in Nat
      /\ others \in Nat /\ ActiveScore(names, edge, both) \in Nat
  BY ScoreType DEF Scores, Naturals
<1>1. /\ c \subseteq names /\ left \in Nat /\ left > 0
      /\ \A s \in c : /\ v[s] * left >= NameCap * others /\ v[s] > 0
                      /\ fill.weight[s] = NameCap
      /\ \A s \in names \ c : v[s] = 0 => fill.weight[s] = 0
  <2>1. IsFiniteSet(c) /\ Cardinality(c) \in Nat
    BY <1>0, FS_Subset, FS_CardinalityType DEF Partial, Shareable
  <2>2. left \in Int
    BY <2>1 DEF Remaining
  <2>. QED
    BY <1>0, <2>2 DEF Partial, Shareable
<1>2. CASE others = 0
  <2>1. new = fill
    BY <1>2 DEF Pass
  <2>2. \A s \in names \ c : Score(edge, s) = 0
    BY <1>2, NoScoreLeft
  <2>3. Level(names, edge, fill)
    <3>1. 0 * left = 0 /\ NameCap * 0 = 0
      BY <1>1
    <3>2. \A s \in names \ c : /\ Score(edge, s) * left <= NameCap * others
                               /\ fill.weight[s] = 0
      <4>1. \A s \in names \ c : fill.weight[s] = 0
        BY <1>0, <1>1, <2>2
      <4>2. \A s \in names \ c : Score(edge, s) * left = 0
        BY <2>2, <3>1
      <4>3. NameCap * others = 0
        BY <1>2, <3>1
      <4>. HIDE DEF c, left, others
      <4>. QED
        BY <4>1, <4>2, <4>3
    <3>. QED
      BY <1>2, <3>2 DEF Level
  <2>. HIDE DEF new
  <2>. QED
    BY <2>1, <2>3 DEF new
<1>3. CASE others # 0
  <2>1. others > 0 /\ ~(others <= 0) /\ ~(left <= 0)
    BY <1>0, <1>1, <1>3
  <2>2. /\ new.capped = both
        /\ \A s \in names : new.weight[s] = IF s \in both THEN NameCap
                                            ELSE (Score(edge, s) * left) \div others
    BY <2>1, Zenon DEF Pass
  <2>3. \A s \in names \ both : Score(edge, s) * left <= NameCap * others
    <3>1. \A s \in names : Score(edge, s) * left \in Nat /\ NameCap * others \in Nat
      BY <1>0, <1>1, Naturally
    <3>. QED
      BY <3>1
  <2>4. /\ \A s \in both : new.weight[s] = NameCap
        /\ \A s \in names \ both : Score(edge, s) = 0 => new.weight[s] = 0
    <3>1. 0 * left = 0 /\ 0 \div others = 0
      BY <1>0, <1>1, <2>1
    <3>2. both \subseteq names
      BY <1>1
    <3>. HIDE DEF new, both, left, others
    <3>. QED
      BY <2>2, <3>1, <3>2
  <2>5. CASE over = {}
    <3>1. new.capped = c /\ both = c
      BY <2>2, <2>5
    <3>2. Level(names, edge, new)
      <4>1. /\ Remaining(new.capped) = left
            /\ ActiveScore(names, edge, new.capped) = others
        BY <3>1
      <4>2. \A s \in names \ new.capped :
                /\ Score(edge, s) * left <= NameCap * others
                /\ new.weight[s] = (Score(edge, s) * left) \div others
        <5>. HIDE DEF new, both, left, others, c
        <5>. QED
          BY <2>2, <2>3, <3>1
      <4>. HIDE DEF new, left, others, c
      <4>. QED
        BY <1>3, <4>1, <4>2, Zenon DEF Level
    <3>3. Partial(names, edge, new)
      BY <2>4, <3>1 DEF Partial
    <3>. QED
      BY <3>2, <3>3
  <2>6. CASE over # {}
    <3>. DEFINE k == Cardinality(over)
                sum == SumOf(v, over)
    <3>1. /\ IsFiniteSet(over) /\ k \in Nat /\ k # 0 /\ Naturals(v, over) /\ sum \in Nat
          /\ over \subseteq names \ c
      BY <1>0, <2>6, FS_Subset, FS_CardinalityType, FS_EmptySet, SumType DEF Naturals
    <3>2. /\ Cardinality(both) = Cardinality(c) + k
          /\ Cardinality(c) \in Nat /\ Cardinality(both) \in Nat
      <4>1. IsFiniteSet(c) /\ c \cap over = {}
        BY <1>0, <1>1, FS_Subset
      <4>2. Cardinality(both) = Cardinality(c) + k - Cardinality({})
        BY <3>1, <4>1, FS_Union
      <4>3. Cardinality(c) \in Nat /\ Cardinality({}) = 0
        BY <4>1, FS_CardinalityType, FS_EmptySet
      <4>. QED
        BY <3>1, <4>2, <4>3
    <3>3. Remaining(both) = left - NameCap * k
      <4>1. NameCap * (Cardinality(c) + k) = NameCap * Cardinality(c) + NameCap * k
        BY <3>1, <3>2
      <4>2. NameCap * Cardinality(c) \in Int /\ NameCap * k \in Int /\ Budget \in Int
        BY <3>1, <3>2
      <4>. QED
        BY <3>2, <4>1, <4>2 DEF Remaining
    <3>4. /\ others = sum + ActiveScore(names, edge, both) /\ sum <= others
      <4>1. IsFiniteSet(names \ c) /\ Naturals(v, names \ c)
        BY <1>0, FS_Subset DEF Naturals
      <4>2. SumOf(v, names \ c) = sum + SumOf(v, (names \ c) \ over)
        BY <3>1, <4>1, SumSplit
      <4>3. (names \ c) \ over = names \ both
        OBVIOUS
      <4>4. others = SumOf(v, names \ c) /\ ActiveScore(names, edge, both) = SumOf(v, names \ both)
        BY <1>0, ActiveScoreSum
      <4>5. others = sum + ActiveScore(names, edge, both)
        BY <4>2, <4>3, <4>4
      <4>. HIDE DEF sum, others, both
      <4>. QED
        BY <1>0, <3>1, <4>5
    <3>5. (NameCap * others + 1) * k <= left * sum
      <4>1. \A s \in over : 0 * v[s] + (NameCap * others + 1) <= left * v[s] + 0
        <5>1. ASSUME NEW s \in over PROVE 0 * v[s] + (NameCap * others + 1) <= left * v[s] + 0
          <6>1. /\ v[s] * left > NameCap * others /\ v[s] \in Nat
                /\ v[s] * left \in Nat /\ NameCap * others \in Nat
            BY <1>0, <1>1, <3>1, Naturally
          <6>2. v[s] * left = left * v[s] /\ 0 * v[s] = 0
            BY <1>1, <6>1
          <6>. DEFINE p == v[s] * left
                      q == NameCap * others
          <6>3. 0 + (q + 1) <= p + 0
            <7>1. p > q /\ p \in Nat /\ q \in Nat
              BY <6>1
            <7>. HIDE DEF p, q
            <7>. QED
              BY <7>1
          <6>. QED
            BY <6>2, <6>3, Zenon
        <5>. QED
          BY <5>1
      <4>2. NameCap * others + 1 \in Nat
        BY <1>0, Naturally
      <4>3. 0 * sum + (NameCap * others + 1) * k <= left * sum + 0 * k
        <5>. HIDE DEF left, others, over, v
        <5>. QED
          BY <1>1, <3>1, <4>1, <4>2, SumBound
      <4>4. 0 * sum = 0 /\ 0 * k = 0 /\ (NameCap * others + 1) * k \in Nat /\ left * sum \in Nat
        BY <1>1, <3>1, <4>2, Naturally
      <4>. DEFINE p == (NameCap * others + 1) * k
                  q == left * sum
      <4>5. 0 + p <= q + 0 /\ p \in Nat /\ q \in Nat
        BY <4>3, <4>4, Zenon
      <4>6. p <= q
        <5>. HIDE DEF p, q
        <5>. QED
          BY <4>5
      <4>. QED
        BY <4>6
    <3>6. /\ left - NameCap * k > 0
          /\ \A a \in Nat : a * left >= NameCap * others
                 => a * (left - NameCap * k) >= NameCap * (others - sum)
      <4>1. /\ left \in Nat /\ left # 0 /\ others \in Nat /\ others # 0
            /\ k \in Nat /\ k # 0 /\ sum \in Nat /\ sum <= others
        <5>. HIDE DEF left, others, k, sum
        <5>1. left \in Nat /\ left # 0
          BY <1>1
        <5>2. others \in Nat /\ others # 0 /\ sum <= others
          BY <1>0, <1>3, <3>4
        <5>. QED
          BY <3>1, <5>1, <5>2
      <4>. HIDE DEF left, others, k, sum
      <4>. QED
        BY <3>5, <4>1, CapMore
    <3>7. ActiveScore(names, edge, both) = others - sum
      <4>. HIDE DEF sum, others, both
      <4>. QED
        BY <1>0, <3>1, <3>4
    <3>8. \A s \in both : v[s] * left >= NameCap * others /\ v[s] > 0 /\ v[s] \in Nat
      <4>1. ASSUME NEW s \in over PROVE v[s] * left >= NameCap * others /\ v[s] > 0
        <5>1. /\ v[s] * left > NameCap * others /\ v[s] \in Nat
              /\ v[s] * left \in Nat /\ NameCap * others \in Nat
          BY <1>0, <1>1, <3>1, Naturally
        <5>2. v[s] # 0
          <6>1. 0 * left = 0
            BY <1>1
          <6>. HIDE DEF v, left, others
          <6>. QED
            BY <5>1, <6>1
        <5>. HIDE DEF v, left, others
        <5>. QED
          BY <5>1, <5>2
      <4>. QED
        BY <1>0, <1>1, <3>1, <4>1
    <3>9. Shareable(names, edge, both)
      <4>1. both \subseteq names
        BY <1>1
      <4>2. \A s \in both : v[s] * Remaining(both) >= NameCap * ActiveScore(names, edge, both)
                            /\ v[s] > 0 /\ v[s] = Score(edge, s)
        <5>. HIDE DEF v, left, others, k, sum, both
        <5>. QED
          BY <1>0, <3>3, <3>6, <3>7, <3>8, <4>1
      <4>. QED
        BY <3>3, <3>6, <4>1, <4>2 DEF Shareable
    <3>10. Partial(names, edge, new)
      BY <2>2, <2>4, <3>9 DEF Partial
    <3>11. ~Level(names, edge, fill)
      <4>1. PICK s \in over : TRUE
        BY <2>6
      <4>2. s \in names \ c /\ Score(edge, s) * left > NameCap * others
        OBVIOUS
      <4>3. Score(edge, s) * left \in Nat /\ NameCap * others \in Nat
        BY <1>0, <1>1, <4>2, Naturally
      <4>4. ~(Score(edge, s) * left <= NameCap * others)
        BY <4>2, <4>3
      <4>. QED
        BY <4>2, <4>4 DEF Level
    <3>12. Cardinality(new.capped) > Cardinality(c)
      BY <2>2, <3>1, <3>2
    <3>. HIDE DEF new
    <3>. QED
      BY <3>10, <3>11, <3>12 DEF new
  <2>. QED
    BY <2>5, <2>6
<1>. QED
  BY <1>0, <1>2, <1>3

(* The passes exist, one for each name.                                    *)
None(names) == [capped |-> {}, weight |-> [s \in names |-> 0]]

IsPasses(g, names, edge, n) ==
    g = [i \in 0..n |-> IF i = 0 THEN None(names) ELSE Pass(names, edge, g[i - 1])]

(* A false statement about numbers has a least counterexample.             *)
LEMMA SmallestBad ==
  ASSUME NEW Bad \in SUBSET Nat, \A n \in Bad : \E m \in Bad : m < n
  PROVE  Bad = {}
<1>. SUFFICES ASSUME Bad # {} PROVE FALSE
  OBVIOUS
<1>1. PICK n \in Bad : \A m \in Bad : ~(<<m, n>> \in OpToRel(<, Nat))
  BY WFMin, NatLessThanWellFounded
<1>2. PICK m \in Bad : m < n
  OBVIOUS
<1>3. m \in Nat /\ n \in Nat
  OBVIOUS
<1>. QED
  BY <1>1, <1>2, <1>3 DEF OpToRel

(* The recursive function of the passes is well defined.                   *)
LEMMA PassesExist ==
  ASSUME NEW names, NEW edge, NEW n \in Nat
  PROVE  \E g : IsPasses(g, names, edge, n)
<1>. DEFINE Bad == {m \in Nat : \A g : ~IsPasses(g, names, edge, m)}
<1>1. ASSUME NEW m \in Bad PROVE \E k \in Bad : k < m
  <2>1. CASE m = 0
    <3>. DEFINE z == [i \in 0..0 |-> None(names)]
    <3>1. IsPasses(z, names, edge, 0)
      BY DEF IsPasses
    <3>. QED
      BY <2>1, <3>1
  <2>2. CASE m # 0
    <3>1. m - 1 \in Nat /\ m - 1 < m /\ m \in Nat
      BY <2>2
    <3>. SUFFICES ASSUME m - 1 \notin Bad PROVE FALSE
      BY <3>1
    <3>2. PICK g : IsPasses(g, names, edge, m - 1)
      BY <3>1
    <3>. DEFINE h == [i \in 0..m |-> IF i = 0 THEN None(names) ELSE Pass(names, edge, g[i - 1])]
    <3>3. \A i \in 0..(m - 1) : h[i] = g[i]
      BY <3>1, <3>2 DEF IsPasses
    <3>4. \A i \in 0..m : i # 0 => i - 1 \in 0..(m - 1)
      BY <3>1
    <3>5. h = [i \in 0..m |-> IF i = 0 THEN None(names) ELSE Pass(names, edge, h[i - 1])]
      BY <3>3, <3>4
    <3>6. IsPasses(h, names, edge, m)
      BY <3>5 DEF IsPasses
    <3>. QED
      BY <3>6
  <2>. QED
    BY <2>1, <2>2
<1>2. Bad = {}
  <2>1. Bad \in SUBSET Nat
    OBVIOUS
  <2>. HIDE DEF Bad
  <2>. QED
    BY <1>1, <2>1, SmallestBad
<1>. QED
  BY <1>2

(* After as many passes as there are names the level is found.             *)
LEMMA WaterFillLevels ==
  ASSUME NEW names, NEW edge, Edged(names, edge)
  PROVE  \E fill : /\ Partial(names, edge, fill) /\ Level(names, edge, fill)
                   /\ WaterFill(names, edge) = fill.weight
<1>. DEFINE n == Cardinality(names)
<1>0. IsFiniteSet(names) /\ n \in Nat
  BY ScoreType, FS_CardinalityType
<1>1. WaterFill(names, edge) = (CHOOSE g : IsPasses(g, names, edge, n))[n].weight
  BY DEF WaterFill, IsPasses, None
<1>2. PICK g : IsPasses(g, names, edge, n) /\ WaterFill(names, edge) = g[n].weight
  BY <1>0, <1>1, PassesExist
<1>. HIDE DEF n
<1>. DEFINE Good(i) == /\ Partial(names, edge, g[i])
                       /\ Level(names, edge, g[i]) \/ Cardinality(g[i].capped) >= i
            Bad == {i \in 0..n : ~Good(i)}
<1>3. ASSUME NEW i \in Bad PROVE \E k \in Bad : k < i
  <2>0. i \in 0..n
    OBVIOUS
  <2>1. i # 0
    <3>. SUFFICES ASSUME i = 0 PROVE FALSE
      OBVIOUS
    <3>1. g[0] = None(names)
      BY <1>0, <1>2 DEF IsPasses
    <3>2. Remaining({}) > 0 /\ Cardinality({}) = 0
      <4>1. Cardinality({}) = 0 /\ NameCap * 0 = 0
        BY FS_EmptySet
      <4>. QED
        BY <4>1 DEF Remaining
    <3>3. Partial(names, edge, None(names))
      BY <3>2 DEF Partial, Shareable, None
    <3>4. Cardinality(None(names).capped) >= 0
      BY <3>2 DEF None
    <3>5. Good(0)
      BY <3>1, <3>3, <3>4
    <3>. HIDE DEF Good
    <3>. QED
      BY <3>5
  <2>2. i - 1 \in 0..n /\ i - 1 < i /\ i \in Nat
    BY <1>0, <2>0, <2>1
  <2>3. g[i] = Pass(names, edge, g[i - 1])
    BY <1>2, <2>0, <2>1 DEF IsPasses
  <2>. SUFFICES ASSUME Good(i - 1) PROVE Good(i)
    BY <2>2
  <2>4. /\ Partial(names, edge, g[i])
        /\ \/ Level(names, edge, g[i])
           \/ ~Level(names, edge, g[i - 1])
              /\ Cardinality(g[i].capped) > Cardinality(g[i - 1].capped)
    BY <2>3, PassKeeps
  <2>5. CASE Level(names, edge, g[i])
    BY <2>4, <2>5
  <2>6. CASE ~Level(names, edge, g[i])
    <3>1. /\ Cardinality(g[i].capped) > Cardinality(g[i - 1].capped)
          /\ Cardinality(g[i - 1].capped) >= i - 1
      BY <2>4, <2>6
    <3>2. Cardinality(g[i].capped) \in Nat /\ Cardinality(g[i - 1].capped) \in Nat
      BY <1>0, <2>4, FS_Subset, FS_CardinalityType DEF Partial, Shareable
    <3>3. Cardinality(g[i].capped) >= i
      BY <2>2, <3>1, <3>2
    <3>. QED
      BY <2>4, <3>3
  <2>. QED
    BY <2>5, <2>6
<1>4. Bad = {}
  <2>1. Bad \in SUBSET Nat
    BY <1>0
  <2>. HIDE DEF Bad
  <2>. QED
    BY <1>3, <2>1, SmallestBad
<1>5. Good(n)
  BY <1>0, <1>4
<1>6. CASE Level(names, edge, g[n])
  BY <1>2, <1>5, <1>6
<1>7. CASE ~Level(names, edge, g[n])
  <2>1. Cardinality(g[n].capped) >= Cardinality(names) /\ g[n].capped \subseteq names
    BY <1>5, <1>7 DEF Partial, Shareable, n
  <2>2. g[n].capped = names
    <3>1. Cardinality(g[n].capped) <= Cardinality(names) /\ Cardinality(g[n].capped) \in Nat
      BY <1>0, <2>1, FS_Subset, FS_CardinalityType
    <3>2. Cardinality(names) = Cardinality(g[n].capped)
      BY <1>0, <2>1, <3>1 DEF n
    <3>. QED
      BY <1>0, <2>1, <3>2, FS_Subset
  <2>. QED
    BY <1>7, <2>2 DEF Level
<1>. QED
  BY <1>6, <1>7
-----------------------------------------------------------------------------
USE RebalanceAssumption

(* FairShares of one set of names and its weights.                         *)
Fair(names, edge, weight) ==
    \E capped \in SUBSET names :
        LET left == Remaining(capped)
            others == ActiveScore(names, edge, capped)
        IN  /\ left >= 0
            /\ \A s \in capped : Score(edge, s) * left >= NameCap * others
                                 /\ Score(edge, s) > 0 /\ weight[s] = NameCap
            /\ \A s \in names \ capped :
                   /\ Score(edge, s) * left <= NameCap * others
                   /\ weight[s] = IF others = 0 THEN 0
                                  ELSE (Score(edge, s) * left) \div others

(* What the water fill returns is fair: its last pass caps nobody.         *)
LEMMA WaterFillFair ==
  ASSUME NEW names, NEW edge, Edged(names, edge)
  PROVE  Fair(names, edge, WaterFill(names, edge))
<1>1. PICK fill : /\ Partial(names, edge, fill) /\ Level(names, edge, fill)
                  /\ WaterFill(names, edge) = fill.weight
  BY WaterFillLevels
<1>. DEFINE c == fill.capped
            w == fill.weight
<1>2. c \subseteq names /\ IsFiniteSet(c) /\ Cardinality(c) \in Nat
  BY <1>1, ScoreType, FS_Subset, FS_CardinalityType DEF Partial, Shareable
<1>3. Remaining(c) \in Int /\ Remaining(c) > 0
  BY <1>1, <1>2 DEF Partial, Shareable, Remaining
<1>4. Remaining(c) >= 0
  BY <1>3
<1>5. \A s \in c : /\ Score(edge, s) * Remaining(c) >= NameCap * ActiveScore(names, edge, c)
                   /\ Score(edge, s) > 0 /\ w[s] = NameCap
  BY <1>1 DEF Partial, Shareable
<1>6. \A s \in names \ c :
          /\ Score(edge, s) * Remaining(c) <= NameCap * ActiveScore(names, edge, c)
          /\ w[s] = IF ActiveScore(names, edge, c) = 0 THEN 0
                    ELSE (Score(edge, s) * Remaining(c)) \div ActiveScore(names, edge, c)
  BY <1>1, Zenon DEF Level
<1>7. Fair(names, edge, w)
  <2>. HIDE DEF c, w
  <2>. QED
    BY <1>2, <1>4, <1>5, <1>6, Zenon DEF Fair
<1>. QED
  BY <1>1, <1>7

(* Fair weights are at most the cap each, and the budget together.         *)
LEMMA FairBound ==
  ASSUME NEW names, NEW edge, Edged(names, edge), NEW w, Fair(names, edge, w)
  PROVE  /\ \A s \in names : w[s] \in 0..NameCap
         /\ SumOf(w, names) <= Budget
<1>1. PICK c \in SUBSET names :
        LET left == Remaining(c)
            others == ActiveScore(names, edge, c)
        IN  /\ left >= 0
            /\ \A s \in c : Score(edge, s) * left >= NameCap * others
                            /\ Score(edge, s) > 0 /\ w[s] = NameCap
            /\ \A s \in names \ c :
                   /\ Score(edge, s) * left <= NameCap * others
                   /\ w[s] = IF others = 0 THEN 0 ELSE (Score(edge, s) * left) \div others
  BY DEF Fair
<1>. DEFINE left == Remaining(c)
            others == ActiveScore(names, edge, c)
            v == Scores(names, edge)
            rest == names \ c
<1>2. /\ IsFiniteSet(c) /\ IsFiniteSet(rest) /\ Cardinality(c) \in Nat
      /\ left \in Nat /\ others \in Nat
      /\ Naturals(v, rest) /\ others = SumOf(v, rest) /\ IsFiniteSet(names)
      /\ \A s \in names : v[s] = Score(edge, s) /\ v[s] \in Nat
  <2>1. IsFiniteSet(names) /\ Naturals(v, names) /\ others \in Nat /\ others = SumOf(v, rest)
    BY ScoreType, ActiveScoreSum
  <2>2. IsFiniteSet(c) /\ IsFiniteSet(rest) /\ Cardinality(c) \in Nat
    BY <2>1, FS_Subset, FS_CardinalityType
  <2>3. left \in Int
    BY <2>2 DEF Remaining
  <2>4. left \in Nat
    BY <1>1, <2>3
  <2>. QED
    BY <2>1, <2>2, <2>4 DEF Naturals, Scores
<1>3. ASSUME NEW s \in rest
      PROVE  w[s] \in 0..NameCap /\ others * w[s] <= left * v[s]
  <2>1. Score(edge, s) \in Nat /\ v[s] = Score(edge, s)
    BY <1>2
  <2>. DEFINE a == Score(edge, s) * left
  <2>2. /\ a \in Nat /\ a <= NameCap * others /\ NameCap * others \in Nat
        /\ w[s] = IF others = 0 THEN 0 ELSE a \div others
        /\ a = left * v[s]
    <3>1. a = left * v[s]
      BY <1>2, <2>1
    <3>. QED
      BY <1>1, <1>2, <2>1, <3>1, Naturally
  <2>. HIDE DEF a, left, others, v
  <2>3. CASE others = 0
    <3>1. w[s] = 0 /\ 0 * 0 = 0
      BY <2>2, <2>3
    <3>. QED
      BY <2>2, <2>3, <3>1
  <2>4. CASE others # 0
    <3>. DEFINE q == a \div others
    <3>1. q \in Nat /\ others * q <= a
      BY <1>2, <2>2, <2>4, ShareBound
    <3>2. w[s] = q
      BY <2>2, <2>4
    <3>. HIDE DEF q
    <3>3. q <= NameCap
      <4>1. others * q = q * others /\ q * others \in Nat
        BY <1>2, <3>1
      <4>2. NameCap * others >= q * others
        <5>. DEFINE x == q * others
                    y == NameCap * others
                    z == others * q
        <5>1. z <= a /\ a <= y /\ z = x /\ x \in Nat /\ y \in Nat /\ a \in Nat
          BY <2>2, <3>1, <4>1
        <5>. HIDE DEF x, y, z
        <5>2. y >= x
          BY <5>1
        <5>. QED
          BY <5>2 DEF x, y
      <4>3. NameCap \in Nat
        OBVIOUS
      <4>. QED
        BY <1>2, <2>4, <3>1, <4>2, <4>3, Cancel
    <3>4. NameCap \in Nat
      OBVIOUS
    <3>. QED
      BY <2>2, <3>1, <3>2, <3>3, <3>4
  <2>. QED
    BY <2>3, <2>4
<1>4. \A s \in names : w[s] \in 0..NameCap
  <2>1. \A s \in c : w[s] \in 0..NameCap
    BY <1>1
  <2>. QED
    BY <1>3, <2>1
<1>5. Naturals(w, names) /\ Naturals(w, c) /\ Naturals(w, rest)
  BY <1>4 DEF Naturals
<1>6. SumOf(w, names) = SumOf(w, c) + SumOf(w, rest)
      /\ SumOf(w, c) \in Nat /\ SumOf(w, rest) \in Nat
  BY <1>2, <1>5, SumSplit, SumType
<1>7. SumOf(w, c) <= NameCap * Cardinality(c)
  <2>1. \A s \in c : 1 * w[s] + 0 <= 0 * w[s] + NameCap
    <3>1. \A s \in c : w[s] = NameCap /\ w[s] \in Nat
      BY <1>1, <1>5 DEF Naturals
    <3>. QED
      BY <3>1
  <2>2. 1 * SumOf(w, c) + 0 * Cardinality(c) <= 0 * SumOf(w, c) + NameCap * Cardinality(c)
    BY <1>2, <1>5, <2>1, SumBound
  <2>3. NameCap * Cardinality(c) \in Nat
    BY <1>2
  <2>. QED
    BY <1>2, <1>6, <2>2, <2>3
<1>8. SumOf(w, rest) <= left
  <2>1. \A s \in rest : others * w[s] + 0 <= left * v[s] + 0
    <3>1. ASSUME NEW s \in rest PROVE others * w[s] + 0 <= left * v[s] + 0
      <4>1. others * w[s] \in Nat /\ left * v[s] \in Nat /\ others * w[s] <= left * v[s]
        BY <1>2, <1>3, <1>5, Naturally DEF Naturals
      <4>. QED
        BY <4>1
    <3>. QED
      BY <3>1
  <2>. DEFINE sw == SumOf(w, rest)
              n == Cardinality(rest)
  <2>2. others * sw + 0 * n <= left * others + 0 * n
    <3>. HIDE DEF others, left, v, rest
    <3>. QED
      BY <1>2, <1>5, <2>1, SumBound
  <2>3. n \in Nat /\ 0 * n = 0
    BY <1>2, FS_CardinalityType
  <2>4. sw \in Nat /\ others * sw \in Nat /\ left * others \in Nat
        /\ others * sw = sw * others
    BY <1>2, <1>6, Naturally
  <2>5. left * others >= sw * others
    BY <2>2, <2>3, <2>4
  <2>6. CASE others # 0
    <3>. HIDE DEF others, left, sw
    <3>. QED
      BY <1>2, <2>4, <2>5, <2>6, Cancel DEF sw
  <2>7. CASE others = 0
    <3>1. \A s \in rest : w[s] = 0
      BY <1>1, <2>7
    <3>2. \A s \in rest : 1 * w[s] + 0 <= 0 * w[s] + 0
      BY <3>1
    <3>3. 1 * sw + 0 * n <= 0 * sw + 0 * n
      BY <1>2, <1>5, <3>2, SumBound
    <3>4. 0 * sw = 0
      BY <2>4
    <3>5. sw <= 0
      <4>. HIDE DEF sw, n
      <4>. QED
        BY <2>3, <2>4, <3>3, <3>4
    <3>. QED
      BY <1>2, <2>4, <3>5
  <2>. QED
    BY <2>6, <2>7
<1>9. SumOf(w, names) <= Budget
  <2>. DEFINE m == NameCap * Cardinality(c)
              x == SumOf(w, c)
              y == SumOf(w, rest)
  <2>1. left = Budget - m /\ m \in Nat /\ Budget \in Nat
    BY <1>2, Naturally DEF Remaining
  <2>2. x \in Nat /\ y \in Nat /\ x <= m /\ y <= left /\ SumOf(w, names) = x + y
    BY <1>6, <1>7, <1>8
  <2>. HIDE DEF m, x, y, left
  <2>. QED
    BY <2>1, <2>2
<1>. QED
  BY <1>4, <1>9

(* A budget kept by the names is kept by every set of symbols.             *)
LEMMA SubsetBudget ==
  ASSUME NEW names \in SUBSET Symbols, NEW aims \in [Symbols -> 0..NameCap],
         \A s \in Symbols \ names : aims[s] = 0, SumOf(aims, names) <= Budget,
         NEW R \in SUBSET Symbols
  PROVE  SumOf(aims, R) <= Budget
<1>1. /\ \A T \in SUBSET Symbols : IsFiniteSet(T) /\ Naturals(aims, T) /\ SumOf(aims, T) \in Nat
      /\ \A T \in SUBSET Symbols : \A U \in SUBSET T : SumOf(aims, T) = SumOf(aims, U) + SumOf(aims, T \ U)
  <2>1. \A T \in SUBSET Symbols : IsFiniteSet(T) /\ Naturals(aims, T)
    BY FS_Subset DEF Naturals
  <2>2. \A T \in SUBSET Symbols : SumOf(aims, T) \in Nat
    BY <2>1, SumType
  <2>3. \A T \in SUBSET Symbols : \A U \in SUBSET T : SumOf(aims, T) = SumOf(aims, U) + SumOf(aims, T \ U)
    BY <2>1, SumSplit
  <2>. QED
    BY <2>1, <2>2, <2>3
<1>. DEFINE rest == Symbols \ names
<1>2. SumOf(aims, rest) = 0
  <2>1. \A s \in rest : 1 * aims[s] + 0 <= 0 * aims[s] + 0
    OBVIOUS
  <2>2. 1 * SumOf(aims, rest) + 0 * Cardinality(rest) <= 0 * SumOf(aims, rest) + 0 * Cardinality(rest)
    BY <1>1, <2>1, SumBound
  <2>3. Cardinality(rest) \in Nat /\ SumOf(aims, rest) \in Nat
    BY <1>1, FS_CardinalityType
  <2>. DEFINE x == SumOf(aims, rest)
              n == Cardinality(rest)
  <2>. HIDE DEF x, n
  <2>4. x \in Nat /\ n \in Nat /\ 1 * x + 0 * n <= 0 * x + 0 * n
    BY <2>2, <2>3 DEF x, n
  <2>5. x = 0
    BY <2>4
  <2>. QED
    BY <2>5 DEF x
<1>3. SumOf(aims, Symbols) = SumOf(aims, names) + SumOf(aims, rest)
      /\ SumOf(aims, Symbols) = SumOf(aims, R) + SumOf(aims, Symbols \ R)
  BY <1>1
<1>4. /\ SumOf(aims, names) \in Nat /\ SumOf(aims, R) \in Nat
      /\ SumOf(aims, Symbols \ R) \in Nat /\ Budget \in Nat
  BY <1>1
<1>. HIDE DEF rest
<1>. QED
  BY <1>2, <1>3, <1>4

Names(weights, i) == Selected(i.passed, i.edge, i.trained, Incumbents(weights))

(* The names kept are symbols with an edge.                                *)
LEMMA NamesEdged ==
  ASSUME NEW i \in Inputs, NEW weights
  PROVE  Edged(Names(weights, i), i.edge)
<1>1. /\ i.passed \subseteq Symbols
      /\ i.edge \in [Symbols -> (UNION {Edges[s] : s \in Symbols}) \cup {0}]
  BY DEF Inputs
<1>2. (UNION {Edges[s] : s \in Symbols}) \cup {0} \subseteq Int
  <2>1. \A s \in Symbols : Edges[s] \subseteq Int
    OBVIOUS
  <2>2. ASSUME NEW e \in UNION {Edges[s] : s \in Symbols} PROVE e \in Int
    <3>1. PICK s \in Symbols : e \in Edges[s]
      OBVIOUS
    <3>. QED
      BY <2>1, <3>1
  <2>3. 0 \in Int
    OBVIOUS
  <2>. QED
    BY <2>2, <2>3, Zenon
<1>3. Names(weights, i) \subseteq i.passed
  BY DEF Names, Selected, SelectTopK
<1>. QED
  BY <1>1, <1>2, <1>3 DEF Edged

(* A cold start gives everybody the same, within cap and budget.           *)
LEMMA EqualBound ==
  ASSUME NEW names, IsFiniteSet(names), names # {}
  PROVE  /\ EqualWeight(names) \in 0..NameCap
         /\ EqualWeight(names) * Cardinality(names) <= Budget
<1>. DEFINE n == Cardinality(names)
<1>1. n \in Nat /\ n # 0
  BY FS_CardinalityType, FS_EmptySet
<1>2. NameCap \in Nat /\ Budget \in Nat /\ NameCap * n \in Nat
  BY <1>1, Naturally
<1>. HIDE DEF n
<1>3. CASE NameCap * n <= Budget
  <2>1. EqualWeight(names) = NameCap
    BY <1>3 DEF EqualWeight, n
  <2>. QED
    BY <1>2, <1>3, <2>1 DEF n
<1>4. CASE ~(NameCap * n <= Budget)
  <2>. DEFINE q == Budget \div n
  <2>1. EqualWeight(names) = q
    BY <1>4 DEF EqualWeight, n
  <2>2. q \in Nat /\ n * q <= Budget
    BY <1>1, <1>2, ShareBound
  <2>. HIDE DEF q
  <2>3. n * q = q * n /\ q * n \in Nat
    BY <1>1, <2>2
  <2>4. NameCap * n >= q * n
    <3>. DEFINE x == NameCap * n
                y == q * n
                z == n * q
    <3>1. z = y /\ y \in Nat /\ x \in Nat /\ z <= Budget /\ ~(x <= Budget)
      BY <1>2, <1>4, <2>2, <2>3
    <3>. HIDE DEF x, y, z
    <3>2. x >= y
      BY <1>2, <3>1
    <3>. QED
      BY <3>2 DEF x, y
  <2>5. q <= NameCap
    BY <1>1, <1>2, <2>2, <2>4, Cancel
  <2>. QED
    BY <1>2, <2>1, <2>2, <2>3, <2>5 DEF n
<1>. QED
  BY <1>3, <1>4

(* The targets of a cycle.                                                 *)
LEMMA TargetsBound ==
  ASSUME NEW i \in Inputs, NEW weights
  PROVE  LET names == Names(weights, i)
             aims == TargetsFrom(weights, i)
         IN  /\ aims \in [Symbols -> 0..NameCap]
             /\ \A R \in SUBSET Symbols : SumOf(aims, R) <= Budget
             /\ ~ColdStart(names, i.edge) => Fair(names, i.edge, aims)
<1>. DEFINE names == Names(weights, i)
            live == ComputeTargetWeights(names, i.edge)
            aims == TargetsFrom(weights, i)
<1>1. Edged(names, i.edge) /\ IsFiniteSet(names) /\ names \subseteq Symbols
  BY NamesEdged, ScoreType DEF Edged
<1>2. aims = [s \in Symbols |-> IF s \in names THEN live[s] ELSE 0]
  BY DEF TargetsFrom, Names
<1>5. \A s \in Symbols \ names : aims[s] = 0
  BY <1>2
<1>. HIDE DEF aims, names
<1>3. CASE names # {} /\ ColdStart(names, i.edge)
  <2>. DEFINE e == EqualWeight(names)
              n == Cardinality(names)
  <2>1. e \in 0..NameCap /\ e * n <= Budget
    BY <1>1, <1>3, EqualBound
  <2>2. \A s \in names : live[s] = e
    BY <1>3 DEF ComputeTargetWeights
  <2>3. /\ \A s \in names : aims[s] = e
        /\ aims \in [Symbols -> 0..NameCap]
    <3>1. NameCap \in Nat
      OBVIOUS
    <3>. HIDE DEF live, e
    <3>. QED
      BY <1>1, <1>2, <2>1, <2>2, <3>1
  <2>4. SumOf(aims, names) <= Budget
    <3>1. \A s \in names : 1 * aims[s] + 0 <= 0 * aims[s] + e
      BY <2>1, <2>3
    <3>2. Naturals(aims, names) /\ e \in Nat
      BY <2>1, <2>3 DEF Naturals
    <3>. HIDE DEF e
    <3>3. 1 * SumOf(aims, names) + 0 * n <= 0 * SumOf(aims, names) + e * n
      BY <1>1, <3>1, <3>2, SumBound
    <3>4. SumOf(aims, names) \in Nat /\ n \in Nat /\ e * n \in Nat /\ 0 * n = 0
          /\ 0 * SumOf(aims, names) = 0 /\ 1 * SumOf(aims, names) = SumOf(aims, names)
      BY <1>1, <3>2, SumType, FS_CardinalityType, Naturally
    <3>. DEFINE x == SumOf(aims, names)
                y == e * n
    <3>5. x + 0 <= 0 + y /\ y <= Budget /\ x \in Nat /\ y \in Nat /\ Budget \in Nat
      BY <2>1, <3>3, <3>4
    <3>. HIDE DEF x, y
    <3>6. x <= Budget
      BY <3>5
    <3>. QED
      BY <3>6 DEF x
  <2>5. \A R \in SUBSET Symbols : SumOf(aims, R) <= Budget
    <3>. HIDE DEF e, n, live
    <3>. QED
      BY <1>1, <1>5, <2>3, <2>4, SubsetBudget
  <2>. QED
    BY <1>3, <2>3, <2>5 DEF aims, names
<1>4. CASE ~(names # {} /\ ColdStart(names, i.edge))
  <2>1. live = WaterFill(names, i.edge)
    BY <1>4 DEF ComputeTargetWeights
  <2>2. Fair(names, i.edge, live)
    BY <1>1, <2>1, WaterFillFair
  <2>3. \A s \in names : aims[s] = live[s]
    BY <1>1, <1>2
  <2>4. Fair(names, i.edge, aims)
    <3>. HIDE DEF live
    <3>. QED
      BY <2>2, <2>3 DEF Fair
  <2>5. (\A s \in names : aims[s] \in 0..NameCap) /\ SumOf(aims, names) <= Budget
    BY <1>1, <2>4, FairBound
  <2>6. aims \in [Symbols -> 0..NameCap]
    <3>1. NameCap \in Nat
      OBVIOUS
    <3>2. \A s \in Symbols : aims[s] \in 0..NameCap
      BY <1>5, <2>5, <3>1
    <3>. HIDE DEF live
    <3>. QED
      BY <1>2, <3>2
  <2>7. \A R \in SUBSET Symbols : SumOf(aims, R) <= Budget
    <3>. HIDE DEF live
    <3>. QED
      BY <1>1, <1>5, <2>5, <2>6, SubsetBudget
  <2>. QED
    BY <2>4, <2>6, <2>7 DEF aims, names
<1>. QED
  BY <1>3, <1>4 DEF aims, names
-----------------------------------------------------------------------------
(* The order of routing names every symbol once.                           *)
LEMMA OrderType ==
  /\ Len(Order) \in Nat /\ DOMAIN Order = 1..Len(Order)
  /\ \A i \in Routing : Order[i] \in Symbols
  /\ \A i, j \in Routing : Order[i] = Order[j] => i = j
  /\ \A s \in Symbols : \E i \in Routing : Order[i] = s
<1>. DEFINE n == Cardinality(Symbols)
<1>1. n \in Nat
  BY FS_CardinalityType
<1>. HIDE DEF n
<1>2. Order \in [1..n -> Symbols] /\ \A s \in Symbols : \E i \in 1..n : Order[i] = s
  BY DEF n
<1>3. Len(Order) = n /\ DOMAIN Order = 1..n
  BY <1>1, <1>2
<1>4. Order \in Surjection(1..n, Symbols)
  BY <1>2 DEF Surjection
<1>5. IsFiniteSet(1..n) /\ Cardinality(1..n) = n
  <2>0. 1 \in Int /\ n \in Int
    BY <1>1
  <2>1. IsFiniteSet(1..n)
    BY <2>0, FS_Interval, Zenon
  <2>2. ExistsBijection(1..n, Symbols)
    BY FS_CardinalityType DEF n
  <2>3. Cardinality(Symbols) = Cardinality(1..n)
    BY <2>1, <2>2, FS_Bijection
  <2>. QED
    BY <2>1, <2>3 DEF n
<1>6. Order \in Injection(1..n, Symbols)
  BY <1>4, <1>5, FS_SurjSameCardinalityImpliesInj DEF n
<1>7. \A i, j \in 1..n : Order[i] = Order[j] => i = j
  BY <1>6 DEF Injection, IsInjective
<1>. QED
  BY <1>1, <1>2, <1>3, <1>7 DEF Routing

(* What of the target may remain to be ordered after a good routing.       *)
NearTo(h, t) == (t = 0 => h = 0) /\ (h <= t \/ h < t + DeadBand)
Near(s) == NearTo(held[s], target[s])

Reached(s) == \E j \in Routing : j < pc /\ Order[j] = s

(* In a cycle that nothing has disturbed the symbols routed are near their *)
(* targets and the others as they were read.                               *)
Undisturbed ==
    /\ pc = Idle => calm >= 0
    /\ pc = Weighed /\ calm >= 0 => current = held
    /\ pc \notin {Idle, Weighed} /\ calm >= 0 =>
           \A s \in InReach :
               IF Reached(s) THEN Near(s) ELSE held[s] = current[s] /\ available[s] = current[s]
    /\ Settled => \A s \in InReach : Near(s)

Aimed == pc # Idle => target = TargetsFrom(current, input)

(* What an input may be.                                                   *)
LEMMA InitInputs ==
  ASSUME NEW i \in Inputs
  PROVE  i.seen \subseteq Symbols /\ i.passed \subseteq i.seen
  BY DEF Inputs

(* What the route of a symbol does to its position, as it was read.        *)
LEMMA RouteNear ==
  ASSUME TypeOK, NEW s \in Symbols, calm >= 0, calm' >= 0,
         held[s] = current[s], available[s] = current[s],
         RouteNothing(s) \/ RouteBuy(s) \/ RouteSell(s)
  PROVE  NearTo(held'[s], target[s])
<1>. DEFINE h == held[s]
            t == target[s]
            kind == ClassifyRebalance(s)
<1>0. /\ h \in Nat /\ t \in Nat /\ held \in [Symbols -> Nat] /\ DeadBand \in Nat
      /\ current[s] = h /\ available[s] = h
  BY DEF TypeOK
<1>1. /\ kind = "add" <=> h > 0 /\ t > h
      /\ kind = "trim" <=> h > 0 /\ t < h
      /\ kind = "entry" <=> h = 0 /\ t > 0
      /\ kind \in {"add", "trim", "entry"} \/ t = h
      /\ kind \in {"add", "trim", "entry", "hold", "reject"}
  <2>1. \/ h > 0 /\ t > h
        \/ h > 0 /\ t < h
        \/ h = 0 /\ t > 0
        \/ t = h
    BY <1>0
  <2>2. CASE h > 0 /\ t > h
    <3>1. kind = "add"
      BY <1>0, <2>2 DEF ClassifyRebalance
    <3>. HIDE DEF kind, h, t
    <3>. QED
      BY <1>0, <2>2, <3>1
  <2>3. CASE h > 0 /\ t < h
    <3>0. ~(t > h)
      BY <1>0, <2>3
    <3>1. kind = "trim"
      BY <1>0, <2>3, <3>0 DEF ClassifyRebalance
    <3>. HIDE DEF kind, h, t
    <3>. QED
      BY <1>0, <2>3, <3>1
  <2>4. CASE h = 0 /\ t > 0
    <3>0. ~(h > 0)
      BY <1>0, <2>4
    <3>1. kind = "entry"
      BY <1>0, <2>4, <3>0 DEF ClassifyRebalance
    <3>. HIDE DEF kind, h, t
    <3>. QED
      BY <1>0, <2>4, <3>1
  <2>5. CASE t = h
    <3>0. ~(t > h) /\ ~(t < h) /\ ~(h = 0 /\ t > 0)
      BY <1>0, <2>5
    <3>1. kind \in {"hold", "reject"}
      BY <1>0, <3>0 DEF ClassifyRebalance
    <3>. HIDE DEF kind, h, t
    <3>. QED
      BY <1>0, <2>5, <3>0, <3>1
  <2>. HIDE DEF kind, h, t
  <2>. QED
    BY <2>1, <2>2, <2>3, <2>4, <2>5
<1>2. FullExit(s) <=> kind = "trim" /\ t = 0 /\ h > 0
  BY <1>0 DEF FullExit
<1>3. CASE RouteNothing(s)
  <2>1. held'[s] = h /\ SendsNothing(s)
    BY <1>3 DEF RouteNothing
  <2>2. CASE kind \in {"hold", "reject"}
    <3>. HIDE DEF kind, h, t
    <3>1. t = h
      BY <1>1, <2>2
    <3>. QED
      BY <1>0, <2>1, <3>1 DEF NearTo, t
  <2>3. CASE InDeadBand(s)
    <3>1. /\ kind \in {"add", "trim"} /\ ~FullExit(s)
          /\ Absolute(t - h) < DeadBand
      BY <1>0, <2>3 DEF InDeadBand
    <3>. HIDE DEF kind, h, t
    <3>2. h > 0 /\ t # 0 /\ h < t + DeadBand
      BY <1>0, <1>1, <1>2, <3>1 DEF Absolute
    <3>. QED
      BY <2>1, <3>2 DEF NearTo, t
  <2>4. CASE kind = "trim" /\ ~FullExit(s) /\ available[s] <= t
    <3>. HIDE DEF kind, h, t
    <3>. QED
      BY <1>0, <1>1, <2>4
  <2>. QED
    BY <2>1, <2>2, <2>3, <2>4 DEF SendsNothing
<1>4. CASE RouteBuy(s)
  <2>1. held' = [held EXCEPT ![s] = @ + SharesBought(s)]
    BY <1>4 DEF RouteBuy, Fault
  <2>2. SharesBought(s) = t - h
    BY <1>0 DEF SharesBought
  <2>3. held'[s] = h + (t - h)
    BY <1>0, <2>1, <2>2
  <2>. HIDE DEF h, t
  <2>4. held'[s] = t
    BY <1>0, <2>3
  <2>. QED
    BY <1>0, <2>4 DEF NearTo, t
<1>5. CASE RouteSell(s)
  <2>1. /\ kind = "trim"
        /\ \/ held' = [held EXCEPT ![s] = @ - SharesSold(s)]
           \/ held[s] < SharesSold(s)
    BY <1>5 DEF RouteSell, Fault
  <2>2. CASE FullExit(s)
    <3>1. SharesSold(s) = h /\ t = 0
      BY <1>2, <2>2 DEF SharesSold
    <3>2. held' = [held EXCEPT ![s] = @ - SharesSold(s)]
      <4>. HIDE DEF t
      <4>. QED
        BY <1>0, <2>1, <3>1
    <3>3. held'[s] = h - h
      BY <1>0, <3>1, <3>2
    <3>4. held'[s] = 0
      <4>. HIDE DEF h
      <4>. QED
        BY <1>0, <3>3
    <3>. QED
      BY <1>0, <3>1, <3>4 DEF NearTo
  <2>3. CASE ~FullExit(s)
    <3>1. SharesSold(s) = h - t
      BY <1>0, <2>3 DEF SharesSold
    <3>2. t < h
      BY <1>1, <2>1
    <3>3. held' = [held EXCEPT ![s] = @ - SharesSold(s)]
      <4>1. ~(h < h - t)
        <5>. HIDE DEF h, t
        <5>. QED
          BY <1>0
      <4>. QED
        BY <2>1, <3>1, <4>1
    <3>4. held'[s] = h - (h - t)
      BY <1>0, <3>1, <3>3
    <3>5. held'[s] = t
      <4>. HIDE DEF h, t
      <4>. QED
        BY <1>0, <3>4
    <3>. HIDE DEF t
    <3>. QED
      BY <1>0, <3>5 DEF NearTo, t
  <2>. QED
    BY <2>2, <2>3
<1>. QED
  BY <1>3, <1>4, <1>5

(* What a route leaves alone.                                              *)
LEMMA RouteRest ==
  ASSUME TypeOK, NEW s \in Symbols, RouteNothing(s) \/ RouteBuy(s) \/ RouteSell(s)
  PROVE  /\ pc \in Routing /\ Order[pc] = s /\ s \in input.seen /\ pc' = pc + 1
         /\ UNCHANGED <<input, current, target, available>>
         /\ \A u \in Symbols : u # s => held'[u] = held[u]
         /\ held' \in [Symbols -> Nat] /\ ordered' \in BOOLEAN
         /\ \/ UNCHANGED <<calm, upsets>>
            \/ calm' = -1 /\ upsets < MaxUpsets /\ upsets' = upsets + 1
<1>. USE DEF TypeOK
<1>0. /\ pc \in Routing /\ Order[pc] = s /\ s \in input.seen /\ pc' = pc + 1
      /\ UNCHANGED <<input, current, target, available>>
  BY DEF RouteNothing, RouteBuy, RouteSell, Routed
<1>1. target[s] \in Nat /\ current[s] \in Nat /\ available[s] \in Nat /\ held[s] \in Nat
  OBVIOUS
<1>2. CASE RouteNothing(s)
  BY <1>0, <1>2 DEF RouteNothing, NoFault
<1>3. CASE RouteBuy(s)
  <2>1. ClassifyRebalance(s) \in {"entry", "add"}
    BY <1>3 DEF RouteBuy
  <2>2. target[s] > current[s]
    <3>1. CASE current[s] > 0 /\ target[s] > current[s]
      BY <3>1
    <3>2. CASE current[s] > 0 /\ ~(target[s] > current[s]) /\ target[s] < current[s]
      BY <2>1, <3>2 DEF ClassifyRebalance
    <3>3. CASE current[s] = 0 /\ target[s] > 0
      BY <1>1, <3>3
    <3>4. CASE current[s] = 0 /\ ~(target[s] > 0)
      <4>1. ~(current[s] > 0) /\ target[s] = 0
        BY <1>1, <3>4
      <4>. QED
        BY <2>1, <3>4, <4>1 DEF ClassifyRebalance
    <3>5. CASE current[s] > 0 /\ target[s] = current[s]
      <4>1. ~(target[s] > current[s]) /\ ~(target[s] < current[s]) /\ ~(current[s] = 0)
        BY <1>1, <3>5
      <4>. QED
        BY <2>1, <3>5, <4>1 DEF ClassifyRebalance
    <3>. QED
      BY <1>1, <3>1, <3>2, <3>3, <3>4, <3>5
  <2>3. SharesBought(s) \in Nat
    BY <1>1, <2>2 DEF SharesBought
  <2>4. \/ held' = [held EXCEPT ![s] = @ + SharesBought(s)] /\ UNCHANGED <<calm, upsets>>
        \/ /\ UNCHANGED held /\ calm' = -1
           /\ upsets < MaxUpsets /\ upsets' = upsets + 1
    BY <1>3 DEF RouteBuy, NoFault, Fault, Upset
  <2>5. held' \in [Symbols -> Nat] /\ \A u \in Symbols : u # s => held'[u] = held[u]
    <3>1. held[s] + SharesBought(s) \in Nat /\ held \in [Symbols -> Nat]
      BY <1>1, <2>3
    <3>2. CASE held' = [held EXCEPT ![s] = @ + SharesBought(s)]
      <4>. DEFINE q == held[s] + SharesBought(s)
      <4>1. held' = [held EXCEPT ![s] = q] /\ q \in Nat
        BY <3>1, <3>2
      <4>. HIDE DEF q
      <4>. QED
        BY <3>1, <4>1
    <3>3. CASE held' = held
      BY <3>1, <3>3
    <3>. QED
      BY <2>4, <3>2, <3>3
  <2>6. ordered' \in BOOLEAN
    BY <1>3 DEF RouteBuy
  <2>. QED
    BY <1>0, <2>4, <2>5, <2>6
<1>4. CASE RouteSell(s)
  <2>1. SharesSold(s) \in Int
    BY <1>1 DEF SharesSold
  <2>2. \/ held' = [held EXCEPT ![s] = @ - SharesSold(s)] /\ held[s] >= SharesSold(s)
        \/ held' = held
    BY <1>4 DEF RouteSell
  <2>3. held' \in [Symbols -> Nat] /\ \A u \in Symbols : u # s => held'[u] = held[u]
    <3>1. held[s] >= SharesSold(s) => held[s] - SharesSold(s) \in Nat
      BY <1>1, <2>1
    <3>. QED
      BY <2>2, <3>1
  <2>4. \/ UNCHANGED <<calm, upsets>>
        \/ calm' = -1 /\ upsets < MaxUpsets /\ upsets' = upsets + 1
    BY <1>4 DEF RouteSell, NoFault, Fault, Upset
  <2>5. ordered' \in BOOLEAN
    BY <1>4 DEF RouteSell
  <2>. QED
    BY <1>0, <2>3, <2>4, <2>5
<1>. QED
  BY <1>2, <1>3, <1>4
-----------------------------------------------------------------------------
IInv == TypeOK /\ Aimed /\ Undisturbed

(* The invariant holds of an empty account.                                *)
LEMMA Start == Init => IInv
<1>. SUFFICES ASSUME Init PROVE IInv
  OBVIOUS
<1>1. Nothing \in [Symbols -> Nat] /\ Nothing \in [Symbols -> 0..NameCap]
  BY DEF Nothing
<1>2. Idle \in Idle..(Len(Order) + 1) /\ 0 \in -1..2 /\ 0 \in 0..MaxUpsets
  BY OrderType DEF Idle
<1>3. TypeOK
  BY <1>1, <1>2 DEF Init, TypeOK
<1>4. pc = Idle /\ calm = 0 /\ pc # Weighed
  BY DEF Init, Idle, Weighed
<1>. QED
  BY <1>3, <1>4 DEF IInv, Aimed, Undisturbed, Settled

(* Reading the weights and computing the targets.                          *)
LEMMA DecideStep == ASSUME IInv, Decide PROVE IInv'
<1>. USE DEF IInv
<1>1. /\ pc = Idle /\ pc' = Weighed /\ input' \in Inputs
      /\ target' = TargetsFrom(current', input')
      /\ UNCHANGED <<held, available, ordered>>
  BY DEF Decide
<1>2. Weighed \in Idle..(Len(Order) + 1) /\ Weighed # Idle /\ Nothing \in [Symbols -> Nat]
  BY OrderType DEF Weighed, Idle, Nothing
<1>3. target' \in [Symbols -> 0..NameCap]
  BY <1>1, TargetsBound
<1>4. \/ current' = held /\ calm' \in {calm, 0} /\ upsets' = upsets
      \/ current' = Nothing /\ calm' = -1 /\ upsets < MaxUpsets /\ upsets' = upsets + 1
  BY DEF Decide, Fault, Upset
<1>5. calm \in -1..2 /\ upsets \in 0..MaxUpsets /\ held \in [Symbols -> Nat]
      /\ {current, available} \subseteq [Symbols -> Nat] /\ ordered \in BOOLEAN
  BY DEF TypeOK
<1>6. calm' \in -1..2 /\ upsets' \in 0..MaxUpsets
  BY <1>4, <1>5
<1>7. current' \in [Symbols -> Nat]
  BY <1>2, <1>4, <1>5
<1>8. TypeOK'
  BY <1>1, <1>2, <1>3, <1>5, <1>6, <1>7 DEF TypeOK
<1>9. Aimed'
  BY <1>1 DEF Aimed
<1>10. calm' >= 0 => current' = held'
  BY <1>1, <1>4
<1>11. Undisturbed'
  BY <1>1, <1>2, <1>10 DEF Undisturbed, Settled
<1>. QED
  BY <1>8, <1>9, <1>11

(* Reading the quantities.                                                 *)
LEMMA ReadStep == ASSUME IInv, ReadQuantities PROVE IInv'
<1>. USE DEF IInv
<1>1. /\ pc = Weighed /\ pc' = 1
      /\ UNCHANGED <<held, input, current, target, ordered>>
      /\ \/ calm' = calm /\ upsets' = upsets
            /\ available' = [s \in Symbols |-> IF s \in input.covered THEN 0 ELSE held[s]]
         \/ calm' = -1 /\ upsets < MaxUpsets /\ upsets' = upsets + 1 /\ available' = Nothing
  BY DEF ReadQuantities, NoFault, Fault, Upset
<1>2. /\ held \in [Symbols -> Nat] /\ current \in [Symbols -> Nat]
      /\ calm \in -1..2 /\ upsets \in 0..MaxUpsets
  BY DEF TypeOK
<1>3. 1 \in Idle..(Len(Order) + 1) /\ 1 # Idle /\ 1 # Weighed /\ Weighed # Idle
  BY OrderType DEF Weighed, Idle
<1>4. available' \in [Symbols -> Nat]
  <2>1. [s \in Symbols |-> IF s \in input.covered THEN 0 ELSE held[s]] \in [Symbols -> Nat]
    BY <1>2
  <2>2. Nothing \in [Symbols -> Nat]
    BY DEF Nothing
  <2>. QED
    BY <1>1, <2>1, <2>2
<1>5. calm' \in -1..2 /\ upsets' \in 0..MaxUpsets
  BY <1>1, <1>2
<1>6. TypeOK'
  BY <1>1, <1>2, <1>3, <1>4, <1>5 DEF TypeOK
<1>7. Aimed'
  BY <1>1, <1>3 DEF Aimed
<1>8. ASSUME calm' >= 0, NEW s \in InReach'
      PROVE  ~Reached(s)' /\ held'[s] = current'[s] /\ available'[s] = current'[s]
  <2>1. calm >= 0 /\ s \in Symbols /\ s \notin input.covered
        /\ available' = [u \in Symbols |-> IF u \in input.covered THEN 0 ELSE held[u]]
    <3>1. input \in Inputs /\ s \in input.seen /\ s \notin input.covered
      BY <1>1, <1>8 DEF TypeOK, InReach
    <3>. QED
      BY <1>1, <1>8, <3>1, InitInputs
  <2>2. held = current
    BY <1>1, <2>1 DEF Undisturbed
  <2>3. ~Reached(s)'
    BY <1>1, OrderType DEF Reached, Routing
  <2>. QED
    BY <1>1, <2>1, <2>2, <2>3
<1>9. Undisturbed'
  BY <1>1, <1>3, <1>8 DEF Undisturbed, Settled
<1>. QED
  BY <1>6, <1>7, <1>9

(* A step of the routing adds one symbol to those reached.                 *)
LEMMA ReachedNext ==
  ASSUME pc \in Routing, pc' = pc + 1, NEW u \in Symbols
  PROVE  /\ Reached(u)' <=> (Reached(u) \/ Order[pc] = u)
         /\ Reached(u) => Order[pc] # u
<1>1. pc \in Int /\ Routing \subseteq Int
  BY OrderType DEF Routing
<1>2. \A j \in Routing : j < pc' <=> (j < pc \/ j = pc)
  BY <1>1
<1>3. Reached(u) => Order[pc] # u
  <2>1. ASSUME NEW j \in Routing, j < pc, Order[j] = u, Order[pc] = u PROVE FALSE
    BY <1>1, <2>1, OrderType
  <2>. QED
    BY <2>1 DEF Reached
<1>. QED
  BY <1>2, <1>3 DEF Reached

(* Routing one symbol: one more of them is near its target.                *)
LEMMA RouteStep ==
  ASSUME IInv, NEW s \in Symbols, RouteNothing(s) \/ RouteBuy(s) \/ RouteSell(s)
  PROVE  IInv'
<1>. USE DEF IInv
<1>1. /\ pc \in Routing /\ Order[pc] = s /\ s \in input.seen /\ pc' = pc + 1
      /\ UNCHANGED <<input, current, target, available>>
      /\ \A u \in Symbols : u # s => held'[u] = held[u]
      /\ held' \in [Symbols -> Nat] /\ ordered' \in BOOLEAN
      /\ \/ UNCHANGED <<calm, upsets>>
         \/ calm' = -1 /\ upsets < MaxUpsets /\ upsets' = upsets + 1
  BY RouteRest
<1>2. pc' \in Idle..(Len(Order) + 1) /\ pc' \notin {Idle, Weighed} /\ pc \notin {Idle, Weighed}
  BY <1>1, OrderType DEF Routing, Idle, Weighed
<1>3. calm' \in -1..2 /\ upsets' \in 0..MaxUpsets
  <2>1. calm \in -1..2 /\ upsets \in 0..MaxUpsets
    BY DEF TypeOK
  <2>. QED
    BY <1>1, <2>1
<1>4. TypeOK'
  BY <1>1, <1>2, <1>3 DEF TypeOK
<1>5. Aimed'
  BY <1>1, <1>2 DEF Aimed
<1>6. ASSUME calm' >= 0, NEW u \in InReach'
      PROVE  IF Reached(u)' THEN Near(u)' ELSE held'[u] = current'[u] /\ available'[u] = current'[u]
  <2>1. calm >= 0 /\ u \in InReach /\ u \in Symbols
    <3>1. u \in InReach /\ input \in Inputs
      BY <1>1, <1>6 DEF TypeOK, InReach
    <3>. QED
      BY <1>1, <1>6, <3>1, InitInputs DEF InReach
  <2>2. IF Reached(u) THEN Near(u) ELSE held[u] = current[u] /\ available[u] = current[u]
    BY <1>2, <2>1 DEF Undisturbed
  <2>3. /\ Reached(u)' <=> (Reached(u) \/ Order[pc] = u)
        /\ Reached(u) => Order[pc] # u
    BY <1>1, <2>1, ReachedNext
  <2>4. CASE u = s
    <3>1. held[s] = current[s] /\ available[s] = current[s] /\ Reached(u)'
      BY <1>1, <2>2, <2>3, <2>4
    <3>2. NearTo(held'[s], target[s])
      BY <1>6, <2>1, <3>1, RouteNear
    <3>. QED
      BY <1>1, <2>4, <3>1, <3>2 DEF Near
  <2>5. CASE u # s
    BY <1>1, <2>1, <2>2, <2>3, <2>5 DEF Near
  <2>. QED
    BY <2>4, <2>5
<1>7. Undisturbed'
  BY <1>2, <1>6 DEF Undisturbed, Settled
<1>. QED
  BY <1>4, <1>5, <1>7

(* A symbol without a row is not within reach.                             *)
LEMMA SkipStep == ASSUME IInv, SkipUnseen PROVE IInv'
<1>. USE DEF IInv
<1>1. /\ pc \in Routing /\ Order[pc] \notin input.seen /\ pc' = pc + 1
      /\ UNCHANGED <<held, input, current, target, available, ordered, calm, upsets>>
  BY DEF SkipUnseen, NoFault
<1>2. pc' \in Idle..(Len(Order) + 1) /\ pc' \notin {Idle, Weighed} /\ pc \notin {Idle, Weighed}
  BY <1>1, OrderType DEF Routing, Idle, Weighed
<1>3. TypeOK'
  BY <1>1, <1>2 DEF TypeOK
<1>4. Aimed'
  BY <1>1, <1>2 DEF Aimed
<1>5. ASSUME calm' >= 0, NEW u \in InReach'
      PROVE  IF Reached(u)' THEN Near(u)' ELSE held'[u] = current'[u] /\ available'[u] = current'[u]
  <2>1. calm >= 0 /\ u \in InReach /\ u \in Symbols /\ u # Order[pc]
    <3>1. u \in InReach /\ input \in Inputs
      BY <1>1, <1>5 DEF TypeOK, InReach
    <3>. QED
      BY <1>1, <1>5, <3>1, InitInputs DEF InReach
  <2>2. IF Reached(u) THEN Near(u) ELSE held[u] = current[u] /\ available[u] = current[u]
    BY <1>2, <2>1 DEF Undisturbed
  <2>3. Reached(u)' <=> (Reached(u) \/ Order[pc] = u)
    BY <1>1, <2>1, ReachedNext
  <2>. QED
    BY <1>1, <2>1, <2>2, <2>3 DEF Near
<1>6. Undisturbed'
  BY <1>2, <1>5 DEF Undisturbed, Settled
<1>. QED
  BY <1>3, <1>4, <1>6

(* A cycle ends where every symbol has been reached.                       *)
LEMMA EndStep == ASSUME IInv, EndCycle PROVE IInv'
<1>. USE DEF IInv
<1>1. /\ pc = Len(Order) + 1 /\ pc' = Idle
      /\ calm' = IF calm < 2 THEN calm + 1 ELSE calm
      /\ current' = Nothing /\ available' = Nothing /\ ordered' = FALSE
      /\ UNCHANGED <<held, input, target, upsets>>
  BY DEF EndCycle
<1>2. calm \in -1..2 /\ Nothing \in [Symbols -> Nat] /\ Idle \in Idle..(Len(Order) + 1)
  BY OrderType DEF TypeOK, Nothing, Idle
<1>3. calm' \in 0..2 /\ (calm' >= 1 => calm >= 0)
  BY <1>1, <1>2
<1>4. TypeOK'
  <2>1. calm' \in -1..2 /\ calm' >= 0
    BY <1>3
  <2>. QED
    BY <1>1, <1>2, <2>1 DEF TypeOK
<1>5. Aimed'
  BY <1>1 DEF Aimed
<1>6. pc \notin {Idle, Weighed} /\ Idle # Weighed
  BY <1>1, OrderType DEF Idle, Weighed
<1>7. ASSUME calm' >= 1, NEW u \in InReach' PROVE Near(u)'
  <2>1. calm >= 0 /\ u \in InReach /\ u \in Symbols
    <3>1. u \in InReach /\ input \in Inputs
      BY <1>1, <1>7 DEF TypeOK, InReach
    <3>. QED
      BY <1>3, <1>7, <3>1, InitInputs DEF InReach
  <2>2. Reached(u)
    <3>1. PICK j \in Routing : Order[j] = u
      BY <2>1, OrderType
    <3>2. j < pc
      BY <1>1, <3>1, OrderType DEF Routing
    <3>. QED
      BY <3>1, <3>2 DEF Reached
  <2>. QED
    BY <1>1, <1>6, <2>1, <2>2 DEF Undisturbed, Near
<1>8. calm' >= 0
  BY <1>3
<1>9. Undisturbed'
  BY <1>1, <1>6, <1>7, <1>8 DEF Undisturbed, Settled
<1>. QED
  BY <1>4, <1>5, <1>9

(* A move that nobody ordered, of the market or by a stop, and a crash all *)
(* say that the cycle was disturbed.                                       *)
LEMMA UpsetStep ==
  ASSUME IInv, held' \in [Symbols -> Nat], upsets < MaxUpsets, upsets' = upsets + 1,
         UNCHANGED <<input, target>>,
         \/ /\ UNCHANGED <<current, available, pc, ordered>>
            /\ calm' = IF pc = Idle THEN 0 ELSE -1
         \/ /\ pc' = Idle /\ calm' = 0
            /\ current' = Nothing /\ available' = Nothing /\ ordered' = FALSE
  PROVE  IInv'
<1>. USE DEF IInv
<1>1. upsets' \in 0..MaxUpsets
  <2>1. upsets \in 0..MaxUpsets
    BY DEF TypeOK
  <2>. QED
    BY <2>1
<1>2. Nothing \in [Symbols -> Nat] /\ Idle \in Idle..(Len(Order) + 1) /\ Idle # Weighed
  BY OrderType DEF Nothing, Idle, Weighed
<1>3. calm' \in -1..2 /\ ~(calm' >= 1) /\ (pc' = Idle => calm' >= 0) /\ (pc' # Idle => ~(calm' >= 0))
  OBVIOUS
<1>4. TypeOK'
  <2>1. pc' \in Idle..(Len(Order) + 1) /\ ordered' \in BOOLEAN
        /\ {current', available'} \subseteq [Symbols -> Nat]
    BY <1>2 DEF TypeOK
  <2>. QED
    BY <1>1, <1>3, <2>1 DEF TypeOK
<1>5. Aimed'
  BY DEF Aimed
<1>6. Undisturbed'
  BY <1>2, <1>3 DEF Undisturbed, Settled
<1>. QED
  BY <1>4, <1>5, <1>6

(* Every step keeps the invariant.                                         *)
LEMMA Inductive == IInv /\ [Next]_vars => IInv'
<1>. SUFFICES ASSUME IInv, [Next]_vars PROVE IInv'
  OBVIOUS
<1>0. held \in [Symbols -> Nat]
  BY DEF IInv, TypeOK
<1>1. CASE Decide
  BY <1>1, DecideStep
<1>2. CASE ReadQuantities
  BY <1>2, ReadStep
<1>3. CASE SkipUnseen
  BY <1>3, SkipStep
<1>4. CASE EndCycle
  BY <1>4, EndStep
<1>5. CASE Crash
  <2>1. held' = held /\ upsets < MaxUpsets /\ upsets' = upsets + 1
        /\ UNCHANGED <<input, target>> /\ pc' = Idle /\ calm' = 0
        /\ current' = Nothing /\ available' = Nothing /\ ordered' = FALSE
    BY <1>5 DEF Crash, Upset
  <2>. QED
    BY <1>0, <2>1, UpsetStep
<1>6. ASSUME NEW s \in Symbols, RouteNothing(s) \/ RouteBuy(s) \/ RouteSell(s) PROVE IInv'
  BY <1>6, RouteStep
<1>7. ASSUME NEW s \in Symbols, StopFill(s) PROVE IInv'
  <2>1. held' = [held EXCEPT ![s] = 0] /\ upsets < MaxUpsets /\ upsets' = upsets + 1
        /\ UNCHANGED <<input, target, current, available, pc, ordered>>
        /\ calm' = IF pc = Idle THEN 0 ELSE -1
    BY <1>7 DEF StopFill, Disturbed, Upset
  <2>2. held' \in [Symbols -> Nat]
    BY <1>0, <2>1
  <2>. QED
    BY <2>1, <2>2, UpsetStep
<1>8. ASSUME NEW s \in Symbols, MarketMoves(s) PROVE IInv'
  <2>1. PICK move \in Moves : held' = [held EXCEPT ![s] = @ + move] /\ held[s] + move > 0
    BY <1>8 DEF MarketMoves
  <2>2. upsets < MaxUpsets /\ upsets' = upsets + 1
        /\ UNCHANGED <<input, target, current, available, pc, ordered>>
        /\ calm' = IF pc = Idle THEN 0 ELSE -1
    BY <1>8 DEF MarketMoves, Disturbed, Upset
  <2>3. held[s] + move \in Nat
    <3>1. move \in Int /\ held[s] \in Nat
      BY <1>0
    <3>. QED
      BY <2>1, <3>1
  <2>4. held' \in [Symbols -> Nat]
    BY <1>0, <2>1, <2>3
  <2>. QED
    BY <2>2, <2>4, UpsetStep
<1>9. CASE UNCHANGED vars
  BY <1>9 DEF vars, IInv, TypeOK, Aimed, Undisturbed, Settled, Near, Reached, InReach
<1>. QED
  BY <1>1, <1>2, <1>3, <1>4, <1>5, <1>6, <1>7, <1>8, <1>9 DEF Next
-----------------------------------------------------------------------------
(* The weights held, as read and aimed at stay natural numbers, no target  *)
(* is above the cap of a name and the place in the order of routing stays  *)
(* within the order, in every cycle of main.py and with whatever failures. *)
THEOREM TypeCorrect == Spec => []TypeOK
<1>1. IInv => TypeOK
  BY DEF IInv
<1>. QED
  BY <1>1, Start, Inductive, PTL DEF Spec

LEMMA AimedFair == IInv => FairShares
<1>. SUFFICES ASSUME IInv, pc # Idle, ~ColdStart(Names(current, input), input.edge)
              PROVE  Fair(Names(current, input), input.edge, target)
  BY Zenon DEF FairShares, Fair, Names
<1>1. target = TargetsFrom(current, input) /\ input \in Inputs
  BY DEF IInv, Aimed, TypeOK
<1>. QED
  BY <1>1, TargetsBound

(* compute_target_weights gives the water-filled shares for every set of   *)
(* names, edges and precisions: one level, the names whose share would be  *)
(* above it capped, what is left divided among the others by their scores. *)
THEOREM SharesAreFair == Spec => []FairShares
<1>. QED
  BY AimedFair, Start, Inductive, PTL DEF Spec

(* After a cycle that nothing disturbed no symbol the cycle could sell is  *)
(* held without a target, however many symbols there are and whatever      *)
(* failures, stop fills and crashes went before (main.py:472-474).         *)
THEOREM OrphansSold == Spec => []NoOrphans
<1>1. IInv => NoOrphans
  BY DEF IInv, Undisturbed, NoOrphans, Near, NearTo
<1>. QED
  BY <1>1, Start, Inductive, PTL DEF Spec

(* The positions within reach, together at most the targets and a dead     *)
(* band each.                                                              *)
LEMMA NearTotal ==
  ASSUME NEW S \in SUBSET Symbols, NEW v \in [Symbols -> Nat],
         NEW w \in [Symbols -> 0..NameCap],
         \A s \in S : NearTo(v[s], w[s])
  PROVE  SumOf(v, S) <= SumOf(w, S) + DeadBand * Cardinality(S)
<1>1. IsFiniteSet(S) /\ Naturals(v, S) /\ Naturals(w, S) /\ DeadBand \in Nat
  BY FS_Subset DEF Naturals
<1>2. \A s \in S : 1 * v[s] + 0 <= 1 * w[s] + DeadBand
  <2>1. \A s \in S : v[s] \in Nat /\ w[s] \in Nat
    BY <1>1 DEF Naturals
  <2>2. \A m, n, d \in Nat : (m <= n \/ m < n + d) => 1 * m + 0 <= 1 * n + d
    OBVIOUS
  <2>. QED
    BY <1>1, <2>1, <2>2 DEF NearTo
<1>. DEFINE n == Cardinality(S)
            x == SumOf(v, S)
            y == SumOf(w, S)
            z == DeadBand * n
<1>3. 1 * x + 0 * n <= 1 * y + z
  BY <1>1, <1>2, SumBound
<1>4. x \in Nat /\ y \in Nat /\ n \in Nat /\ z \in Nat
  BY <1>1, SumType, FS_CardinalityType, Naturally
<1>5. x <= y + z
  <2>. HIDE DEF x, y, z, n
  <2>. QED
    BY <1>3, <1>4
<1>. QED
  BY <1>5

(* The targets of the symbols of any set together are within the budget.   *)
Budgeted == \A R \in SUBSET Symbols : SumOf(target, R) <= Budget

(* An empty target is within any budget.                                   *)
LEMMA StartBudgeted == Init => Budgeted
<1>. SUFFICES ASSUME Init, NEW R \in SUBSET Symbols PROVE SumOf(target, R) <= Budget
  BY DEF Budgeted
<1>1. target = Nothing /\ Nothing \in [Symbols -> 0..NameCap]
      /\ \A s \in R : Nothing[s] = 0
  BY DEF Init, Nothing
<1>2. SumOf(Nothing, {}) = 0 /\ Budget \in Nat
  BY SumEmpty
<1>3. SumOf(Nothing, {}) <= Budget /\ {} \in SUBSET Symbols
      /\ \A s \in Symbols \ {} : Nothing[s] = 0
  BY <1>2 DEF Nothing
<1>. HIDE DEF Nothing
<1>. QED
  BY <1>1, <1>3, SubsetBudget

(* Only a decision changes the targets.                                    *)
LEMMA StaysBudgeted == Budgeted /\ [Next]_vars => Budgeted'
<1>. SUFFICES ASSUME Budgeted, [Next]_vars PROVE Budgeted'
  OBVIOUS
<1>1. CASE Decide
  <2>1. target' = TargetsFrom(current', input') /\ input' \in Inputs
    BY <1>1 DEF Decide
  <2>. QED
    BY <2>1, TargetsBound DEF Budgeted
<1>2. CASE target' = target
  BY <1>2 DEF Budgeted
<1>. QED
  BY <1>1, <1>2 DEF Next, vars, ReadQuantities, SkipUnseen, EndCycle, Crash, Routed,
     RouteNothing, RouteBuy, RouteSell, StopFill, MarketMoves

(* Near targets within the budget are within the mandate.                  *)
LEMMA NearMandate == IInv /\ Budgeted => WithinMandate
<1>. SUFFICES ASSUME IInv, Budgeted, Settled PROVE
       /\ \A s \in InReach : held[s] <= NameCap \/ held[s] < NameCap + DeadBand
       /\ MapThenSumSet(LAMBDA s : held[s], InReach)
              <= Budget + DeadBand * Cardinality(InReach)
  BY Zenon DEF WithinMandate
<1>1. /\ held \in [Symbols -> Nat] /\ target \in [Symbols -> 0..NameCap]
      /\ input \in Inputs /\ InReach \in SUBSET Symbols
  <2>1. held \in [Symbols -> Nat] /\ target \in [Symbols -> 0..NameCap] /\ input \in Inputs
    BY DEF IInv, TypeOK
  <2>. QED
    BY <2>1, InitInputs DEF InReach
<1>2. \A s \in InReach : NearTo(held[s], target[s])
  BY DEF IInv, Undisturbed, Near
<1>3. ASSUME NEW s \in InReach PROVE held[s] <= NameCap \/ held[s] < NameCap + DeadBand
  <2>1. held[s] \in Nat /\ target[s] \in 0..NameCap /\ NameCap \in Nat /\ DeadBand \in Nat
    BY <1>1
  <2>2. held[s] <= target[s] \/ held[s] < target[s] + DeadBand
    BY <1>2 DEF NearTo
  <2>. QED
    BY <2>1, <2>2
<1>4. MapThenSumSet(LAMBDA s : held[s], InReach) = SumOf(held, InReach)
  BY DEF MapThenSumSet, MapThenFoldSet, SumOf, IsTotal, Pick
<1>5. SumOf(held, InReach) <= SumOf(target, InReach) + DeadBand * Cardinality(InReach)
  BY <1>1, <1>2, NearTotal
<1>6. SumOf(target, InReach) <= Budget
  BY <1>1 DEF Budgeted
<1>7. SumOf(held, InReach) <= Budget + DeadBand * Cardinality(InReach)
  <2>. DEFINE x == SumOf(held, InReach)
              y == SumOf(target, InReach)
              n == Cardinality(InReach)
              z == DeadBand * n
  <2>1. IsFiniteSet(InReach) /\ Naturals(held, InReach) /\ Naturals(target, InReach)
    BY <1>1, FS_Subset DEF Naturals
  <2>2. x \in Nat /\ y \in Nat /\ n \in Nat /\ Budget \in Nat /\ DeadBand \in Nat
    BY <2>1, SumType, FS_CardinalityType
  <2>3. z \in Nat
    BY <2>2, Naturally
  <2>4. x <= y + z /\ y <= Budget
    BY <1>5, <1>6
  <2>5. x <= Budget + z
    <3>. HIDE DEF x, y, z
    <3>. QED
      BY <2>2, <2>3, <2>4
  <2>. QED
    BY <2>5
<1>. QED
  BY <1>3, <1>4, <1>7

(* One cycle that nothing disturbed brings the names within reach back     *)
(* under the cap and together within the budget, each within a dead band,  *)
(* whatever doubled purchases and lost sells went before.                  *)
THEOREM MandateRestored == Spec => []WithinMandate
<1>. QED
  BY NearMandate, StartBudgeted, StaysBudgeted, Start, Inductive, PTL DEF Spec
-----------------------------------------------------------------------------
(* The selection.  Ranking is a strict order of the candidates, and what   *)
(* ranks before one of the top K is among them.                            *)
Above(c, edge, I, s) == {u \in c : RanksBefore(edge, I, u, s)}

LEMMA RankOrder ==
  ASSUME NEW c, NEW edge, Edged(c, edge), NEW I
  PROVE  /\ \A u \in c : ~RanksBefore(edge, I, u, u)
         /\ \A u, v, w \in c : RanksBefore(edge, I, u, v) /\ RanksBefore(edge, I, v, w) =>
                RanksBefore(edge, I, u, w)
         /\ \A u, v \in c : u # v => RanksBefore(edge, I, u, v) \/ RanksBefore(edge, I, v, u)
<1>. DEFINE b(u) == Boosted(edge, I, u)
            p(u) == Position(u)
<1>1. ASSUME NEW u \in c PROVE b(u) \in Int /\ p(u) \in Int /\ Order[p(u)] = u
  <2>1. edge[u] \in Int /\ u \in Symbols /\ Hysteresis \in Int
    BY DEF Edged
  <2>2. \E i \in DOMAIN Order : Order[i] = u
    BY <2>1
  <2>3. p(u) \in DOMAIN Order /\ Order[p(u)] = u
    BY <2>2 DEF Position
  <2>4. DOMAIN Order \subseteq Int
    BY OrderType
  <2>. QED
    BY <2>1, <2>3, <2>4 DEF Boosted
<1>2. \A u, v : RanksBefore(edge, I, u, v) <=> b(u) > b(v) \/ (b(u) = b(v) /\ p(u) < p(v))
  BY DEF RanksBefore
<1>. HIDE DEF b, p
<1>3. \A u \in c : ~RanksBefore(edge, I, u, u)
  BY <1>1, <1>2
<1>4. ASSUME NEW u \in c, NEW v \in c, NEW w \in c,
             RanksBefore(edge, I, u, v), RanksBefore(edge, I, v, w)
      PROVE  RanksBefore(edge, I, u, w)
  <2>1. /\ b(u) \in Int /\ b(v) \in Int /\ b(w) \in Int
        /\ p(u) \in Int /\ p(v) \in Int /\ p(w) \in Int
    BY <1>1
  <2>2. /\ b(u) > b(v) \/ (b(u) = b(v) /\ p(u) < p(v))
        /\ b(v) > b(w) \/ (b(v) = b(w) /\ p(v) < p(w))
    BY <1>2, <1>4
  <2>3. b(u) > b(w) \/ (b(u) = b(w) /\ p(u) < p(w))
    BY <2>1, <2>2
  <2>. QED
    BY <1>2, <2>3
<1>5. ASSUME NEW u \in c, NEW v \in c, u # v
      PROVE  RanksBefore(edge, I, u, v) \/ RanksBefore(edge, I, v, u)
  <2>1. b(u) \in Int /\ b(v) \in Int /\ p(u) \in Int /\ p(v) \in Int /\ p(u) # p(v)
    BY <1>1, <1>5
  <2>. QED
    BY <1>2, <2>1
<1>. QED
  BY <1>3, <1>4, <1>5

LEMMA TopPrefix ==
  ASSUME NEW c, NEW edge, Edged(c, edge), NEW I, NEW s \in c
  PROVE  /\ IsFiniteSet(c)
         /\ IsFiniteSet(Above(c, edge, I, s)) /\ Cardinality(Above(c, edge, I, s)) \in Nat
         /\ s \in SelectTopK(c, edge, I) <=> Cardinality(Above(c, edge, I, s)) < MaxHoldings
         /\ \A u \in Above(c, edge, I, s) :
                /\ Above(c, edge, I, u) \subseteq Above(c, edge, I, s)
                /\ Cardinality(Above(c, edge, I, u)) < Cardinality(Above(c, edge, I, s))
                /\ s \in SelectTopK(c, edge, I) => u \in SelectTopK(c, edge, I)
<1>. DEFINE A(u) == Above(c, edge, I, u)
<1>1. IsFiniteSet(c) /\ \A u \in c : A(u) \in SUBSET c
  BY ScoreType DEF Above, Edged
<1>2. \A u \in c : IsFiniteSet(A(u)) /\ Cardinality(A(u)) \in Nat
  BY <1>1, FS_Subset, FS_CardinalityType
<1>3. \A u \in c : u \in SelectTopK(c, edge, I) <=> Cardinality(A(u)) < MaxHoldings
  BY DEF SelectTopK, Above
<1>4. ASSUME NEW u \in A(s)
      PROVE  A(u) \subseteq A(s) /\ Cardinality(A(u)) < Cardinality(A(s)) /\ u \in c
  <2>1. u \in c /\ RanksBefore(edge, I, u, s)
    BY DEF Above
  <2>2. A(u) \subseteq A(s)
    BY <2>1, RankOrder DEF Above
  <2>3. u \notin A(u)
    BY <2>1, RankOrder DEF Above
  <2>4. Cardinality(A(u)) <= Cardinality(A(s)) /\ Cardinality(A(u)) # Cardinality(A(s))
    BY <1>2, <2>1, <2>2, <2>3, FS_Subset
  <2>. QED
    BY <1>2, <2>1, <2>2, <2>4
<1>5. MaxHoldings \in Nat
  OBVIOUS
<1>. HIDE DEF A
<1>6. \A u \in A(s) : s \in SelectTopK(c, edge, I) => u \in SelectTopK(c, edge, I)
  BY <1>2, <1>3, <1>4, <1>5
<1>. QED
  BY <1>1, <1>2, <1>3, <1>4, <1>6 DEF A

(* There are K of them when there are as many candidates.                  *)
LEMMA TopCount ==
  ASSUME NEW c, NEW edge, Edged(c, edge), NEW I
  PROVE  /\ IsFiniteSet(SelectTopK(c, edge, I)) /\ SelectTopK(c, edge, I) \in SUBSET c
         /\ Cardinality(SelectTopK(c, edge, I)) <= MaxHoldings
         /\ Cardinality(c) > MaxHoldings => Cardinality(SelectTopK(c, edge, I)) = MaxHoldings
<1>. DEFINE A(u) == Above(c, edge, I, u)
            K == SelectTopK(c, edge, I)
            n == Cardinality(K)
<1>1. IsFiniteSet(c) /\ K \in SUBSET c /\ IsFiniteSet(K) /\ n \in Nat /\ Cardinality(c) \in Nat
      /\ MaxHoldings \in Nat \ {0}
  BY ScoreType, FS_Subset, FS_CardinalityType DEF SelectTopK, Edged
<1>2. \A s \in c : /\ IsFiniteSet(A(s)) /\ Cardinality(A(s)) \in Nat
                   /\ s \in K <=> Cardinality(A(s)) < MaxHoldings
                   /\ \A u \in A(s) : /\ A(u) \subseteq A(s)
                                      /\ Cardinality(A(u)) < Cardinality(A(s))
                                      /\ s \in K => u \in K
  BY TopPrefix
<1>3. n <= MaxHoldings
  <2>. SUFFICES ASSUME K # {} PROVE n <= MaxHoldings
    BY <1>1, FS_EmptySet
  <2>. DEFINE below(m) == {u \in K : m \in A(u)}
  <2>1. \A m \in K : below(m) \in SUBSET K /\ IsFiniteSet(below(m))
    BY <1>1, FS_Subset
  <2>3. PICK m \in K : \A u \in K : Cardinality(below(m)) <= Cardinality(below(u))
    <3>. HIDE DEF below, K
    <3>. DEFINE C == {below(m) : m \in K}
    <3>1. C # {} /\ \A T \in C : IsFiniteSet(T)
      BY <2>1
    <3>. HIDE DEF C
    <3>2. PICK T \in C : \A U \in C : Cardinality(T) <= Cardinality(U)
      BY <3>1, SmallestSet
    <3>3. PICK m \in K : T = below(m)
      BY <3>2 DEF C
    <3>4. \A u \in K : below(u) \in C
      BY DEF C
    <3>5. \A u \in K : Cardinality(below(m)) <= Cardinality(below(u))
      BY <3>2, <3>3, <3>4
    <3>. QED
      BY <3>5
  <2>4. below(m) = {}
    <3>. SUFFICES ASSUME NEW u \in below(m) PROVE FALSE
      OBVIOUS
    <3>1. u \in K /\ m \in A(u) /\ u \in c /\ m \in c
      BY <1>1
    <3>2. below(u) \subseteq below(m)
      BY <1>1, <1>2, <3>1
    <3>3. u \notin below(u)
      BY <3>1, RankOrder DEF Above
    <3>4. below(u) # below(m)
      BY <3>3
    <3>5. Cardinality(below(u)) <= Cardinality(below(m))
          /\ Cardinality(below(u)) # Cardinality(below(m))
      <4>. HIDE DEF below
      <4>. QED
        BY <2>1, <3>1, <3>2, <3>4, FS_Subset
    <3>6. Cardinality(below(u)) \in Nat /\ Cardinality(below(m)) \in Nat
      <4>. HIDE DEF below
      <4>. QED
        BY <2>1, <3>1, FS_CardinalityType
    <3>7. Cardinality(below(m)) <= Cardinality(below(u))
      BY <2>3, <3>1
    <3>. HIDE DEF below
    <3>. QED
      BY <3>5, <3>6, <3>7
  <2>5. K \ {m} \in SUBSET A(m)
    <3>. SUFFICES ASSUME NEW u \in K, u # m PROVE u \in A(m)
      OBVIOUS
    <3>1. u \in c /\ m \in c /\ m \notin A(u)
      BY <1>1, <2>4
    <3>. QED
      BY <3>1, RankOrder DEF Above
  <2>6. Cardinality(K \ {m}) = n - 1
    BY <1>1, FS_RemoveElement
  <2>7. m \in c /\ Cardinality(A(m)) \in Nat /\ Cardinality(A(m)) < MaxHoldings /\ IsFiniteSet(A(m))
    BY <1>1, <1>2
  <2>8. Cardinality(K \ {m}) <= Cardinality(A(m))
    BY <2>5, <2>7, FS_Subset
  <2>. HIDE DEF n, A, K
  <2>. QED
    BY <1>1, <2>6, <2>7, <2>8
<1>4. ASSUME Cardinality(c) > MaxHoldings PROVE n = MaxHoldings
  <2>1. c \ K # {}
    <3>. SUFFICES ASSUME c \ K = {} PROVE FALSE
      OBVIOUS
    <3>1. K = c
      BY <1>1
    <3>2. n = Cardinality(c)
      BY <3>1
    <3>. HIDE DEF n, K
    <3>. QED
      BY <1>1, <1>3, <1>4, <3>2
  <2>. DEFINE C == {A(s) : s \in c \ K}
  <2>2. \E T \in C : \A U \in C : Cardinality(T) <= Cardinality(U)
    <3>1. C # {} /\ \A T \in C : IsFiniteSet(T)
      BY <1>2, <2>1
    <3>. HIDE DEF C
    <3>. QED
      BY <3>1, SmallestSet
  <2>3. PICK s \in c \ K : \A u \in c \ K : Cardinality(A(s)) <= Cardinality(A(u))
    <3>. HIDE DEF A, K
    <3>. QED
      BY <2>2
  <2>4. A(s) \in SUBSET K
    <3>. SUFFICES ASSUME NEW u \in A(s), u \notin K PROVE FALSE
      OBVIOUS
    <3>1. u \in c
      BY DEF Above
    <3>2. Cardinality(A(u)) < Cardinality(A(s)) /\ Cardinality(A(s)) <= Cardinality(A(u))
      BY <1>2, <2>3, <3>1
    <3>3. Cardinality(A(u)) \in Nat /\ Cardinality(A(s)) \in Nat
      BY <1>2, <3>1
    <3>. HIDE DEF A, K
    <3>. QED
      BY <3>2, <3>3
  <2>5. Cardinality(A(s)) <= n /\ Cardinality(A(s)) \in Nat /\ ~(Cardinality(A(s)) < MaxHoldings)
    BY <1>1, <1>2, <2>4, FS_Subset
  <2>. HIDE DEF n, A, K
  <2>. QED
    BY <1>1, <1>3, <2>5
<1>. QED
  BY <1>1, <1>3, <1>4

(* A symbol that loses no boost keeps its rank before one that gains none. *)
LEMMA RankKept ==
  ASSUME NEW c, NEW edge, Edged(c, edge), NEW I, NEW J, NEW u \in c, NEW s \in c,
         u \in J => u \in I, s \in I => s \in J, RanksBefore(edge, J, u, s)
  PROVE  RanksBefore(edge, I, u, s)
<1>. DEFINE p(x) == Position(x)
            i(x) == Boosted(edge, I, x)
            j(x) == Boosted(edge, J, x)
<1>1. /\ j(u) > j(s) \/ (j(u) = j(s) /\ p(u) < p(s))
      /\ RanksBefore(edge, I, u, s) <=> i(u) > i(s) \/ (i(u) = i(s) /\ p(u) < p(s))
  BY DEF RanksBefore
<1>2. /\ i(u) \in Int /\ i(s) \in Int /\ j(u) \in Int /\ j(s) \in Int
      /\ i(u) >= j(u) /\ j(s) >= i(s)
  <2>1. edge[u] \in Int /\ edge[s] \in Int /\ Hysteresis \in Nat
    BY DEF Edged
  <2>. QED
    BY <2>1 DEF Boosted
<1>. HIDE DEF p, i, j
<1>. QED
  BY <1>1, <1>2

(* Names kept stay kept when they are the only ones to gain the boost.     *)
LEMMA TopRises ==
  ASSUME NEW c, NEW edge, Edged(c, edge), NEW I, NEW J,
         NEW A, A \subseteq SelectTopK(c, edge, I), A \subseteq J, J \ A \subseteq I
  PROVE  A \subseteq SelectTopK(c, edge, J)
<1>. DEFINE K == SelectTopK(c, edge, I)
<1>. SUFFICES ASSUME NEW s \in A PROVE s \in SelectTopK(c, edge, J)
  OBVIOUS
<1>. DEFINE B == Above(c, edge, J, s)
<1>1. s \in c /\ s \in K /\ s \in J /\ IsFiniteSet(K) /\ K \in SUBSET c
      /\ Cardinality(K) <= MaxHoldings /\ MaxHoldings \in Nat
  BY TopCount
<1>2. B \subseteq K \ {s}
  <2>. SUFFICES ASSUME NEW u \in c, RanksBefore(edge, J, u, s) PROVE u \in K \ {s}
    BY DEF Above
  <2>1. u # s
    BY RankOrder
  <2>2. ASSUME u \notin A PROVE u \in K
    <3>1. RanksBefore(edge, I, u, s)
      BY <1>1, <2>2, RankKept
    <3>2. u \in Above(c, edge, I, s)
      BY <3>1 DEF Above
    <3>. QED
      BY <1>1, <3>2, TopPrefix
  <2>. QED
    BY <2>1, <2>2
<1>3. /\ IsFiniteSet(K \ {s}) /\ Cardinality(K \ {s}) = Cardinality(K) - 1
      /\ Cardinality(K) \in Nat
  BY <1>1, FS_RemoveElement, FS_CardinalityType
<1>4. Cardinality(B) <= Cardinality(K \ {s}) /\ IsFiniteSet(B) /\ Cardinality(B) \in Nat
  BY <1>2, <1>3, FS_Subset, FS_CardinalityType
<1>5. Cardinality(B) < MaxHoldings
  <2>. DEFINE b == Cardinality(B)
              k == Cardinality(K)
              r == Cardinality(K \ {s})
  <2>1. b <= r /\ r = k - 1 /\ k <= MaxHoldings /\ b \in Nat /\ k \in Nat
    BY <1>1, <1>3, <1>4
  <2>. HIDE DEF b, k, r
  <2>2. b < MaxHoldings
    BY <1>1, <2>1
  <2>. QED
    BY <2>2 DEF b
<1>. QED
  BY <1>1, <1>5, TopPrefix

(* The boost of names that are kept already changes nothing.               *)
LEMMA TopStays ==
  ASSUME NEW c, NEW edge, Edged(c, edge), NEW I, NEW J,
         I \subseteq J, J \ I \subseteq SelectTopK(c, edge, I)
  PROVE  SelectTopK(c, edge, J) = SelectTopK(c, edge, I)
<1>. DEFINE K == SelectTopK(c, edge, I)
<1>1. K \subseteq SelectTopK(c, edge, J)
  <2>. SUFFICES ASSUME NEW s \in K PROVE s \in SelectTopK(c, edge, J)
    OBVIOUS
  <2>. DEFINE B == Above(c, edge, J, s)
  <2>1. s \in c /\ IsFiniteSet(K) /\ K \in SUBSET c
        /\ Cardinality(K) <= MaxHoldings /\ MaxHoldings \in Nat
    BY TopCount
  <2>2. B \subseteq K \ {s}
    <3>. SUFFICES ASSUME NEW u \in c, RanksBefore(edge, J, u, s) PROVE u \in K \ {s}
      BY DEF Above
    <3>1. u # s
      BY RankOrder
    <3>2. ASSUME u \notin K PROVE FALSE
      <4>1. RanksBefore(edge, I, u, s)
        BY <2>1, <3>2, RankKept
      <4>2. u \in Above(c, edge, I, s)
        BY <4>1 DEF Above
      <4>. QED
        BY <2>1, <3>2, <4>2, TopPrefix
    <3>. QED
      BY <3>1, <3>2
  <2>3. /\ IsFiniteSet(K \ {s}) /\ Cardinality(K \ {s}) = Cardinality(K) - 1
        /\ Cardinality(K) \in Nat
    BY <2>1, FS_RemoveElement, FS_CardinalityType
  <2>4. Cardinality(B) <= Cardinality(K \ {s}) /\ IsFiniteSet(B) /\ Cardinality(B) \in Nat
    BY <2>2, <2>3, FS_Subset, FS_CardinalityType
  <2>5. Cardinality(B) < MaxHoldings
    <3>. DEFINE b == Cardinality(B)
                k == Cardinality(K)
                r == Cardinality(K \ {s})
    <3>1. b <= r /\ r = k - 1 /\ k <= MaxHoldings /\ b \in Nat /\ k \in Nat
      BY <2>1, <2>3, <2>4
    <3>. HIDE DEF b, k, r
    <3>2. b < MaxHoldings
      BY <2>1, <3>1
    <3>. QED
      BY <3>2 DEF b
  <2>. QED
    BY <2>1, <2>5, TopPrefix
<1>2. SelectTopK(c, edge, J) \subseteq K
  <2>. SUFFICES ASSUME NEW s \in SelectTopK(c, edge, J), s \notin K PROVE FALSE
    OBVIOUS
  <2>1. s \in c /\ (s \in J => s \in I)
    BY DEF SelectTopK
  <2>2. Above(c, edge, I, s) \subseteq Above(c, edge, J, s)
    <3>. SUFFICES ASSUME NEW u \in c, RanksBefore(edge, I, u, s)
                  PROVE  RanksBefore(edge, J, u, s)
      BY DEF Above
    <3>. QED
      BY <2>1, RankKept
  <2>. DEFINE a == Cardinality(Above(c, edge, I, s))
              b == Cardinality(Above(c, edge, J, s))
  <2>3. a \in Nat /\ b \in Nat /\ b < MaxHoldings /\ ~(a < MaxHoldings)
        /\ IsFiniteSet(Above(c, edge, J, s))
    BY <2>1, TopPrefix
  <2>4. a <= b
    BY <2>2, <2>3, FS_Subset
  <2>. HIDE DEF a, b
  <2>. QED
    BY <2>3, <2>4
<1>. QED
  BY <1>1, <1>2

(* The targets for a set of incumbents, and the names that have one.       *)
Kept(I, i) == Selected(i.passed, i.edge, i.trained, I)

Aims(I, i) ==
    LET names == Kept(I, i)
        live == ComputeTargetWeights(names, i.edge)
    IN  [s \in Symbols |-> IF s \in names THEN live[s] ELSE 0]

Positive(t) == {s \in Symbols : t[s] > 0}

(* Who is held after a good cycle that can sell R and begins with I.       *)
Carry(I, i, R) == Positive(Aims(I, i)) \cup (I \ R)

(* The targets for any incumbents are weights, fair except in a cold start.*)
LEMMA AimsOf ==
  ASSUME NEW I \in SUBSET Symbols, NEW i \in Inputs
  PROVE  /\ Edged(i.passed, i.edge) /\ Edged(Kept(I, i), i.edge)
         /\ Aims(I, i) \in [Symbols -> 0..NameCap]
         /\ ~ColdStart(Kept(I, i), i.edge) => Fair(Kept(I, i), i.edge, Aims(I, i))
<1>. DEFINE v == [s \in Symbols |-> IF s \in I THEN 1 ELSE 0]
<1>1. Incumbents(v) = I
  BY DEF Incumbents
<1>. HIDE DEF v
<1>2. Names(v, i) = Kept(I, i) /\ TargetsFrom(v, i) = Aims(I, i)
  BY <1>1 DEF Names, Kept, Aims, TargetsFrom
<1>3. Edged(Kept(I, i), i.edge)
  BY <1>2, NamesEdged
<1>4. Edged(i.passed, i.edge)
  <2>. DEFINE j == [i EXCEPT !.trained = FALSE]
  <2>1. i.passed \subseteq Symbols
    BY DEF Inputs
  <2>2. i.edge \in [Symbols -> (UNION {Edges[s] : s \in Symbols}) \cup {0}]
    BY DEF Inputs
  <2>3. ASSUME NEW s \in Symbols PROVE i.edge[s] \in Int
    <3>1. i.edge[s] \in (UNION {Edges[u] : u \in Symbols}) \/ i.edge[s] = 0
      BY <2>2
    <3>2. CASE i.edge[s] \in UNION {Edges[u] : u \in Symbols}
      <4>1. PICK u \in Symbols : i.edge[s] \in Edges[u]
        BY <3>2
      <4>. QED
        BY <4>1
    <3>. QED
      BY <3>1, <3>2
  <2>. QED
    BY <2>1, <2>3 DEF Edged
<1>5. /\ TargetsFrom(v, i) \in [Symbols -> 0..NameCap]
      /\ ~ColdStart(Names(v, i), i.edge) => Fair(Names(v, i), i.edge, TargetsFrom(v, i))
  BY TargetsBound
<1>. QED
  BY <1>2, <1>3, <1>4, <1>5

(* Who has a target: a name kept with a positive edge, or in a cold start. *)
LEMMA AimsPositive ==
  ASSUME NoneVanishes, NEW I \in SUBSET Symbols, NEW i \in Inputs
  PROVE  Positive(Aims(I, i)) =
             {s \in Kept(I, i) : i.edge[s] > 0 \/ ColdStart(Kept(I, i), i.edge)}
<1>. DEFINE names == Kept(I, i)
            t == Aims(I, i)
            live == ComputeTargetWeights(names, i.edge)
<1>1. /\ Edged(names, i.edge) /\ names \in SUBSET Symbols /\ t \in [Symbols -> 0..NameCap]
      /\ ~ColdStart(names, i.edge) => Fair(names, i.edge, t)
  BY AimsOf DEF Edged
<1>a. t = [s \in Symbols |-> IF s \in names THEN live[s] ELSE 0]
  BY DEF Aims
<1>2. /\ \A s \in names : t[s] = live[s]
      /\ \A s \in Symbols \ names : t[s] = 0
  <2>. HIDE DEF names, t, live
  <2>. QED
    BY <1>1, <1>a
<1>3. \A s \in names : i.edge[s] > 0 \/ ColdStart(names, i.edge) => live[s] > 0
  BY DEF NoneVanishes, Kept
<1>4. ASSUME NEW s \in names, t[s] > 0, ~ColdStart(names, i.edge), ~(i.edge[s] > 0)
      PROVE  FALSE
  <2>2. Score(i.edge, s) = 0
    BY <1>4 DEF Score
  <2>. HIDE DEF t, names
  <2>1. Fair(names, i.edge, t)
    BY <1>1, <1>4
  <2>3. PICK c \in SUBSET names :
            /\ \A u \in c : Score(i.edge, u) > 0
            /\ \A u \in names \ c :
                   t[u] = IF ActiveScore(names, i.edge, c) = 0 THEN 0
                          ELSE (Score(i.edge, u) * Remaining(c)) \div ActiveScore(names, i.edge, c)
    BY <2>1, Zenon DEF Fair
  <2>4. s \notin c
    BY <2>2, <2>3
  <2>. DEFINE n == ActiveScore(names, i.edge, c)
              r == Remaining(c)
  <2>5. n \in Nat /\ r \in Int
    <3>1. IsFiniteSet(names) /\ n \in Nat
      BY <1>1, ScoreType
    <3>2. Cardinality(c) \in Nat
      BY <3>1, FS_Subset, FS_CardinalityType
    <3>3. Budget \in Int /\ NameCap \in Int /\ Cardinality(c) \in Int
      BY <3>2
    <3>. QED
      BY <3>1, <3>3 DEF Remaining
  <2>6. t[s] = IF n = 0 THEN 0 ELSE (0 * r) \div n
    BY <2>2, <2>3, <2>4
  <2>. HIDE DEF n, r
  <2>7. 0 * r = 0
    BY <2>5
  <2>8. n # 0 => 0 \div n = 0
    BY <2>5
  <2>9. t[s] = 0
    BY <2>6, <2>7, <2>8
  <2>. QED
    BY <1>4, <2>9
<1>. HIDE DEF names, t, live
<1>5. Positive(t) = {s \in names : i.edge[s] > 0 \/ ColdStart(names, i.edge)}
  <2>1. ASSUME NEW s \in Symbols
        PROVE  t[s] > 0 <=> s \in names /\ (i.edge[s] > 0 \/ ColdStart(names, i.edge))
    <3>1. t[s] \in Nat
      BY <1>1
    <3>2. CASE s \notin names
      BY <1>2, <3>2
    <3>3. CASE s \in names
      BY <1>2, <1>3, <1>4, <3>3
    <3>. QED
      BY <3>2, <3>3
  <2>. QED
    BY <1>1, <2>1 DEF Positive
<1>. QED
  BY <1>5 DEF names, t

(* Whoever had a target and is held for it has one again.                  *)
LEMMA TargetsKept ==
  ASSUME NoneVanishes, NEW I \in SUBSET Symbols, NEW i \in Inputs, NEW R
  PROVE  Positive(Aims(I, i)) \subseteq Positive(Aims(Carry(I, i, R), i))
<1>. DEFINE J == Carry(I, i, R)
<1>. DEFINE A == Positive(Aims(I, i))
            K == Kept(I, i)
            L == Kept(J, i)
            p == i.passed
<1>0. J \in SUBSET Symbols /\ J = A \cup (I \ R)
  BY DEF Positive, Carry
<1>. SUFFICES A \subseteq Positive(Aims(J, i))
  OBVIOUS
<1>. HIDE DEF J
<1>1. /\ A = {s \in K : i.edge[s] > 0 \/ ColdStart(K, i.edge)}
      /\ Positive(Aims(J, i)) = {s \in L : i.edge[s] > 0 \/ ColdStart(L, i.edge)}
  BY <1>0, AimsPositive
<1>2. CASE K # SelectTopK(p, i.edge, I) \/ L # SelectTopK(p, i.edge, J)
  <2>1. K = L
    BY <1>2 DEF Kept, Selected
  <2>. HIDE DEF A, K, L
  <2>. QED
    BY <1>1, <2>1 DEF A
<1>3. CASE K = L
  <2>. HIDE DEF A, K, L
  <2>. QED
    BY <1>1, <1>3 DEF A
<1>4. CASE K # L /\ K = SelectTopK(p, i.edge, I) /\ L = SelectTopK(p, i.edge, J)
  <2>1. Edged(p, i.edge) /\ Cardinality(p) > MaxHoldings
    BY <1>4, AimsOf DEF Kept, Selected
  <2>2. /\ IsFiniteSet(K) /\ Cardinality(K) = MaxHoldings
        /\ IsFiniteSet(L) /\ Cardinality(L) = MaxHoldings
    BY <1>4, <2>1, TopCount
  <2>. HIDE DEF A, K, L
  <2>3. A \subseteq K /\ A \subseteq J /\ J \ A \subseteq I
    BY <1>0, <1>1 DEF A
  <2>4. A \subseteq L
    BY <1>4, <2>1, <2>3, TopRises
  <2>5. ~ColdStart(K, i.edge)
    <3>. SUFFICES ASSUME ColdStart(K, i.edge) PROVE FALSE
      OBVIOUS
    <3>1. A = K
      BY <1>1
    <3>2. K \subseteq L
      BY <2>4, <3>1
    <3>3. K = L
      BY <2>2, <3>2, FS_Subset
    <3>. QED
      BY <1>4, <3>3
  <2>6. \A s \in A : i.edge[s] > 0
    BY <1>1, <2>5
  <2>. QED
    BY <1>1, <2>4, <2>6 DEF A
<1>. QED
  BY <1>2, <1>3, <1>4

(* Three cycles of one input: the third aims at what the second did.       *)
LEMMA AimsSettle ==
  ASSUME NoneVanishes, NEW I \in SUBSET Symbols, NEW i \in Inputs, NEW R
  PROVE  Aims(Carry(Carry(I, i, R), i, R), i) = Aims(Carry(I, i, R), i)
<1>. DEFINE J == Carry(I, i, R)
            M == Carry(J, i, R)
            A == Positive(Aims(I, i))
            B == Positive(Aims(J, i))
            p == i.passed
<1>0. /\ J \in SUBSET Symbols /\ J = A \cup (I \ R)
      /\ M \in SUBSET Symbols /\ M = B \cup (J \ R)
  BY DEF Positive, Carry
<1>1. A \subseteq B
  BY TargetsKept
<1>2. J \subseteq M /\ M \ J \subseteq B
  <2>. HIDE DEF A, B, J, M
  <2>. QED
    BY <1>0, <1>1
<1>. HIDE DEF J, M
<1>3. B \subseteq Kept(J, i)
  BY <1>0, AimsPositive
<1>4. Kept(M, i) = Kept(J, i)
  <2>. HIDE DEF B
  <2>1. CASE Kept(J, i) # SelectTopK(p, i.edge, J) \/ Kept(M, i) # SelectTopK(p, i.edge, M)
    BY <2>1 DEF Kept, Selected
  <2>2. CASE Kept(J, i) = SelectTopK(p, i.edge, J) /\ Kept(M, i) = SelectTopK(p, i.edge, M)
    <3>. HIDE DEF p
    <3>1. M \ J \subseteq SelectTopK(p, i.edge, J)
      <4>. DEFINE S == SelectTopK(p, i.edge, J)
      <4>1. B \subseteq S
        BY <1>3, <2>2
      <4>. HIDE DEF S
      <4>2. M \ J \subseteq S
        BY <1>2, <4>1
      <4>. QED
        BY <4>2 DEF S
    <3>2. Edged(p, i.edge)
      BY <1>0, AimsOf DEF p
    <3>3. SelectTopK(p, i.edge, M) = SelectTopK(p, i.edge, J)
      BY <1>2, <3>1, <3>2, TopStays
    <3>. QED
      BY <2>2, <3>3
  <2>. QED
    BY <2>1, <2>2
<1>5. Aims(M, i) = Aims(J, i)
  BY <1>4 DEF Aims
<1>. QED
  BY <1>5 DEF J, M
-----------------------------------------------------------------------------
(* The weight h that a routing with target t and a available would leave   *)
(* as it is.                                                               *)
Still(h, t, a) ==
    \/ h = t
    \/ /\ h > 0 /\ ~(t = 0 /\ a > 0)
       /\ Absolute(t - h) < DeadBand \/ (t < h /\ a <= t)

Free(s, h) == IF s \in input.covered THEN 0 ELSE h
Rests(s, h) == Still(h, target[s], Free(s, h))

(* The kinds of action of a symbol, by its weight and its target.          *)
LEMMA Kinds ==
  ASSUME TypeOK, NEW s \in Symbols
  PROVE  /\ ClassifyRebalance(s) = "add" <=> current[s] > 0 /\ target[s] > current[s]
         /\ ClassifyRebalance(s) = "trim" <=> current[s] > 0 /\ target[s] < current[s]
         /\ ClassifyRebalance(s) = "entry" <=> current[s] = 0 /\ target[s] > 0
         /\ ClassifyRebalance(s) \in {"hold", "reject"} <=> target[s] = current[s]
<1>. DEFINE h == current[s]
            t == target[s]
            kind == ClassifyRebalance(s)
<1>1. h \in Nat /\ t \in Nat
  BY DEF TypeOK
<1>2. \/ h > 0 /\ t > h /\ ~(t < h) /\ ~(h = 0) /\ t # h
      \/ h > 0 /\ t < h /\ ~(t > h) /\ ~(h = 0) /\ t # h
      \/ h = 0 /\ t > 0 /\ ~(h > 0) /\ t # h
      \/ t = h /\ ~(t > h) /\ ~(t < h) /\ ~(h = 0 /\ t > 0)
  <2>. HIDE DEF h, t
  <2>. QED
    BY <1>1
<1>3. CASE h > 0 /\ t > h /\ ~(t < h) /\ ~(h = 0) /\ t # h
  <2>1. kind = "add"
    BY <1>3 DEF ClassifyRebalance
  <2>. HIDE DEF kind, h, t
  <2>2. /\ kind = "add" <=> h > 0 /\ t > h
        /\ kind = "trim" <=> h > 0 /\ t < h
        /\ kind = "entry" <=> h = 0 /\ t > 0
        /\ kind \in {"hold", "reject"} <=> t = h
    BY <1>3, <2>1
  <2>. QED
    BY <2>2 DEF kind, h, t
<1>4. CASE h > 0 /\ t < h /\ ~(t > h) /\ ~(h = 0) /\ t # h
  <2>1. kind = "trim"
    BY <1>4 DEF ClassifyRebalance
  <2>. HIDE DEF kind, h, t
  <2>2. /\ kind = "add" <=> h > 0 /\ t > h
        /\ kind = "trim" <=> h > 0 /\ t < h
        /\ kind = "entry" <=> h = 0 /\ t > 0
        /\ kind \in {"hold", "reject"} <=> t = h
    BY <1>4, <2>1
  <2>. QED
    BY <2>2 DEF kind, h, t
<1>5. CASE h = 0 /\ t > 0 /\ ~(h > 0) /\ t # h
  <2>1. kind = "entry"
    BY <1>5 DEF ClassifyRebalance
  <2>. HIDE DEF kind, h, t
  <2>2. /\ kind = "add" <=> h > 0 /\ t > h
        /\ kind = "trim" <=> h > 0 /\ t < h
        /\ kind = "entry" <=> h = 0 /\ t > 0
        /\ kind \in {"hold", "reject"} <=> t = h
    BY <1>5, <2>1
  <2>. QED
    BY <2>2 DEF kind, h, t
<1>6. CASE t = h /\ ~(t > h) /\ ~(t < h) /\ ~(h = 0 /\ t > 0)
  <2>1. kind \in {"hold", "reject"}
    BY <1>6 DEF ClassifyRebalance
  <2>. HIDE DEF kind, h, t
  <2>2. /\ kind = "add" <=> h > 0 /\ t > h
        /\ kind = "trim" <=> h > 0 /\ t < h
        /\ kind = "entry" <=> h = 0 /\ t > 0
        /\ kind \in {"hold", "reject"} <=> t = h
    BY <1>6, <2>1
  <2>. QED
    BY <2>2 DEF kind, h, t
<1>. QED
  BY <1>2, <1>3, <1>4, <1>5, <1>6

(* The routing of a symbol sends nothing exactly where its weight is still.*)
LEMMA SilentWhenStill ==
  ASSUME TypeOK, NEW s \in Symbols
  PROVE  SendsNothing(s) <=> Still(current[s], target[s], available[s])
<1>. DEFINE h == current[s]
            t == target[s]
            a == available[s]
            kind == ClassifyRebalance(s)
<1>1. h \in Nat /\ t \in Nat /\ a \in Nat /\ DeadBand \in Nat
  BY DEF TypeOK
<1>2. /\ kind = "add" <=> h > 0 /\ t > h
      /\ kind = "trim" <=> h > 0 /\ t < h
      /\ kind \in {"hold", "reject"} <=> t = h
  BY Kinds
<1>3. FullExit(s) <=> kind = "trim" /\ t = 0 /\ a > 0
  BY DEF FullExit
<1>4. InDeadBand(s) <=> kind \in {"add", "trim"} /\ ~FullExit(s) /\ Absolute(t - h) < DeadBand
  BY DEF InDeadBand
<1>5. SendsNothing(s) <=> \/ kind \in {"hold", "reject"}
                          \/ InDeadBand(s)
                          \/ kind = "trim" /\ ~FullExit(s) /\ a <= t
  BY DEF SendsNothing
<1>. DEFINE x == Absolute(t - h) < DeadBand
<1>6. Still(h, t, a) <=> h = t \/ (h > 0 /\ ~(t = 0 /\ a > 0) /\ (x \/ (t < h /\ a <= t)))
  BY DEF Still
<1>7. /\ kind \in {"add", "trim"} <=> (kind = "add" \/ kind = "trim")
      /\ FullExit(s) => t = 0 /\ h > 0 /\ a > 0 /\ t < h
      /\ kind = "trim" /\ ~FullExit(s) <=> h > 0 /\ t < h /\ ~(t = 0 /\ a > 0)
  BY <1>2, <1>3
<1>8. InDeadBand(s) <=> \/ h > 0 /\ t > h /\ x
                        \/ h > 0 /\ t < h /\ ~(t = 0 /\ a > 0) /\ x
  <2>1. t > h => ~(t < h)
    BY <1>1
  <2>2. InDeadBand(s) <=> (kind = "add" \/ kind = "trim") /\ ~FullExit(s) /\ x
    BY <1>4
  <2>. HIDE DEF h, t, a, kind, x
  <2>3. kind = "add" /\ ~FullExit(s) <=> h > 0 /\ t > h
    BY <1>2, <1>7, <2>1
  <2>. QED
    BY <1>7, <2>2, <2>3
<1>. HIDE DEF h, t, a, kind, x
<1>9. SendsNothing(s) <=> \/ t = h
                          \/ h > 0 /\ t > h /\ x
                          \/ h > 0 /\ t < h /\ ~(t = 0 /\ a > 0) /\ x
                          \/ h > 0 /\ t < h /\ ~(t = 0 /\ a > 0) /\ a <= t
  BY <1>2, <1>5, <1>7, <1>8
<1>10. Still(h, t, a) <=> SendsNothing(s)
  <2>1. t > h => t # 0
    BY <1>1
  <2>2. t = h \/ t > h \/ t < h
    BY <1>1
  <2>3. t < h => ~(t > h) /\ t # h
    BY <1>1
  <2>4. t > h => t # h
    BY <1>1
  <2>. QED
    BY <1>6, <1>9, <2>1, <2>2, <2>3, <2>4
<1>. QED
  BY <1>10 DEF h, t, a

(* What a good routing does: the weight it leaves is still, and held where *)
(* there is a target, or where a standing stop keeps it.                   *)
LEMMA RouteEffect ==
  ASSUME TypeOK, NEW s \in Symbols, calm >= 0, calm' >= 0,
         held[s] = current[s], available[s] = Free(s, current[s]),
         RouteNothing(s) \/ RouteBuy(s) \/ RouteSell(s)
  PROVE  /\ Rests(s, held'[s])
         /\ held'[s] > 0 <=> target[s] > 0 \/ (current[s] > 0 /\ s \notin InReach)
         /\ Rests(s, current[s]) => ordered' = ordered
<1>. DEFINE h == current[s]
            t == target[s]
            a == available[s]
            g == held'[s]
            out == s \notin InReach
<1>1. /\ h \in Nat /\ t \in Nat /\ held[s] = h /\ held \in [Symbols -> Nat]
      /\ a = IF out THEN 0 ELSE h
      /\ Rests(s, h) <=> SendsNothing(s)
  <2>1. s \in input.seen
    BY DEF RouteNothing, RouteBuy, RouteSell, Routed
  <2>2. out <=> s \in input.covered
    BY <2>1 DEF InReach
  <2>3. h \in Nat /\ t \in Nat /\ held[s] = h /\ held \in [Symbols -> Nat]
    BY DEF TypeOK
  <2>4. Free(s, h) = a /\ a = IF out THEN 0 ELSE h
    BY <2>2 DEF Free
  <2>5. SendsNothing(s) <=> Still(h, t, a)
    BY SilentWhenStill
  <2>6. Rests(s, h) <=> Still(h, t, a)
    BY <2>4 DEF Rests
  <2>. QED
    BY <2>3, <2>4, <2>5, <2>6
<1>2. Rests(s, t)
  BY DEF Rests, Still
<1>3. SUFFICES \/ g = h /\ Rests(s, h) /\ (Rests(s, h) => ordered' = ordered)
               \/ g = t /\ ~Rests(s, h) /\ (t > 0 \/ ~(h > 0 /\ out))
  <2>1. ASSUME Rests(s, h) PROVE h > 0 <=> t > 0 \/ (h > 0 /\ out)
    <3>1. h = t \/ (h > 0 /\ ~(t = 0 /\ a > 0))
      BY <1>1, <2>1 DEF Rests, Still
    <3>. HIDE DEF h, t, a, out
    <3>. QED
      BY <1>1, <3>1
  <2>. HIDE DEF h, t, a, g, out
  <2>2. /\ Rests(s, g)
        /\ g > 0 <=> t > 0 \/ (h > 0 /\ out)
        /\ Rests(s, h) => ordered' = ordered
    BY <1>2, <2>1
  <2>. QED
    BY <2>2 DEF h, t, g, out
<1>4. CASE RouteNothing(s)
  BY <1>1, <1>4 DEF RouteNothing
<1>5. CASE RouteBuy(s)
  <2>1. held' = [held EXCEPT ![s] = @ + SharesBought(s)] /\ ~SendsNothing(s)
    BY <1>5 DEF RouteBuy, Fault
  <2>2. t > h
    <3>1. \/ h > 0 /\ t > h
          \/ h = 0 /\ t > 0
      BY <1>5, Kinds DEF RouteBuy
    <3>. HIDE DEF h, t
    <3>. QED
      BY <3>1
  <2>3. g = h + (t - h)
    BY <1>1, <2>1 DEF SharesBought
  <2>. HIDE DEF h, t, a, g, out
  <2>4. g = t /\ t > 0
    BY <1>1, <2>2, <2>3
  <2>. QED
    BY <1>1, <2>1, <2>4
<1>6. CASE RouteSell(s)
  <2>1. /\ t < h /\ h > 0 /\ ClassifyRebalance(s) = "trim" /\ ~SendsNothing(s)
        /\ \/ held' = [held EXCEPT ![s] = @ - SharesSold(s)]
           \/ held[s] < SharesSold(s)
    BY <1>6, Kinds DEF RouteSell, Fault
  <2>2. FullExit(s) <=> t = 0 /\ a > 0
    BY <2>1 DEF FullExit
  <2>3. ~FullExit(s) => ~(a <= t)
    BY <2>1 DEF SendsNothing
  <2>4. a = h
    <3>. HIDE DEF h, t, a, out
    <3>. QED
      BY <1>1, <2>2, <2>3
  <2>5. SharesSold(s) = h - t
    <3>1. CASE FullExit(s)
      <4>1. SharesSold(s) = h /\ t = 0
        BY <1>1, <2>2, <3>1 DEF SharesSold
      <4>. HIDE DEF h, t
      <4>. QED
        BY <1>1, <4>1
    <3>2. CASE ~FullExit(s)
      BY <2>4, <3>2 DEF SharesSold
    <3>. QED
      BY <3>1, <3>2
  <2>6. ~(held[s] < SharesSold(s))
    <3>. HIDE DEF h, t
    <3>. QED
      BY <1>1, <2>5
  <2>7. g = h - (h - t)
    BY <1>1, <2>1, <2>5, <2>6
  <2>8. ~(h > 0 /\ out) \/ t > 0
    <3>. HIDE DEF h, t, a, out
    <3>. QED
      BY <1>1, <2>4
  <2>. HIDE DEF h, t, a, g, out
  <2>9. g = t
    BY <1>1, <2>7
  <2>. QED
    BY <1>1, <2>1, <2>8, <2>9
<1>. QED
  BY <1>4, <1>5, <1>6
-----------------------------------------------------------------------------
(* Half way through a good cycle: the symbols routed are still, the others *)
(* as they were read.                                                      *)
Done(s) ==
    /\ Rests(s, held[s])
    /\ held[s] > 0 <=> target[s] > 0 \/ (current[s] > 0 /\ s \notin InReach)

Followed ==
    /\ pc = Idle => ordered = FALSE
    /\ pc \notin {Idle, Weighed} /\ calm >= 0 =>
           \A s \in Symbols :
               /\ available[s] = Free(s, current[s])
               /\ IF s \in input.seen /\ Reached(s) THEN Done(s) ELSE held[s] = current[s]

(* Who is held after a good cycle that began with the incumbents I.        *)
Carried(weights, I) == Incumbents(weights) = Carry(I, input, InReach)

(* The cycles before this one: after one that went well every symbol seen  *)
(* is still and those held are carried from the incumbents; after two of   *)
(* them the next will aim at the same targets and order nothing.           *)
Chain ==
    calm >= 1 =>
        /\ pc = Idle =>
               /\ \E I \in SUBSET Symbols : Carried(held, I)
               /\ \A s \in input.seen : Rests(s, held[s])
               /\ calm = 2 => target = Aims(Incumbents(held), input)
        /\ pc # Idle =>
               /\ \E I \in SUBSET Symbols : Carried(current, I)
               /\ calm = 2 => /\ ordered = FALSE
                              /\ \A s \in input.seen : Rests(s, current[s])

(* The first read of a cycle whose input repeats starts from the last one. *)
LEMMA DecideKeeps ==
  ASSUME IInv, Followed, Chain, Decide PROVE Followed' /\ Chain'
<1>1. /\ pc = Idle /\ pc' = Weighed /\ pc' # Idle
      /\ target' = TargetsFrom(current', input') /\ UNCHANGED <<held, ordered>>
  BY DEF Decide, Idle, Weighed
<1>2. Followed'
  BY <1>1 DEF Followed
<1>3. ASSUME calm' >= 1
      PROVE  /\ \E I \in SUBSET Symbols : Carried(current, I)'
             /\ calm' = 2 => /\ ordered' = FALSE
                             /\ \A s \in input'.seen : Rests(s, current[s])'
  <2>1. current' = held /\ calm' = calm /\ input' = input
    <3>1. \/ current' = held /\ calm' = IF input' = input THEN calm ELSE 0
          \/ calm' = -1
      BY DEF Decide, Fault
    <3>. QED
      BY <1>3, <3>1
  <2>2. PICK I \in SUBSET Symbols : Carried(held, I)
    BY <1>1, <1>3, <2>1 DEF Chain
  <2>3. Carried(current, I)'
    BY <2>1, <2>2 DEF Carried, Carry, Incumbents, Positive, Aims, InReach
  <2>4. ASSUME calm' = 2
        PROVE  ordered' = FALSE /\ \A s \in input'.seen : Rests(s, current[s])'
    <3>1. target' = target
      <4>1. target = Aims(Incumbents(held), input)
        BY <1>1, <1>3, <2>1, <2>4 DEF Chain
      <4>2. target' = TargetsFrom(held, input)
        BY <1>1, <2>1
      <4>. QED
        BY <4>1, <4>2 DEF TargetsFrom, Aims, Kept
    <3>2. \A s \in input.seen : Rests(s, held[s])
      BY <1>1, <1>3, <2>1 DEF Chain
    <3>. QED
      BY <1>1, <2>1, <3>1, <3>2 DEF Followed, Rests, Free
  <2>. QED
    BY <2>3, <2>4
<1>4. Chain'
  BY <1>1, <1>3 DEF Chain
<1>. QED
  BY <1>2, <1>4

(* Where input, current and target stay, so does what is said of them.     *)
LEMMA CarriedOn ==
  ASSUME Chain, pc # Idle, pc' # Idle, UNCHANGED <<input, current, target>>,
         calm' >= 1 => calm' = calm /\ (calm = 2 /\ ordered = FALSE
             /\ (\A s \in input.seen : Rests(s, current[s])) => ordered' = FALSE)
  PROVE  Chain'
<1>1. ASSUME calm' >= 1
      PROVE  /\ \E I \in SUBSET Symbols : Carried(current, I)'
             /\ calm' = 2 => /\ ordered' = FALSE
                             /\ \A s \in input'.seen : Rests(s, current[s])'
  <2>1. calm' = calm
    BY <1>1
  <2>2. PICK I \in SUBSET Symbols : Carried(current, I)
    BY <1>1, <2>1 DEF Chain
  <2>3. Carried(current, I)'
    BY <2>2 DEF Carried, Carry, Incumbents, Positive, Aims, InReach
  <2>4. calm' = 2 => ordered' = FALSE /\ \A s \in input.seen : Rests(s, current[s])
    BY <1>1, <2>1 DEF Chain
  <2>5. \A s \in input.seen : Rests(s, current[s]) => Rests(s, current[s])'
    BY DEF Rests, Free
  <2>. QED
    BY <2>3, <2>4, <2>5
<1>. QED
  BY <1>1 DEF Chain

(* The quantities available are those of the weights read.                 *)
LEMMA ReadKeeps ==
  ASSUME IInv, Followed, Chain, ReadQuantities PROVE Followed' /\ Chain'
<1>1. /\ pc = Weighed /\ pc' = 1 /\ pc # Idle /\ pc' \notin {Idle, Weighed}
      /\ UNCHANGED <<held, input, current, target, ordered>>
      /\ \/ /\ UNCHANGED calm
            /\ available' = [s \in Symbols |-> IF s \in input.covered THEN 0 ELSE held[s]]
         \/ calm' = -1
  BY DEF ReadQuantities, Idle, Weighed, NoFault, Fault
<1>2. ASSUME calm' >= 0, NEW s \in Symbols
      PROVE  available'[s] = Free(s, current[s])' /\ ~Reached(s)' /\ held'[s] = current'[s]
  <2>1. /\ calm >= 0
        /\ available' = [u \in Symbols |-> IF u \in input.covered THEN 0 ELSE held[u]]
    BY <1>1, <1>2
  <2>2. current = held
    BY <1>1, <2>1 DEF IInv, Undisturbed
  <2>3. \A j \in Routing : ~(j < pc')
    BY <1>1, OrderType DEF Routing
  <2>. QED
    BY <1>1, <2>1, <2>2, <2>3 DEF Free, Reached
<1>3. Followed'
  BY <1>1, <1>2 DEF Followed
<1>4. Chain'
  <2>1. calm' >= 1 => calm' = calm
    BY <1>1
  <2>. QED
    BY <1>1, <2>1, CarriedOn
<1>. QED
  BY <1>3, <1>4

(* Routing a symbol: it is still, or an order makes it so.                 *)
LEMMA RouteKeeps ==
  ASSUME IInv, Followed, Chain, NEW s \in Symbols,
         RouteNothing(s) \/ RouteBuy(s) \/ RouteSell(s)
  PROVE  Followed' /\ Chain'
<1>0. TypeOK
  BY DEF IInv
<1>1. /\ pc \in Routing /\ Order[pc] = s /\ s \in input.seen /\ pc' = pc + 1
      /\ UNCHANGED <<input, current, target, available>>
      /\ \A u \in Symbols : u # s => held'[u] = held[u]
      /\ UNCHANGED calm \/ calm' = -1
  BY <1>0, RouteRest
<1>2. pc' \notin {Idle, Weighed} /\ pc \notin {Idle, Weighed}
  BY <1>1, OrderType DEF Routing, Idle, Weighed
<1>3. \A u \in Symbols : /\ Reached(u)' <=> (Reached(u) \/ Order[pc] = u)
                         /\ Reached(u) => Order[pc] # u
  BY <1>1, ReachedNext
<1>4. ASSUME calm' >= 0
      PROVE  /\ calm' = calm /\ calm >= 0 /\ ~Reached(s)
             /\ held[s] = current[s] /\ available[s] = Free(s, current[s])
             /\ Rests(s, held'[s])
             /\ held'[s] > 0 <=> target[s] > 0 \/ (current[s] > 0 /\ s \notin InReach)
             /\ Rests(s, current[s]) => ordered' = ordered
  <2>1. calm' = calm /\ calm >= 0 /\ ~Reached(s)
    BY <1>1, <1>3, <1>4
  <2>2. held[s] = current[s] /\ available[s] = Free(s, current[s])
    BY <1>2, <2>1 DEF Followed
  <2>. QED
    BY <1>0, <1>4, <2>1, <2>2, RouteEffect
<1>5. ASSUME calm' >= 0, NEW u \in Symbols
      PROVE  /\ available'[u] = Free(u, current[u])'
             /\ IF u \in input'.seen /\ Reached(u)' THEN Done(u)' ELSE held'[u] = current'[u]
  <2>1. /\ available[u] = Free(u, current[u])
        /\ IF u \in input.seen /\ Reached(u) THEN Done(u) ELSE held[u] = current[u]
    BY <1>2, <1>4, <1>5 DEF Followed
  <2>2. available'[u] = Free(u, current[u])'
    BY <1>1, <2>1 DEF Free
  <2>3. CASE u = s
    <3>1. Done(u)'
      BY <1>1, <1>4, <1>5, <2>3 DEF Done, Rests, Free, InReach
    <3>2. u \in input'.seen /\ Reached(u)'
      BY <1>1, <1>3, <2>3
    <3>. QED
      BY <2>2, <3>1, <3>2
  <2>4. CASE u # s
    <3>1. held'[u] = held[u] /\ (Reached(u)' <=> Reached(u))
      BY <1>1, <1>3, <2>4
    <3>2. Done(u) => Done(u)'
      BY <1>1, <3>1 DEF Done, Rests, Free, InReach
    <3>. QED
      BY <1>1, <2>1, <2>2, <3>1, <3>2
  <2>. QED
    BY <2>3, <2>4
<1>6. Followed'
  BY <1>2, <1>5 DEF Followed
<1>7. Chain'
  <2>1. calm' >= 1 => calm' >= 0
    BY <1>1, <1>0 DEF TypeOK
  <2>. QED
    BY <1>1, <1>2, <1>4, <2>1, CarriedOn
<1>. QED
  BY <1>6, <1>7

(* A symbol without a row keeps its weight, and has no target.             *)
LEMMA SkipKeeps ==
  ASSUME IInv, Followed, Chain, SkipUnseen PROVE Followed' /\ Chain'
<1>1. /\ pc \in Routing /\ Order[pc] \notin input.seen /\ pc' = pc + 1
      /\ UNCHANGED <<held, input, current, target, available, ordered, calm>>
  BY DEF SkipUnseen, NoFault
<1>2. pc' \notin {Idle, Weighed} /\ pc \notin {Idle, Weighed}
  BY <1>1, OrderType DEF Routing, Idle, Weighed
<1>3. ASSUME calm' >= 0, NEW u \in Symbols
      PROVE  /\ available'[u] = Free(u, current[u])'
             /\ IF u \in input'.seen /\ Reached(u)' THEN Done(u)' ELSE held'[u] = current'[u]
  <2>1. /\ available[u] = Free(u, current[u])
        /\ IF u \in input.seen /\ Reached(u) THEN Done(u) ELSE held[u] = current[u]
    BY <1>1, <1>2, <1>3 DEF Followed
  <2>2. Reached(u)' <=> (Reached(u) \/ Order[pc] = u)
    BY <1>1, ReachedNext
  <2>3. u \in input.seen => (Reached(u)' <=> Reached(u))
    BY <1>1, <2>2
  <2>4. Done(u) => Done(u)'
    BY <1>1 DEF Done, Rests, Free, InReach
  <2>5. available'[u] = Free(u, current[u])'
    BY <1>1, <2>1 DEF Free
  <2>. QED
    BY <1>1, <2>1, <2>3, <2>4, <2>5
<1>4. Followed'
  BY <1>2, <1>3 DEF Followed
<1>5. Chain'
  BY <1>1, <1>2, CarriedOn
<1>. QED
  BY <1>4, <1>5

(* At the end of a good cycle every symbol has been reached, and the next  *)
(* incumbents are carried from the last.                                   *)
LEMMA EndKeeps ==
  ASSUME NoneVanishes, IInv, Followed, Chain, EndCycle PROVE Followed' /\ Chain'
<1>1. /\ pc = Len(Order) + 1 /\ pc' = Idle
      /\ calm' = IF calm < 2 THEN calm + 1 ELSE calm
      /\ ordered' = FALSE
      /\ UNCHANGED <<held, input, target>>
  BY DEF EndCycle
<1>2. pc \notin {Idle, Weighed} /\ Idle # Weighed
  BY <1>1, OrderType DEF Idle, Weighed
<1>3. input \in Inputs /\ calm \in -1..2
  BY DEF IInv, TypeOK
<1>4. Followed'
  BY <1>1 DEF Followed
<1>. DEFINE J == Incumbents(current)
<1>5. J \in SUBSET Symbols /\ target = Aims(J, input)
  BY <1>2 DEF Incumbents, IInv, Aimed, TargetsFrom, Aims, Kept
<1>6. ASSUME calm' >= 1
      PROVE  /\ Carried(held, J)
             /\ \A s \in input.seen : Rests(s, held[s])
             /\ calm' = 2 => target = Aims(Incumbents(held), input)
  <2>1. calm >= 0 /\ (calm' = 2 => calm >= 1)
    BY <1>1, <1>3, <1>6
  <2>2. \A s \in Symbols : Reached(s)
    <3>1. \A j \in Routing : j < pc
      BY <1>1, OrderType DEF Routing
    <3>. QED
      BY <3>1, OrderType DEF Reached
  <2>3. \A s \in Symbols : IF s \in input.seen THEN Done(s) ELSE held[s] = current[s]
    BY <1>2, <2>1, <2>2 DEF Followed
  <2>4. \A s \in Symbols \ input.seen : target[s] = 0
    <3>1. Kept(J, input) \subseteq input.passed
      BY DEF Kept, Selected, SelectTopK
    <3>2. input.passed \subseteq input.seen
      BY <1>3, InitInputs
    <3>. QED
      BY <1>5, <3>1, <3>2 DEF Aims
  <2>5. ASSUME NEW s \in Symbols
        PROVE  held[s] > 0 <=> target[s] > 0 \/ (current[s] > 0 /\ s \notin InReach)
    <3>1. CASE s \in input.seen
      BY <2>3, <3>1 DEF Done
    <3>2. CASE s \notin input.seen
      <4>1. held[s] = current[s] /\ target[s] = 0 /\ s \notin InReach
        BY <2>3, <2>4, <3>2 DEF InReach
      <4>. QED
        BY <4>1
    <3>. QED
      BY <3>1, <3>2
  <2>6. Carried(held, J)
    BY <1>5, <2>5 DEF Carried, Carry, Incumbents, Positive
  <2>7. \A s \in input.seen : Rests(s, held[s])
    BY <1>3, <2>3, InitInputs DEF Done
  <2>8. ASSUME calm' = 2 PROVE target = Aims(Incumbents(held), input)
    <3>1. PICK I \in SUBSET Symbols : Carried(current, I)
      BY <1>2, <2>1, <2>8 DEF Chain
    <3>2. J = Carry(I, input, InReach) /\ Incumbents(held) = Carry(J, input, InReach)
      BY <2>6, <3>1 DEF Carried
    <3>. HIDE DEF J
    <3>3. Aims(Incumbents(held), input) = Aims(J, input)
      BY <1>3, <3>2, AimsSettle
    <3>. QED
      BY <1>5, <3>3
  <2>. QED
    BY <2>6, <2>7, <2>8
<1>7. ASSUME calm' >= 1 PROVE \E I \in SUBSET Symbols : Carried(held, I)'
  <2>1. PICK I \in SUBSET Symbols : Carried(held, I)
    <3>. HIDE DEF J
    <3>. QED
      BY <1>5, <1>6, <1>7
  <2>2. Carried(held, I)'
    BY <1>1, <2>1 DEF Carried, Carry, Incumbents, Positive, Aims, InReach
  <2>. QED
    BY <2>2
<1>8. ASSUME calm' >= 1
      PROVE  /\ \A s \in input'.seen : Rests(s, held[s])'
             /\ calm' = 2 => target' = Aims(Incumbents(held), input)'
  BY <1>1, <1>6, <1>8 DEF Incumbents, Aims, Rests, Free
<1>9. Chain'
  BY <1>1, <1>7, <1>8 DEF Chain
<1>. QED
  BY <1>4, <1>9

(* A disturbed history says nothing of the next cycle.                     *)
LEMMA UpsetKeeps ==
  ASSUME Followed, ~(calm' >= 1),
         \/ /\ UNCHANGED <<pc, ordered>>
            /\ calm' = IF pc = Idle THEN 0 ELSE -1
         \/ pc' = Idle /\ ordered' = FALSE
  PROVE  Followed' /\ Chain'
<1>1. Chain'
  BY DEF Chain
<1>2. Followed'
  BY DEF Followed
<1>. QED
  BY <1>1, <1>2

History == IInv /\ Followed /\ Chain

(* The invariant of the cycles that repeat.                                *)
LEMMA HistoryKept ==
  ASSUME NoneVanishes
  PROVE  /\ Init => History
         /\ History /\ [Next]_vars => History'
<1>1. Init => History
  <2>. SUFFICES ASSUME Init PROVE History
    OBVIOUS
  <2>1. pc = Idle /\ ordered = FALSE /\ ~(calm >= 1)
    BY DEF Init
  <2>. QED
    BY <2>1, Start DEF History, Followed, Chain
<1>2. ASSUME History, [Next]_vars PROVE Followed' /\ Chain'
  <2>. USE <1>2 DEF History
  <2>1. CASE Decide
    BY <2>1, DecideKeeps
  <2>2. CASE ReadQuantities
    BY <2>2, ReadKeeps
  <2>3. CASE SkipUnseen
    BY <2>3, SkipKeeps
  <2>4. CASE EndCycle
    BY <2>4, EndKeeps
  <2>5. CASE Crash
    <3>1. pc' = Idle /\ ordered' = FALSE /\ ~(calm' >= 1)
      BY <2>5 DEF Crash
    <3>. QED
      BY <3>1, UpsetKeeps
  <2>6. ASSUME NEW s \in Symbols, RouteNothing(s) \/ RouteBuy(s) \/ RouteSell(s)
        PROVE  Followed' /\ Chain'
    BY <2>6, RouteKeeps
  <2>7. ASSUME NEW s \in Symbols, StopFill(s) \/ MarketMoves(s) PROVE Followed' /\ Chain'
    <3>1. UNCHANGED <<pc, ordered>> /\ calm' = IF pc = Idle THEN 0 ELSE -1
      BY <2>7 DEF StopFill, MarketMoves, Disturbed
    <3>2. ~(calm' >= 1)
      BY <3>1
    <3>. QED
      BY <3>1, <3>2, UpsetKeeps
  <2>8. CASE UNCHANGED vars
    <3>1. UNCHANGED <<held, input, current, target, available, pc, ordered, calm>>
      BY <2>8 DEF vars
    <3>2. \A s : (Reached(s)' <=> Reached(s)) /\ (Done(s) => Done(s)')
      BY <3>1 DEF Reached, Done, Rests, Free, InReach
    <3>3. Followed'
      BY <3>1, <3>2 DEF Followed, Free
    <3>4. \A I : /\ Carried(held, I) => Carried(held, I)'
                 /\ Carried(current, I) => Carried(current, I)'
      BY <3>1 DEF Carried, Carry, Incumbents, Positive, Aims, InReach
    <3>5. \A s : /\ Rests(s, held[s]) => Rests(s, held[s])'
                 /\ Rests(s, current[s]) => Rests(s, current[s])'
      BY <3>1 DEF Rests, Free
    <3>6. target = Aims(Incumbents(held), input) =>
              target' = Aims(Incumbents(held), input)'
      BY <3>1 DEF Aims, Incumbents
    <3>7. Chain'
      <4>1. CASE pc = Idle
        BY <3>1, <3>4, <3>5, <3>6, <4>1 DEF Chain
      <4>2. CASE pc # Idle
        BY <3>1, <3>4, <3>5, <4>2 DEF Chain
      <4>. QED
        BY <4>1, <4>2
    <3>. QED
      BY <3>3, <3>7
  <2>. QED
    BY <2>1, <2>2, <2>3, <2>4, <2>5, <2>6, <2>7, <2>8 DEF Next
<1>. QED
  BY <1>1, <1>2, Inductive DEF History

(* weighting.py:83, the hysteresis "Prevents rank-noise churn": with any   *)
(* edges, caps, dead band and order of routing, and whatever was held and  *)
(* failed before, the cycle after two undisturbed ones with its input      *)
(* orders nothing, as long as rounding takes no name's whole share.        *)
THEOREM ChurnEnds == ASSUME NoneVanishes PROVE Spec => []NoChurn
<1>1. Init => History
  BY HistoryKept
<1>2. History /\ [Next]_vars => History'
  BY HistoryKept
<1>3. History => NoChurn
  <2>. SUFFICES ASSUME History, calm = 2 PROVE ordered = FALSE
    BY DEF NoChurn
  <2>1. CASE pc = Idle
    BY <2>1 DEF History, Followed
  <2>2. CASE pc # Idle
    BY <2>2 DEF History, Chain
  <2>. QED
    BY <2>1, <2>2
<1>. QED
  BY <1>1, <1>2, <1>3, PTL DEF Spec
=============================================================================
