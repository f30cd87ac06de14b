---------------------------- MODULE TargetWeights ----------------------------
(***************************************************************************)
(* The weights a cycle aims at, from the edges of the candidates that      *)
(* passed the gateway: the top-K selection and the water fill.  A weight   *)
(* is a number of units of equity, rounded down; comparisons inside the    *)
(* algorithms are exact.                                                   *)
(***************************************************************************)
EXTENDS Integers, Sequences, FiniteSets, FiniteSetsExt

CONSTANTS Symbols,
          Order,        \* the symbols as the feature index lists them
          MaxHoldings,  \* sizing.max_holdings
          Hysteresis,   \* sizing.hysteresis_edge_delta_bps
          NameCap,      \* sizing.max_name_weight
          Budget,       \* 1 - sizing.cash_floor
          Prior,        \* membership edge x friction: composite - mu
          InverseCV,    \* 1 / sizing.top_k_activation_cv_threshold
          Precision     \* per symbol, a common multiple of variances / variance

ASSUME TargetWeightsAssumption ==
    /\ IsFiniteSet(Symbols)
    /\ Order \in [1..Cardinality(Symbols) -> Symbols]
    /\ \A s \in Symbols : \E i \in DOMAIN Order : Order[i] = s
    /\ {MaxHoldings, NameCap, Budget, InverseCV} \subseteq Nat \ {0}
    /\ Hysteresis \in Nat /\ Prior \in Int
    /\ Precision \in [Symbols -> Nat \ {0}]

Absolute(n) == IF n < 0 THEN -n ELSE n
Position(s) == CHOOSE i \in DOMAIN Order : Order[i] = s
-----------------------------------------------------------------------------
(* The coefficient of variation of the composite edges reaches the         *)
(* threshold: std / mean |x| >= 1 / InverseCV, squared and times n^2.      *)
Differentiated(candidates, edge) ==
    LET composite(s) == edge[s] + Prior
        n == Cardinality(candidates)
        sum == MapThenSumSet(composite, candidates)
        sumAbs == MapThenSumSet(LAMBDA s : Absolute(composite(s)), candidates)
        sumSquares == MapThenSumSet(LAMBDA s : composite(s) * composite(s), candidates)
    IN  /\ n >= 2 /\ sumAbs > 0
        /\ InverseCV * InverseCV * (n * sumSquares - sum * sum) >= sumAbs * sumAbs

(* Mutant: the boost is taken from the incumbents.                         *)
BoostedNewcomers(edge, incumbents, s) ==
    edge[s] - (IF s \in incumbents THEN Hysteresis ELSE 0)

Boosted(edge, incumbents, s) ==
    edge[s] + (IF s \in incumbents THEN Hysteresis ELSE 0)

(* Sorted by boosted edge, descending; the sort is stable.                 *)
RanksBefore(edge, incumbents, u, s) ==
    LET bu == Boosted(edge, incumbents, u)
        bs == Boosted(edge, incumbents, s)
    IN  bu > bs \/ (bu = bs /\ Position(u) < Position(s))

SelectTopK(candidates, edge, incumbents) ==
    {s \in candidates :
        Cardinality({u \in candidates : RanksBefore(edge, incumbents, u, s)})
            < MaxHoldings}

Selected(candidates, edge, trained, incumbents) ==
    IF /\ trained /\ Differentiated(candidates, edge)
       /\ Cardinality(candidates) > MaxHoldings
    THEN SelectTopK(candidates, edge, incumbents)
    ELSE candidates
-----------------------------------------------------------------------------
Score(edge, s) == IF edge[s] > 0 THEN edge[s] * Precision[s] ELSE 0

Remaining(capped) == Budget - NameCap * Cardinality(capped)
ActiveScore(names, edge, capped) ==
    MapThenSumSet(LAMBDA s : Score(edge, s), names \ capped)

(* One pass: the names not capped share what the capped ones leave, and    *)
(* those whose share is above the cap are capped.                          *)
Pass(names, edge, fill) ==
    LET left == Remaining(fill.capped)
        score == ActiveScore(names, edge, fill.capped)
        over == {s \in names \ fill.capped : Score(edge, s) * left > NameCap * score}
        capped == fill.capped \cup over
    IN  IF score <= 0 \/ left <= 0 THEN fill
        ELSE [capped |-> capped,
              weight |-> [s \in names |-> IF s \in capped THEN NameCap
                                          ELSE (Score(edge, s) * left) \div score]]

(* Mutant: what the cap takes away is not shared out again.                *)
WaterFillOnce(names, edge) ==
    Pass(names, edge, [capped |-> {}, weight |-> [s \in names |-> 0]]).weight

(* A pass that caps nobody changes nothing, so one per name is enough.     *)
WaterFill(names, edge) ==
    LET passes[n \in 0..Cardinality(names)] ==
            IF n = 0 THEN [capped |-> {}, weight |-> [s \in names |-> 0]]
            ELSE Pass(names, edge, passes[n - 1])
    IN  passes[Cardinality(names)].weight

ColdStart(names, edge) ==
    \/ Cardinality(names) <= 1
    \/ \A s, u \in names : edge[s] = edge[u]

EqualWeight(names) ==
    IF NameCap * Cardinality(names) <= Budget THEN NameCap
    ELSE Budget \div Cardinality(names)

(* Mutant: the cap is left to the water fill.                              *)
ComputeUncapped(names, edge) ==
    IF names # {} /\ ColdStart(names, edge)
    THEN [s \in names |-> Budget \div Cardinality(names)]
    ELSE WaterFill(names, edge)

ComputeTargetWeights(names, edge) ==
    IF names # {} /\ ColdStart(names, edge) THEN [s \in names |-> EqualWeight(names)]
    ELSE WaterFill(names, edge)
=============================================================================
