------------------------------ MODULE Rebalance ------------------------------
(***************************************************************************)
(* The live cycles of successive days: from the candidates and the weights *)
(* held to targets, a kind of action for each symbol, and orders routed    *)
(* one by one.  Weights stand for quantities: an order fills at the price  *)
(* its quantity was computed with.                                         *)
(***************************************************************************)
EXTENDS TargetWeights

CONSTANTS Edges,     \* per symbol, the posterior means it may have
          Unseen,    \* symbols that may be missing from the features
          Guarded,   \* symbols a standing stop may cover
          DeadBand,  \* sizing.rebalance_dead_band
          Failures,  \* calls that may fail
          Moves,     \* changes of a weight by a move of the market
          MaxUpsets  \* bound: failures, stop fills and moves of a behaviour

ASSUME RebalanceAssumption ==
    /\ Edges \in [Symbols -> SUBSET Int]
    /\ Unseen \subseteq Symbols /\ Guarded \subseteq Symbols
    /\ {DeadBand, MaxUpsets} \subseteq Nat /\ Moves \subseteq Int
    /\ Failures \subseteq {"weights", "quantities", "order", "crash"}

VARIABLES held,     \* Alpaca positions, as weights
          input,    \* what the signals and the gateway say in this cycle
          current,  \* current_weights, as read
          target,   \* target weights
          available,\* current_qtys, as read
          pc,       \* Idle, Weighed, or the place in the order of routing
          ordered,  \* this cycle has sent an order
          calm,     \* cycles with this input completed without disturbance
          upsets

vars == <<held, input, current, target, available, pc, ordered, calm, upsets>>

Nothing == [s \in Symbols |-> 0]
Routing == 1..Len(Order)
Idle == -1
Weighed == 0

(* External: features and gateway.  An untrained model predicts 0 for all, *)
(* and the edge of a symbol that does not pass is not looked at.           *)
Inputs ==
    {i \in [seen : {Symbols \ u : u \in SUBSET Unseen}, passed : SUBSET Symbols,
            edge : [Symbols -> (UNION {Edges[s] : s \in Symbols}) \cup {0}],
            trained : BOOLEAN, covered : SUBSET Guarded] :
        /\ i.passed \subseteq i.seen
        /\ \A s \in Symbols :
               i.edge[s] \in IF i.trained /\ s \in i.passed THEN Edges[s] ELSE {0}}

Init ==
    /\ held = Nothing /\ input \in Inputs
    /\ current = Nothing /\ target = Nothing /\ available = Nothing
    /\ pc = Idle /\ ordered = FALSE /\ calm = 0
    /\ upsets = 0

NoFault == UNCHANGED <<calm, upsets>>
Upset == upsets < MaxUpsets /\ upsets' = upsets + 1
Disturbed == Upset /\ calm' = IF pc = Idle THEN 0 ELSE -1
Fault(f) == f \in Failures /\ Upset /\ calm' = -1
-----------------------------------------------------------------------------
(* The weights held are read, and the targets computed from them: a symbol *)
(* that is not a candidate has target 0.                                   *)
Incumbents(weights) == {s \in Symbols : weights[s] > 0}

TargetsFrom(weights, i) ==
    LET names == Selected(i.passed, i.edge, i.trained, Incumbents(weights))
        live == ComputeTargetWeights(names, i.edge)
    IN  [s \in Symbols |-> IF s \in names THEN live[s] ELSE 0]

(* The unit of the weights is fine enough: no name that has a share of the *)
(* budget gets none of it.  The code's weights are not rounded.            *)
NoneVanishes ==
    \A i \in Inputs, incumbents \in SUBSET Symbols :
        LET names == Selected(i.passed, i.edge, i.trained, incumbents)
        IN  \A s \in names :
                i.edge[s] > 0 \/ ColdStart(names, i.edge) =>
                    ComputeTargetWeights(names, i.edge)[s] > 0

Decide ==
    /\ pc = Idle
    /\ pc' = Weighed
    /\ input' \in Inputs
    /\ \/ current' = held /\ calm' = (IF input' = input THEN calm ELSE 0) /\ UNCHANGED upsets
       \/ current' = Nothing /\ Fault("weights")
    /\ target' = TargetsFrom(current', input')
    /\ UNCHANGED <<held, available, ordered>>

(* Shares under a standing stop are not available.                         *)
ReadQuantities ==
    /\ pc = Weighed
    /\ pc' = 1
    /\ \/ NoFault /\ available' = [s \in Symbols |-> IF s \in input.covered THEN 0 ELSE held[s]]
       \/ Fault("quantities") /\ available' = Nothing
    /\ UNCHANGED <<held, input, current, target, ordered>>
-----------------------------------------------------------------------------
(* Mutant: a symbol the gateway rejected is left alone, held or not.       *)
ClassifyByGateway(s) ==
    IF s \notin input.passed THEN "reject"
    ELSE IF current[s] > 0 /\ target[s] > current[s] THEN "add"
    ELSE IF current[s] > 0 /\ target[s] < current[s] THEN "trim"
    ELSE IF current[s] = 0 /\ target[s] > 0 THEN "entry" ELSE "hold"

ClassifyRebalance(s) ==
    CASE current[s] > 0 /\ target[s] > current[s] -> "add"
      [] current[s] > 0 /\ target[s] < current[s] -> "trim"
      [] current[s] = 0 /\ target[s] > 0 -> "entry"
      [] current[s] = 0 /\ target[s] = 0 /\ s \notin input.passed -> "reject"
      [] OTHER -> "hold"

FullExit(s) == ClassifyRebalance(s) = "trim" /\ target[s] = 0 /\ available[s] > 0

InDeadBand(s) ==
    /\ ClassifyRebalance(s) \in {"add", "trim"} /\ ~FullExit(s)
    /\ Absolute(target[s] - current[s]) < DeadBand

(* The rows of the cycle are routed in the order of the features.          *)
Routed(s) ==
    /\ pc \in Routing /\ Order[pc] = s /\ s \in input.seen
    /\ pc' = pc + 1
    /\ UNCHANGED <<input, current, target, available>>

SendsNothing(s) ==
    \/ ClassifyRebalance(s) \in {"hold", "reject"}
    \/ InDeadBand(s)
    \/ ClassifyRebalance(s) = "trim" /\ ~FullExit(s) /\ available[s] <= target[s]

RouteNothing(s) ==
    /\ Routed(s)
    /\ SendsNothing(s)
    /\ NoFault /\ UNCHANGED <<held, ordered>>

(* Mutant: what is held already is bought again.                           *)
SharesBoughtAnew(s) == target[s]
SharesBought(s) == target[s] - current[s]

RouteBuy(s) ==
    /\ Routed(s)
    /\ ClassifyRebalance(s) \in {"entry", "add"} /\ ~SendsNothing(s)
    /\ ordered' = TRUE
    /\ \/ held' = [held EXCEPT ![s] = @ + SharesBought(s)] /\ NoFault
       \/ UNCHANGED held /\ Fault("order")

(* The quantity a full exit sells is the broker's, that of a partial trim  *)
(* is what the cycle read less the target.  Shares that are gone are not   *)
(* sold again.  A sell the PDT gate stops counts as an order that failed.  *)
SharesSold(s) == IF FullExit(s) THEN held[s] ELSE available[s] - target[s]

RouteSell(s) ==
    /\ Routed(s)
    /\ ClassifyRebalance(s) = "trim" /\ ~SendsNothing(s)
    /\ ordered' = TRUE
    /\ \/ held' = [held EXCEPT ![s] = @ - SharesSold(s)] /\ held[s] >= SharesSold(s) /\ NoFault
       \/ UNCHANGED <<held, calm, upsets>> /\ held[s] < SharesSold(s)
       \/ UNCHANGED held /\ Fault("order")

(* A symbol that is not among the features has no row.                     *)
SkipUnseen ==
    /\ pc \in Routing /\ Order[pc] \notin input.seen
    /\ pc' = pc + 1
    /\ NoFault
    /\ UNCHANGED <<held, input, current, target, available, ordered>>

(* calm is of interest up to the third cycle.                              *)
EndCycle ==
    /\ pc = Len(Order) + 1
    /\ pc' = Idle
    /\ calm' = IF calm < 2 THEN calm + 1 ELSE calm
    /\ current' = Nothing /\ available' = Nothing /\ ordered' = FALSE
    /\ UNCHANGED <<held, input, target, upsets>>
-----------------------------------------------------------------------------
(* External: a standing stop sells the position.                           *)
StopFill(s) ==
    /\ held[s] > 0
    /\ held' = [held EXCEPT ![s] = 0]
    /\ Disturbed
    /\ UNCHANGED <<input, current, target, available, pc, ordered>>

(* External: between two cycles a weight moves with the market.            *)
MarketMoves(s) ==
    /\ pc = Idle /\ held[s] > 0
    /\ \E move \in Moves : held' = [held EXCEPT ![s] = @ + move] /\ held[s] + move > 0
    /\ Disturbed
    /\ UNCHANGED <<input, current, target, available, pc, ordered>>

(* The process is gone between two calls.                                  *)
Crash ==
    /\ pc # Idle
    /\ "crash" \in Failures /\ Upset /\ calm' = 0
    /\ pc' = Idle
    /\ current' = Nothing /\ available' = Nothing /\ ordered' = FALSE
    /\ UNCHANGED <<held, input, target>>

Next ==
    \/ Decide \/ ReadQuantities \/ SkipUnseen \/ EndCycle \/ Crash
    \/ \E s \in Symbols :
           \/ RouteNothing(s) \/ RouteBuy(s) \/ RouteSell(s)
           \/ StopFill(s) \/ MarketMoves(s)

Spec == Init /\ [][Next]_vars
-----------------------------------------------------------------------------
TypeOK ==
    /\ held \in [Symbols -> Nat]
    /\ input \in Inputs
    /\ {current, available} \subseteq [Symbols -> Nat]
    /\ target \in [Symbols -> 0..NameCap]
    /\ pc \in Idle..(Len(Order) + 1)
    /\ ordered \in BOOLEAN /\ calm \in -1..2
    /\ upsets \in 0..MaxUpsets

(* weighting.py:8-10, weights proportional to the positive edge over the   *)
(* variance, and _water_fill, "Weights sum to <= budget, each <= name_cap" *)
(* (:219): the targets of the names kept are those of the one level at     *)
(* which the names above the cap are capped and the others share all that  *)
(* is left.  test_weighting.py:111-115 and :128-130 expect shares above    *)
(* the cap for the others; the code pins these to the cap as well.         *)
FairShares ==
    LET names == Selected(input.passed, input.edge, input.trained, Incumbents(current))
        score(s) == Score(input.edge, s)
        fair(capped) ==
            LET left == Remaining(capped)
                others == ActiveScore(names, input.edge, capped)
            IN  /\ left >= 0
                /\ \A s \in capped : score(s) * left >= NameCap * others /\ score(s) > 0
                                     /\ target[s] = NameCap
                /\ \A s \in names \ capped :
                       /\ score(s) * left <= NameCap * others
                       /\ target[s] = IF others = 0 THEN 0 ELSE (score(s) * left) \div others
    IN  pc # Idle /\ ~ColdStart(names, input.edge) =>
            \E capped \in SUBSET names : fair(capped)

(* The symbols the cycle can sell.                                         *)
InReach == input.seen \ input.covered
Settled == pc = Idle /\ calm >= 1

(* main.py:472-474, a full exit must not leave "permanent orphans": after  *)
(* a cycle without disturbance no symbol within its reach is held without  *)
(* a target, whatever was held before.                                     *)
NoOrphans == Settled => \A s \in InReach : target[s] = 0 => held[s] = 0

(* weighting.py:8-9, the cap of a name and the cash reserve: one cycle    *)
(* without disturbance restores both within the dead band, whatever        *)
(* doubled purchases or failed sales went before.                          *)
WithinMandate == Settled =>
    /\ \A s \in InReach : held[s] <= NameCap \/ held[s] < NameCap + DeadBand
    /\ MapThenSumSet(LAMBDA s : held[s], InReach)
           <= Budget + DeadBand * Cardinality(InReach)

(* weighting.py:83, hysteresis "Prevents rank-noise churn": when two    *)
(* cycles with the same input went undisturbed, the next one orders        *)
(* nothing.                                                                *)
NoChurn == calm = 2 => ~ordered
=============================================================================
