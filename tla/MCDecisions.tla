----------------------------- MODULE MCDecisions -----------------------------
EXTENDS Decisions

(* No edge, edges too small to pay for an old quote and for any quote, and *)
(* one that pays for the hurdle bump.                                      *)
MCMeans == {-50, -25, 0, 20}

(* Crossed by a basis point, locked, and wider and wider.                 *)
MCSpreads == {-1, 0, 1, 5, 10, 120}

(* Calm; stressed; stressed without a correlation; no history at all.      *)
Scores(d, v, c) == [drawdown |-> d, volatility |-> v, correlation |-> c]
MCReadings ==
    {Scores(0, 0, 0), Scores(Full, Full, Full), Scores(0, Full, Missing),
     Scores(Missing, Missing, Missing)}
=============================================================================
