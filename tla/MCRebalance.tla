----------------------------- MODULE MCRebalance -----------------------------
EXTENDS Rebalance, TLC

CONSTANTS s1, s2, s3

MCOrder == <<s1, s2, s3>>
MCPrecision == s1 :> 4 @@ s2 :> 4 @@ s3 :> 1
MCMoves == {-3, 3}
MCEdges == s1 :> {15, 40} @@ s2 :> {-10, 10} @@ s3 :> {10, 25}

(* The unit of this instance is fine enough.                               *)
ASSUME UnitAssumption == NoneVanishes
=============================================================================
