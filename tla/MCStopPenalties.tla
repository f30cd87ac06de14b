-------------------------- MODULE MCStopPenalties --------------------------
(* StopPenalties for TLC: the symbols are interchangeable.                 *)
EXTENDS StopPenalties, TLC

Symmetry == Permutations(Symbols)
=============================================================================
