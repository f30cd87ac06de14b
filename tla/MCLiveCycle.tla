---------------------------- MODULE MCLiveCycle ----------------------------
(* LiveCycle for TLC: the symbols are interchangeable.                     *)
EXTENDS LiveCycle, TLC

Symmetry == Permutations(Symbols)
=============================================================================
