--------------------------- MODULE MCOrderRouting ---------------------------
(* OrderRouting for TLC: the symbols are interchangeable.                  *)
EXTENDS OrderRouting, TLC

Symmetry == Permutations(Symbols)
=============================================================================
