--------------------------- MODULE MCPositionBook ---------------------------
(* Instances of PositionBook for TLC: one or two Managers, two traders,    *)
(* two symbols, orders of one or two lots.                                 *)
EXTENDS PositionBook, TLC

CONSTANTS t1, t2, s1, s2

Symmetry == Permutations({t1, t2}) \cup Permutations({s1, s2})

=============================================================================
