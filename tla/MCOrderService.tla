--------------------------- MODULE MCOrderService ---------------------------
(* Two orders, two keys and two operations in flight are enough for every   *)
(* pairwise race; three operations on one order add the races of three.     *)
EXTENDS OrderService, TLC

Symmetry == Permutations(Orders) \cup Permutations(Keys) \cup Permutations(Workers)
=============================================================================
