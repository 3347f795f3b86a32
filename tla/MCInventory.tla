---------------------------- MODULE MCInventory ----------------------------
(* Two SKUs and three orders that compete for them: o1 wants both SKUs, o2  *)
(* and o3 overlap with it, and there is not enough for o1 and o2.  A sweep  *)
(* can find o2 and o3 expired while o1 is being reserved, and the two may   *)
(* wait for each other.                                                     *)
EXTENDS Inventory, TLC

CONSTANTS o1, o2, o3, w1, w2

MCDemand  == o1 :> <<1, 1>> @@ o2 :> <<0, 2>> @@ o3 :> <<1, 0>>
MCInitial == <<2, 2>>

Symmetry == Permutations(Workers)
=============================================================================
