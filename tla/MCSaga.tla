------------------------------- MODULE MCSaga -------------------------------
(* Two orders that want the only unit of one SKU.                           *)
EXTENDS Saga, TLC

MCDemand  == [o \in Orders |-> [s \in Skus |-> 1]]
MCInitial == [s \in Skus |-> 1]

Symmetry == Permutations(Orders)
=============================================================================
