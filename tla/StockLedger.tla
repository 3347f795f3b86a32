---------------------------- MODULE StockLedger ----------------------------
(***************************************************************************)
(* What the inventory service promises: reservations are made and ended    *)
(* whole orders at a time, each in one indivisible step; an order is       *)
(* reserved at most once; and the orders that hold stock never hold more   *)
(* than there is.  Inventory is shown to implement this specification.     *)
(***************************************************************************)
EXTENDS Naturals, FiniteSets

CONSTANTS
  Orders,
  Skus,
  Demand,    (* Demand[o][s]: units of s that order o asks for, 0 if none *)
  Initial    (* Initial[s]: units of s there are                         *)

VARIABLE reservation    (* the state of each order's reservation *)

vars == <<reservation>>

Holding == {o \in Orders : reservation[o] = "ACTIVE"}

(* The units of s that the orders S ask for.                               *)
Units(S, s) == UNION {{o} \X (1..Demand[o][s]) : o \in S}

Init == reservation = [o \in Orders |-> "none"]

CanReserve(o) ==
  /\ reservation[o] = "none"
  /\ \A s \in Skus : Cardinality(Units(Holding \cup {o}, s)) <= Initial[s]

Reserve(o) ==
  /\ CanReserve(o)
  /\ reservation' = [reservation EXCEPT ![o] = "ACTIVE"]

Release(o) ==
  /\ reservation[o] = "ACTIVE"
  /\ reservation' = [reservation EXCEPT ![o] = "RELEASED"]

Expire(S) ==
  /\ S \subseteq Holding
  /\ reservation' = [o \in Orders |-> IF o \in S THEN "EXPIRED" ELSE reservation[o]]

Next ==
  \/ \E o \in Orders : Reserve(o) \/ Release(o)
  \/ \E S \in SUBSET Orders : Expire(S)

Spec == Init /\ [][Next]_vars
=============================================================================
