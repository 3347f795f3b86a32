--------------------------- MODULE PaymentLedger ---------------------------
(***************************************************************************)
(* What the payment service promises: an order has one payment, it is      *)
(* charged at most once, counts as paid only when it was charged, is       *)
(* settled once, and money goes back only of a payment that was completed. *)
(* Payment is shown to implement this specification, and the payments in   *)
(* Saga to keep to it.                                                     *)
(***************************************************************************)
EXTENDS Naturals

CONSTANTS
  Orders,
  RefundKeys   (* under which money is paid back *)

VARIABLES
  payment,     (* the state of each order's payment                *)
  charges,     (* how often the gateway has charged for it         *)
  paidBack     (* the keys under which the gateway has paid it back *)

vars == <<payment, charges, paidBack>>

Init ==
  /\ payment  = [o \in Orders |-> "none"]
  /\ charges  = [o \in Orders |-> 0]
  /\ paidBack = [o \in Orders |-> {}]

Begin(o) ==
  /\ payment[o] = "none"
  /\ payment' = [payment EXCEPT ![o] = "PROCESSING"]
  /\ UNCHANGED <<charges, paidBack>>

(* The gateway may charge, or have its answer lost, after a webhook has    *)
(* already called the payment a failure.                                   *)
Charge(o) ==
  /\ payment[o] \in {"PROCESSING", "FAILED"}
  /\ charges[o] = 0
  /\ charges' = [charges EXCEPT ![o] = 1]
  /\ UNCHANGED <<payment, paidBack>>

(* The outcome, with the charge or after it.                               *)
Settle(o) ==
  /\ payment[o] = "PROCESSING"
  /\ \/ UNCHANGED charges
     \/ charges[o] = 0 /\ charges' = [charges EXCEPT ![o] = 1]
  /\ \E to \in {"COMPLETED", "FAILED"} :
       /\ to = "COMPLETED" => charges'[o] = 1
       /\ payment' = [payment EXCEPT ![o] = to]
  /\ UNCHANGED paidBack

PayBack(o, k) ==
  /\ payment[o] \in {"COMPLETED", "REFUNDED"}
  /\ paidBack' = [paidBack EXCEPT ![o] = @ \cup {k}]
  /\ UNCHANGED <<payment, charges>>

Refund(o) ==
  /\ payment[o] = "COMPLETED" /\ paidBack[o] # {}
  /\ payment' = [payment EXCEPT ![o] = "REFUNDED"]
  /\ UNCHANGED <<charges, paidBack>>

Next ==
  \E o \in Orders :
    \/ Begin(o) \/ Charge(o) \/ Settle(o) \/ Refund(o)
    \/ \E k \in RefundKeys : PayBack(o, k)

Spec == Init /\ [][Next]_vars
=============================================================================
