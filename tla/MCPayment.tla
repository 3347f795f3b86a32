----------------------------- MODULE MCPayment -----------------------------
(* Three workers give every race of three operations on a payment: charges *)
(* and webhooks, refunds and refunds.  Two orders and two keys let keys     *)
(* collide across orders.                                                  *)
EXTENDS Payment, TLC

Symmetry ==
  Permutations(Orders) \cup Permutations(Keys) \cup Permutations(RefundKeys)
    \cup Permutations(Workers)
=============================================================================
