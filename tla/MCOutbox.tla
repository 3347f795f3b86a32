------------------------------ MODULE MCOutbox ------------------------------
(* Two orders with three rows between them, and batches of two, so that a   *)
(* batch may end in the middle of an order and two pollers may overlap.     *)
EXTENDS Outbox
=============================================================================
