---------------------------- MODULE OrderStatus ----------------------------
(***************************************************************************)
(* The order state machine: the transition table every status change of an *)
(* order is checked against, and the three questions the code asks of it.  *)
(***************************************************************************)
EXTENDS Naturals, Sequences

Transitions ==
  [ CREATED            |-> {"INVENTORY_RESERVED", "INVENTORY_FAILED", "EXPIRED", "CANCELLED"},
    INVENTORY_RESERVED |-> {"PAYMENT_PENDING", "CANCELLED"},
    PAYMENT_PENDING    |-> {"CONFIRMED", "PAYMENT_FAILED"},
    PAYMENT_FAILED     |-> {"CANCELLED"},
    INVENTORY_FAILED   |-> {"CANCELLED"},
    CONFIRMED          |-> {},
    CANCELLED          |-> {},
    EXPIRED            |-> {} ]

Statuses == DOMAIN Transitions

CanTransition(from, to) == to \in Transitions[from]
IsCancellable(s)        == CanTransition(s, "CANCELLED")
IsTerminal(s)           == Transitions[s] = {}

(* The chain of transitionTo calls path succeeds from status s: none of    *)
(* them throws.                                                            *)
Walk(s, path) ==
  \A i \in 1..Len(path) :
     CanTransition(IF i = 1 THEN s ELSE path[i - 1], path[i])
=============================================================================
