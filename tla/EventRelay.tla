----------------------------- MODULE EventRelay -----------------------------
(***************************************************************************)
(* What the transactional outbox promises the saga: the events of an order *)
(* are written one at a time, and none of them reaches the broker before   *)
(* all the earlier events of that order have.  An event that is published  *)
(* again changes nothing here.  Outbox is shown to implement this          *)
(* specification, and the relay of Saga is its Relay.                      *)
(***************************************************************************)
EXTENDS Naturals

CONSTANT Orders

VARIABLES
  written,    (* how many events of the order are committed                  *)
  relayed     (* the number of the youngest one that the broker has          *)

Init ==
  /\ written = [o \in Orders |-> 0]
  /\ relayed = [o \in Orders |-> 0]

Write(o) ==
  /\ written' = [written EXCEPT ![o] = @ + 1]
  /\ UNCHANGED relayed

Relay(o) ==
  /\ relayed[o] < written[o]
  /\ relayed' = [relayed EXCEPT ![o] = @ + 1]
  /\ UNCHANGED written

Next == \E o \in Orders : Write(o) \/ Relay(o)

Spec == Init /\ [][Next]_<<written, relayed>>
=============================================================================
