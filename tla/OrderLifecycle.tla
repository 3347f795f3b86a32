--------------------------- MODULE OrderLifecycle ---------------------------
(***************************************************************************)
(* What the order service promises about one order, whatever is delivered  *)
(* to it, however often and in whatever order: the order takes each step   *)
(* of its life once, in one indivisible change of its status and of the    *)
(* list of events it has announced, and ends confirmed or cancelled.       *)
(* OrderService is shown to implement this specification.                  *)
(***************************************************************************)
EXTENDS Sequences

CONSTANT Orders

VARIABLES
  status,      (* where the order is in its life                     *)
  announced    (* the events it has announced, oldest first          *)

lifecycle == <<status, announced>>

Init ==
  /\ status    = [o \in Orders |-> "absent"]
  /\ announced = [o \in Orders |-> <<>>]

Move(o, from, to, news) ==
  /\ status[o] \in from
  /\ status'    = [status EXCEPT ![o] = to]
  /\ announced' = [announced EXCEPT ![o] = @ \o news]

Place(o)        == Move(o, {"absent"}, "CREATED", <<"order.created">>)
AwaitPayment(o) == Move(o, {"CREATED"}, "PAYMENT_PENDING", <<>>)
Confirm(o)      == Move(o, {"PAYMENT_PENDING"}, "CONFIRMED", <<"order.confirmed">>)
Cancel(o)       == Move(o, {"CREATED", "PAYMENT_PENDING"}, "CANCELLED", <<"order.cancelled">>)

(* The stock could not be reserved: the order ends without an announcement. *)
Reject(o)       == Move(o, {"CREATED"}, "CANCELLED", <<>>)

Next == \E o \in Orders :
  Place(o) \/ AwaitPayment(o) \/ Confirm(o) \/ Cancel(o) \/ Reject(o)

Spec == Init /\ [][Next]_lifecycle
=============================================================================
