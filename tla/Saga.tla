-------------------------------- MODULE Saga --------------------------------
(***************************************************************************)
(* The order saga: the order, inventory and payment services and the broker*)
(* between them.  No service commands another; each takes an event from its*)
(* queue, changes its own database, publishes what follows, and acks.      *)
(*                                                                         *)
(* The services are taken at their word: an operation of the order service *)
(* is one step of OrderLifecycle and one of the inventory service one step *)
(* of StockLedger, which OrderService and Inventory are shown to implement;*)
(* the relay takes the steps of EventRelay, which Outbox implements, and   *)
(* may publish an event again.  What is left is what no service can see:   *)
(* that the database change, the publication and the ack of a handler are  *)
(* three moments, that the queues of a service are independent, and that a *)
(* service reads ten messages at once in two replicas, so that a queue has *)
(* no order (prefetch(10) in each startMessaging).                         *)
(*                                                                         *)
(* Between the change and the publication nothing is locked, but a message *)
(* may wait in its queue as long, so the three moments are one step except *)
(* when something fails between them.  The charge at the gateway is slow   *)
(* and is split: its message is unacked meanwhile, and if the channel      *)
(* closes, it is delivered to another handler while this one still waits.  *)
(* Consumers that send nothing back (notification, audit) and events that  *)
(* only they read are left out, as are the HTTP calls that reserve,        *)
(* release, charge and refund by hand, and gateway webhooks.               *)
(***************************************************************************)
EXTENDS Integers, Sequences

CONSTANTS
  Orders,
  Skus, Demand, Initial,   (* as in StockLedger                              *)
  MaxFaults                (* bound: crashes, closed channels, failed        *)
                           (* statements, failed or unconfirmed              *)
                           (* publications, repeated deliveries              *)

ASSUME SagaAssumption == MaxFaults \in Nat

(* The bindings of setupTopology among the three services: which queue      *)
(* gets which event.                                                        *)
Bindings ==
  { <<"inventory.order-events",   "order.created">>,
    <<"inventory.order-events",   "order.cancelled">>,
    <<"payment.inventory-events", "inventory.reserved">>,
    <<"order.inventory-events",   "inventory.reserved">>,
    <<"order.inventory-events",   "inventory.failed">>,
    <<"order.payment-events",     "payment.completed">>,
    <<"order.payment-events",     "payment.failed">> }

(* A message in a queue: its binding, the order it is about, and whether    *)
(* the broker delivers it again.                                            *)
Message == [via : Bindings, order : Orders, redelivered : BOOLEAN]

(* A handler that waits for the gateway: the message it has not acked, and  *)
(* whether the channel that message came on has closed since.               *)
Call == [message : Message, closed : BOOLEAN]

VARIABLES
  status,      (* orders.status                                              *)
  announced,   (* the order's outbox rows                                    *)
  relayed,     (* how many of them were published at least once              *)
  reservation, (* the state of the order's reservations                      *)
  payment,     (* payments.status; "none" is no row, and PROCESSING stands   *)
               (* for PENDING too                                            *)
  charges,     (* history: how often the gateway charged for the order       *)
  charging,    (* the calls that wait for the gateway about the order        *)
  queued,      (* how many copies of each message are in the queues          *)
  faults       (* how many faults there have been                            *)

order == <<status, announced>>
money == <<payment, charges, charging>>
vars  == <<order, relayed, reservation, money, queued, faults>>

Order  == INSTANCE OrderLifecycle
Ledger == INSTANCE StockLedger
Events == INSTANCE EventRelay WITH written <- [o \in Orders |-> Len(announced[o])]

Init ==
  /\ Order!Init /\ Ledger!Init
  /\ relayed  = [o \in Orders |-> 0]
  /\ payment  = [o \in Orders |-> "none"]
  /\ charges  = [o \in Orders |-> 0]
  /\ charging = [o \in Orders |-> {}]
  /\ queued   = [m \in Message |-> 0]
  /\ faults   = 0
-----------------------------------------------------------------------------
(* The broker and the consumers.                                           *)

Fault == faults < MaxFaults /\ faults' = faults + 1

(* The copies that publishing events of these types about o puts in queues. *)
Published(o, types) ==
  {m \in Message : m.order = o /\ m.via[2] \in types /\ ~ m.redelivered}

One(b) == IF b THEN 1 ELSE 0

Queue(in, out) == queued' = [m \in Message |-> queued[m] + One(m \in in) - One(m \in out)]

(* The consumer's handler has done its work on m and published events of    *)
(* these types; then it acks, or dies first and m is delivered again.       *)
Handled(m, types) ==
  LET sent == Published(m.order, types) IN
  \/ Queue(sent, {m}) /\ UNCHANGED faults
  \/ Queue(sent \cup {[m EXCEPT !.redelivered = TRUE]}, {m}) /\ Fault

(* A handler of m fails: the first time m is requeued, the second time it   *)
(* is dead-lettered, unless the process died and sent no nack.              *)
Returned(m) ==
  /\ Fault
  /\ \/ Queue({[m EXCEPT !.redelivered = TRUE]}, {m})
     \/ m.redelivered /\ Queue({}, {m})

HandlerFails(m) ==
  /\ queued[m] > 0
  /\ Returned(m)
  /\ UNCHANGED <<order, relayed, reservation, money>>
-----------------------------------------------------------------------------
(* The order service.                                                      *)

Place(o) ==
  /\ Order!Place(o)
  /\ UNCHANGED <<relayed, reservation, money, queued, faults>>

(* CancelOrderHandler: allowed from CREATED only.                          *)
CustomerCancel(o) ==
  /\ status[o] = "CREATED"
  /\ Order!Cancel(o)
  /\ UNCHANGED <<relayed, reservation, money, queued, faults>>

Relay(o) ==
  /\ UNCHANGED <<order, reservation, money, faults>>
  /\ Events!Relay(o)
  /\ Queue(Published(o, {announced[o][relayed'[o]]}), {})

(* A row that was published and not marked is published again.             *)
RelayAgain(o) ==
  /\ Fault
  /\ \E i \in 1..relayed[o] : Queue(Published(o, {announced[o][i]}), {})
  /\ UNCHANGED <<order, relayed, reservation, money>>

(* The four handlers.  An event that the order's status has no use for is  *)
(* acked and forgotten.                                                    *)
Use(o, wanted, move) == IF status[o] \in wanted THEN move ELSE UNCHANGED order

OrderHandles(m) ==
  LET o == m.order IN
  /\ queued[m] > 0
  /\ \/ m.via[2] = "inventory.reserved" /\ m.via[1] = "order.inventory-events"
        /\ Use(o, {"CREATED"}, Order!AwaitPayment(o))
     \/ m.via[2] = "payment.completed" /\ Use(o, {"PAYMENT_PENDING"}, Order!Confirm(o))
     \/ m.via[2] = "payment.failed"
        /\ Use(o, {"CREATED", "PAYMENT_PENDING"}, Order!Cancel(o))
     \/ m.via[2] = "inventory.failed" /\ Use(o, {"CREATED"}, Order!Reject(o))
  /\ Handled(m, {})
  /\ UNCHANGED <<relayed, reservation, money>>
-----------------------------------------------------------------------------
(* The inventory service.                                                  *)

ToReserve(m) == m.via[2] = "order.created" /\ queued[m] > 0

(* A mutant of Refuses: a refusal is only logged.                          *)
RefusesSilently(m) ==
  /\ ToReserve(m)
  /\ ~ Ledger!CanReserve(m.order)
  /\ Handled(m, {})
  /\ UNCHANGED <<order, relayed, reservation, money>>

(* Whatever keeps the lines from being reserved, be it the stock or the    *)
(* unique index when they already are, is caught and answered with         *)
(* inventory.failed.                                                       *)
Refuses(m) ==
  /\ ToReserve(m)
  /\ ~ Ledger!CanReserve(m.order)
  /\ Handled(m, {"inventory.failed"})
  /\ UNCHANGED <<order, relayed, reservation, money>>

(* A mutant of Reserves: a success is announced like a refusal.            *)
ReservesAsRefusal(m) ==
  /\ ToReserve(m)
  /\ Ledger!Reserve(m.order)
  /\ Handled(m, {"inventory.failed"})
  /\ UNCHANGED <<order, relayed, money>>

Reserves(m) ==
  /\ ToReserve(m)
  /\ Ledger!Reserve(m.order)
  /\ Handled(m, {"inventory.reserved"})
  /\ UNCHANGED <<order, relayed, money>>

(* The reservation commits, or its transaction fails, and then the process *)
(* dies, or the publication of inventory.reserved is rejected: the broker  *)
(* may have taken it all the same, and inventory.failed follows.           *)
ReserveGoesWrong(m) ==
  /\ ToReserve(m)
  /\ \/ Ledger!Reserve(m.order) /\ Returned(m)
     \/ /\ Fault
        /\ Ledger!Reserve(m.order)
        /\ \E types \in {{"inventory.failed"}, {"inventory.reserved", "inventory.failed"}} :
             Queue(Published(m.order, types), {m})
     \/ /\ Fault
        /\ UNCHANGED reservation
        /\ Queue(Published(m.order, {"inventory.failed"}), {m})
  /\ UNCHANGED <<order, relayed, money>>

(* order.cancelled: ACTIVE reservations are released, if there are any.    *)
Releases(m) ==
  /\ m.via[2] = "order.cancelled" /\ queued[m] > 0
  /\ IF reservation[m.order] = "ACTIVE" THEN Ledger!Release(m.order)
                                        ELSE UNCHANGED reservation
  /\ Handled(m, {})
  /\ UNCHANGED <<order, relayed, money>>

(* A mutant of Expires: the sweep leaves settled orders alone.             *)
ExpiresUnsettled(o) ==
  /\ reservation[o] = "ACTIVE" /\ status[o] \notin {"CONFIRMED", "CANCELLED"}
  /\ Ledger!Expire({o})
  /\ UNCHANGED <<order, relayed, money, queued, faults>>

(* The sweep, after the TTL, whatever has become of the order.             *)
Expires(o) ==
  /\ reservation[o] = "ACTIVE"
  /\ Ledger!Expire({o})
  /\ UNCHANGED <<order, relayed, money, queued, faults>>
-----------------------------------------------------------------------------
(* The payment service.                                                    *)

ToPay(m) == m.via[1] = "payment.inventory-events" /\ queued[m] > 0

(* A mutant of PayBegins: only a completed payment counts as existing.     *)
PayBeginsUnlessCompleted(m) ==
  /\ ToPay(m)
  /\ payment[m.order] # "COMPLETED"
  /\ payment'  = [payment EXCEPT ![m.order] = "PROCESSING"]
  /\ charging' = [charging EXCEPT ![m.order] = @ \cup {[message |-> m, closed |-> FALSE]}]
  /\ Queue({}, {m})
  /\ UNCHANGED <<order, relayed, reservation, charges, faults>>

(* No payment has the order's key: one is saved and the gateway is called. *)
PayBegins(m) ==
  /\ ToPay(m)
  /\ payment[m.order] = "none"
  /\ payment'  = [payment EXCEPT ![m.order] = "PROCESSING"]
  /\ charging' = [charging EXCEPT ![m.order] = @ \cup {[message |-> m, closed |-> FALSE]}]
  /\ Queue({}, {m})
  /\ UNCHANGED <<order, relayed, reservation, charges, faults>>

(* A mutant of Outcomes: the event tells the outcome the wrong way round.  *)
OutcomesCrossed == { <<"COMPLETED", "payment.failed">>, <<"FAILED", "payment.completed">> }

(* The gateway's answer, after retries and through the breaker, ends the   *)
(* payment and is published.                                               *)
Outcomes == { <<"COMPLETED", "payment.completed">>, <<"FAILED", "payment.failed">> }

Answered(o, c) == charging' = [charging EXCEPT ![o] = @ \ {c}]

(* What the broker delivers again if the handler does not ack: nothing, if *)
(* it has done so already.                                                 *)
Back(c) == IF c.closed THEN {} ELSE {[c.message EXCEPT !.redelivered = TRUE]}

(* The channel of a handler that waits for the gateway closes: the broker, *)
(* a failing connection or a replica that stops takes it down.  The call   *)
(* runs on, and its message is there for the next consumer.                *)
ChannelCloses(o) ==
  \E c \in charging[o] :
    /\ ~ c.closed /\ Fault
    /\ charging' = [charging EXCEPT ![o] = (@ \ {c}) \cup {[c EXCEPT !.closed = TRUE]}]
    /\ Queue(Back(c), {})
    /\ UNCHANGED <<order, relayed, reservation, payment, charges>>

PayEnds(o) ==
  \E c \in charging[o], outcome \in Outcomes :
    LET sent == Published(o, {outcome[2]}) IN
    /\ Answered(o, c)
    /\ payment' = [payment EXCEPT ![o] = outcome[1]]
    /\ charges' = [charges EXCEPT ![o] = @ + One(outcome[1] = "COMPLETED")]
    /\ \/ Queue(sent, {}) /\ UNCHANGED faults
       \/ Queue(sent \cup Back(c), {}) /\ Fault
    /\ UNCHANGED <<order, relayed, reservation>>

(* The process dies or a statement or publication fails on the way, or the *)
(* confirm channel is closed as well: the customer may have been charged,  *)
(* the payment may be COMPLETED or FAILED or still PROCESSING, and the     *)
(* message comes back or is dead-lettered.  A failed update after a        *)
(* successful charge is no payment failure, since markFailed is not        *)
(* allowed from COMPLETED and throws.                                      *)
PayGoesWrong(o) ==
  \E c \in charging[o], n \in {0, 1} :
    /\ Fault \/ (c.closed /\ UNCHANGED faults)
    /\ Answered(o, c)
    /\ charges' = [charges EXCEPT ![o] = @ + n]
    /\ \E s \in {"PROCESSING", IF n = 1 THEN "COMPLETED" ELSE "FAILED"} :
         payment' = [payment EXCEPT ![o] = s]
    /\ \/ Queue(Back(c), {})
       \/ c.message.redelivered /\ Queue({}, {})
    /\ UNCHANGED <<order, relayed, reservation>>

(* A mutant of PayIsKnown: an existing payment counts as a success.        *)
PayIsKnownAsSuccess(m) ==
  /\ ToPay(m)
  /\ payment[m.order] # "none"
  /\ Handled(m, {"payment.completed"})
  /\ UNCHANGED <<order, relayed, reservation, money>>

(* A payment with the order's key exists.  Any status but COMPLETED, the   *)
(* one of a payment that is being processed included, is announced as a    *)
(* failure.                                                                *)
PayIsKnown(m) ==
  /\ ToPay(m)
  /\ payment[m.order] # "none"
  /\ Handled(m, {IF payment[m.order] = "COMPLETED" THEN "payment.completed"
                                                   ELSE "payment.failed"})
  /\ UNCHANGED <<order, relayed, reservation, money>>
-----------------------------------------------------------------------------
Handle(m) ==
  \/ OrderHandles(m)
  \/ Refuses(m) \/ Reserves(m) \/ Releases(m)
  \/ PayBegins(m) \/ PayIsKnown(m)

Next ==
  \/ \E o \in Orders : Place(o) \/ CustomerCancel(o)
  \/ \E o \in Orders : Relay(o) \/ RelayAgain(o)
  \/ \E m \in Message : Handle(m) \/ HandlerFails(m) \/ ReserveGoesWrong(m)
  \/ \E o \in Orders : PayEnds(o) \/ PayGoesWrong(o) \/ ChannelCloses(o) \/ Expires(o)

Spec == Init /\ [][Next]_vars

(* The relay polls, the consumers take what is queued and the gateway      *)
(* answers, as long as one replica of each service has its channels (see   *)
(* Outbox and ServiceProcess); the sweep runs at an interval and leaves    *)
(* for the next what it failed to do (ReservationExpiryJob); customers and *)
(* faults owe nothing.                                                     *)
FairSpec ==
  /\ Spec
  /\ \A o \in Orders : WF_vars(Relay(o)) /\ WF_vars(PayEnds(o)) /\ WF_vars(Expires(o))
  /\ \A m \in Message : WF_vars(Handle(m))
-----------------------------------------------------------------------------
OrderEvents == {"order.created", "order.confirmed", "order.cancelled"}

OrderStates == {"absent", "CREATED", "PAYMENT_PENDING", "CONFIRMED", "CANCELLED"}

(* Every variable has the type its column or queue has; no queue holds     *)
(* less than no message.                                                   *)
TypeOK ==
  /\ status      \in [Orders -> OrderStates]
  /\ announced   \in [Orders -> Seq(OrderEvents)]
  /\ relayed     \in [Orders -> Nat]
  /\ reservation \in [Orders -> {"none", "ACTIVE", "RELEASED", "EXPIRED"}]
  /\ payment     \in [Orders -> {"none", "PROCESSING", "COMPLETED", "FAILED"}]
  /\ charges     \in [Orders -> Nat]
  /\ charging    \in [Orders -> SUBSET Call]
  /\ queued      \in [Message -> Nat]
  /\ faults      \in Nat

(* The payments keep to the ledger that Payment is shown to implement,     *)
(* whatever fails, is answered late, or is delivered twice, be it while    *)
(* the first delivery still waits for the gateway.                         *)
Payments == INSTANCE PaymentLedger
              WITH RefundKeys <- {}, paidBack <- [o \in Orders |-> {}]
PaymentsKept == Payments!Spec

(* Goods leave only against money: an order is confirmed only if its       *)
(* payment is completed and the customer was charged, whatever was         *)
(* delivered twice, late or after a crash.                                 *)
ConfirmedIsPaid ==
  \A o \in Orders : status[o] = "CONFIRMED" => payment[o] = "COMPLETED" /\ charges[o] = 1

(* A customer is never charged twice for an order (PaymentEventHandlers:   *)
(* "a redelivered reservation event never double-charges"), whether the    *)
(* first delivery's handler has ended, has failed half-way, or still waits *)
(* for the gateway on a channel that has closed.                           *)
ChargedOnce == \A o \in Orders : charges[o] <= 1

(* Money is taken only for an order whose stock was reserved before.       *)
PaidAfterReserved ==
  \A o \in Orders : payment[o] # "none" => reservation[o] # "none"

(* A message is the consequence of a state that its sender has reached and *)
(* does not leave.                                                         *)
MessageTrue(m) ==
  /\ m.via[2] = "inventory.reserved" => reservation[m.order] # "none"
  /\ m.via[2] = "payment.completed" => payment[m.order] = "COMPLETED"

MessagesTrue == \A m \in Message : queued[m] > 0 => MessageTrue(m)

(* The relay publishes what has been written.                              *)
RelayedWritten == \A o \in Orders : relayed[o] <= Len(announced[o])

(* Where a payment stands and what the gateway has done agree.             *)
PaymentsAgree ==
  \A o \in Orders :
     /\ payment[o] \in {"none", "FAILED"} => charges[o] = 0
     /\ payment[o] = "COMPLETED" => charges[o] = 1
     /\ charges[o] <= 1
     /\ \A c \in charging[o] :
          /\ payment[o] = "PROCESSING" /\ charges[o] = 0
          /\ c.message.order = o /\ c.message.via[1] = "payment.inventory-events"
          /\ charging[o] = {c}

(* The inductive invariant behind the three properties (SagaProofs).       *)
IInv ==
  /\ TypeOK
  /\ MessagesTrue
  /\ RelayedWritten
  /\ PaymentsAgree
  /\ PaidAfterReserved
  /\ ConfirmedIsPaid

(* An order does not stay CREATED: the inventory service always answers,   *)
(* a crash or a repeated delivery notwithstanding.                         *)
LeavesCreated == \A o \in Orders : status[o] = "CREATED" ~> status[o] # "CREATED"

(* The stock of a cancelled order comes back for good, by its release or   *)
(* by the sweep: even where the cancellation came first, and the order was *)
(* reserved after it; and where inventory.failed is told of a reservation  *)
(* that exists, because order.created came twice or inventory.reserved     *)
(* could not be published (ReservationExpiryJob: what is not released      *)
(* "would otherwise hold stock forever").                                  *)
StockComesBack ==
  \A o \in Orders : status[o] = "CANCELLED" ~> [](reservation[o] # "ACTIVE")

(* As long as nothing has failed or was delivered twice, the mail about a  *)
(* cancellation ("No payment has been taken.") is right for an order that  *)
(* was awaiting payment.  For one cancelled from CREATED it may be wrong:  *)
(* its reservation may be on the way to the payment service.               *)
NoPaymentTaken ==
  [][\A o \in Orders :
       faults' = 0 /\ status[o] = "PAYMENT_PENDING" /\ status'[o] = "CANCELLED"
         => charges[o] = 0]_vars

(* As long as nothing has failed or was delivered twice, an order that is  *)
(* cancelled after inventory.failed holds no stock (OrderEventHandlers:    *)
(* "Nothing was reserved, so no compensation event is emitted").           *)
RejectedHoldsNothing ==
  \A o \in Orders :
     faults = 0 /\ status[o] = "CANCELLED" /\ announced[o] = <<"order.created">>
       => reservation[o] # "ACTIVE"

(* Only the first event of an order is order.created.                      *)
OrderTold ==
  \A o \in Orders :
     /\ status[o] = "absent" <=> announced[o] = <<>>
     /\ \A i \in 1..Len(announced[o]) : announced[o][i] = "order.created" => i = 1

(* order.created, on the one queue it goes to, is there once, before the   *)
(* reservation.                                                            *)
CreatedOnce ==
  /\ \A o \in Orders : relayed[o] = 0 => reservation[o] = "none"
  /\ \A m \in Message : m.via[2] = "order.created" /\ queued[m] > 0 =>
       queued[m] = 1 /\ relayed[m.order] > 0 /\ reservation[m.order] = "none"

(* The inventory service has answered order.created and reserved nothing:  *)
(* nor will it.                                                            *)
Refused(o) ==
  /\ relayed[o] > 0 /\ reservation[o] = "none"
  /\ \A m \in Message : m.order = o /\ m.via[2] = "order.created" => queued[m] = 0

RefusalsTrue ==
  /\ \A m \in Message : m.via[2] = "inventory.failed" /\ queued[m] > 0 => Refused(m.order)
  /\ \A o \in Orders :
       status[o] = "CANCELLED" /\ announced[o] = <<"order.created">> => Refused(o)

(* inventory.reserved reaches the payment service once, before the payment; *)
(* a payment that is announced as failed is.                               *)
PaidOnce ==
  \A m \in Message : queued[m] > 0 =>
     /\ m.via[1] = "payment.inventory-events" => queued[m] = 1 /\ payment[m.order] = "none"
     /\ m.via[2] = "payment.failed" => payment[m.order] = "FAILED"

NothingRepeated == \A m \in Message : queued[m] > 0 => ~ m.redelivered

NothingClosed == \A o \in Orders : \A c \in charging[o] : ~ c.closed

(* The inductive invariant, on top of IInv, of the runs without a fault:   *)
(* behind RejectedHoldsNothing and NoPaymentTaken (SagaProofs).            *)
Clean    == NothingRepeated /\ CreatedOnce /\ RefusalsTrue /\ PaidOnce
CleanRun == OrderTold /\ (faults = 0 => Clean /\ NothingClosed)
-----------------------------------------------------------------------------
(* What the documentation says and the code does not do.                   *)

(* A completed payment settles its order: an event is ignored only "if the *)
(* order has already reached (or moved past) the target state".            *)
(* (OrderEventHandlers)                                                    *)
PaidIsSettled ==
  \A o \in Orders : payment[o] = "COMPLETED" ~> status[o] \in {"CONFIRMED", "CANCELLED"}
=============================================================================
