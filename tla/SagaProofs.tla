----------------------------- MODULE SagaProofs -----------------------------
(***************************************************************************)
(* Proofs about the saga, for any orders, stock and number of faults.  The *)
(* inductive invariant is IInv of Saga: every message is the consequence   *)
(* of a state that its sender does not leave again, so a message that is   *)
(* late, repeated or returned still tells the truth.                       *)
(***************************************************************************)
EXTENDS Saga, SequenceTheorems, TLAPS

(* A message's binding, by its first or second component.                  *)
LEMMA BindingFields ==
  ASSUME NEW m \in Message
  PROVE  /\ m.order \in Orders
         /\ m.via[1] = "payment.inventory-events" => m.via[2] = "inventory.reserved"
  BY DEF Message, Bindings

(* A message that comes back is about the same event.                      *)
LEMMA RedeliveredFields ==
  ASSUME NEW m \in Message
  PROVE  LET n == [m EXCEPT !.redelivered = TRUE]
         IN  n \in Message /\ n.via = m.via /\ n.order = m.order
  BY DEF Message

(* What the queues hold after a step: what they held or what was put in.   *)
LEMMA QueueHolds ==
  ASSUME queued \in [Message -> Nat], NEW in, NEW out,
         \A m \in out : queued[m] > 0, Queue(in, out)
  PROVE  /\ queued' \in [Message -> Nat]
         /\ \A m \in Message : queued'[m] > 0 => queued[m] > 0 \/ m \in in
<1>1. \A m \in Message : queued'[m] = queued[m] + One(m \in in) - One(m \in out)
  BY DEF Queue
<1>2. \A m \in Message : queued'[m] \in Nat
  BY <1>1 DEF One
<1>3. queued' \in [Message -> Nat]
  BY <1>2 DEF Queue
<1>4. \A m \in Message : queued'[m] > 0 => queued[m] > 0 \/ m \in in
  BY <1>1 DEF One
<1> QED
  BY <1>3, <1>4

(* What messages depend on is not undone.                                  *)
Lasting ==
  \A o \in Orders : /\ reservation[o] # "none" => reservation'[o] # "none"
                    /\ payment[o] = "COMPLETED" => payment'[o] = "COMPLETED"

(* Messages stay true if those put in are.                                 *)
LEMMA MessagesStayTrue ==
  ASSUME IInv, Lasting, NEW in, NEW out, \A m \in out : queued[m] > 0, Queue(in, out),
         \A m \in in : m \in Message => MessageTrue(m)'
  PROVE  queued' \in [Message -> Nat] /\ MessagesTrue'
<1>1. queued' \in [Message -> Nat]
      /\ \A m \in Message : queued'[m] > 0 => queued[m] > 0 \/ m \in in
  BY QueueHolds DEF IInv, TypeOK
<1>2. ASSUME NEW m \in Message, queued[m] > 0 PROVE MessageTrue(m)'
  BY <1>2, BindingFields DEF IInv, MessagesTrue, MessageTrue, Lasting
<1> QED
  BY <1>1, <1>2 DEF MessagesTrue

(* The messages that publishing events puts in the queues are true if the  *)
(* events are.                                                             *)
LEMMA PublishedTrue ==
  ASSUME NEW o \in Orders, NEW types,
         "inventory.reserved" \in types => reservation'[o] # "none",
         "payment.completed" \in types => payment'[o] = "COMPLETED"
  PROVE  \A m \in Published(o, types) : m \in Message /\ MessageTrue(m)'
  BY DEF Published, MessageTrue

(* A message that comes back is as true as it was.                         *)
LEMMA RedeliveredTrue ==
  ASSUME IInv, Lasting, NEW m \in Message, queued[m] > 0
  PROVE  MessageTrue([m EXCEPT !.redelivered = TRUE])'
  BY RedeliveredFields, BindingFields DEF IInv, MessagesTrue, MessageTrue, Lasting

(* A handler that publishes true events leaves true messages.              *)
LEMMA HandledTrue ==
  ASSUME IInv, Lasting, NEW m \in Message, queued[m] > 0, NEW types, Handled(m, types),
         "inventory.reserved" \in types => reservation'[m.order] # "none",
         "payment.completed" \in types => payment'[m.order] = "COMPLETED"
  PROVE  queued' \in [Message -> Nat] /\ MessagesTrue' /\ faults' \in Nat
<1> DEFINE sent == Published(m.order, types)
           back == [m EXCEPT !.redelivered = TRUE]
<1>1. \A n \in sent \cup {back} : MessageTrue(n)'
  BY PublishedTrue, RedeliveredTrue, BindingFields
<1>2. faults' \in Nat
  BY DEF Handled, Fault, IInv, TypeOK
<1>3. Queue(sent, {m}) \/ Queue(sent \cup {back}, {m})
  BY DEF Handled
<1> HIDE DEF sent, back
<1> QED
  BY <1>1, <1>2, <1>3, MessagesStayTrue

(* So does a handler that fails.                                           *)
LEMMA ReturnedTrue ==
  ASSUME IInv, Lasting, NEW m \in Message, queued[m] > 0, Returned(m)
  PROVE  queued' \in [Message -> Nat] /\ MessagesTrue' /\ faults' \in Nat
<1> DEFINE back == [m EXCEPT !.redelivered = TRUE]
<1>1. MessageTrue(back)'
  BY RedeliveredTrue
<1>2. faults' \in Nat
  BY DEF Returned, Fault, IInv, TypeOK
<1>3. Queue({back}, {m}) \/ Queue({}, {m})
  BY DEF Returned
<1> HIDE DEF back
<1> QED
  BY <1>1, <1>2, <1>3, MessagesStayTrue

-----------------------------------------------------------------------------
(* The invariant holds before the first order.                             *)
LEMMA InitIInv == Init => IInv
<1> SUFFICES ASSUME Init PROVE IInv
  OBVIOUS
<1> USE DEF Init, Order!Init, Ledger!Init
<1>1. TypeOK
  BY DEF TypeOK, OrderStates
<1>2. MessagesTrue /\ RelayedWritten
  BY DEF MessagesTrue, RelayedWritten
<1>3. PaymentsAgree /\ PaidAfterReserved /\ ConfirmedIsPaid
  BY DEF PaymentsAgree, PaidAfterReserved, ConfirmedIsPaid
<1> QED
  BY <1>1, <1>2, <1>3 DEF IInv

(* A step of the order's life, with the queues as the handler leaves them: *)
(* only a confirmation has anything to answer for.                         *)
LEMMA OrderMoveIInv ==
  ASSUME IInv, NEW o \in Orders, NEW from, NEW to \in OrderStates, NEW news \in Seq(OrderEvents),
         Order!Move(o, from, to, news),
         UNCHANGED <<relayed, reservation, money>>,
         to = "CONFIRMED" => payment[o] = "COMPLETED",
         queued' \in [Message -> Nat], MessagesTrue', faults' \in Nat
  PROVE  IInv'
<1>1. status' = [status EXCEPT ![o] = to] /\ announced' = [announced EXCEPT ![o] = @ \o news]
  BY DEF Order!Move
<1>2. announced[o] \o news \in Seq(OrderEvents)
      /\ Len(announced[o] \o news) >= Len(announced[o])
  <2>1. announced[o] \in Seq(OrderEvents)
    BY DEF IInv, TypeOK
  <2> QED
    BY <2>1, ConcatProperties
<1>3. TypeOK'
  BY <1>1, <1>2 DEF IInv, TypeOK, money
<1>4. RelayedWritten'
  <2> SUFFICES ASSUME NEW p \in Orders PROVE relayed[p] <= Len(announced'[p])
    BY DEF RelayedWritten
  <2>1. Len(announced'[p]) >= Len(announced[p])
    BY <1>1, <1>2 DEF IInv, TypeOK
  <2>2. relayed[p] <= Len(announced[p]) /\ relayed[p] \in Nat
        /\ announced[p] \in Seq(OrderEvents) /\ announced'[p] \in Seq(OrderEvents)
    BY <1>3 DEF IInv, RelayedWritten, TypeOK
  <2> QED
    BY <2>1, <2>2
<1>5. PaymentsAgree' /\ PaidAfterReserved'
  BY DEF IInv, PaymentsAgree, PaidAfterReserved, money
<1>6. ConfirmedIsPaid'
  BY <1>1 DEF IInv, TypeOK, ConfirmedIsPaid, PaymentsAgree, money
<1> QED
  BY <1>3, <1>4, <1>5, <1>6 DEF IInv

(* A step that leaves the orders and the payments alone and ends or makes  *)
(* reservations.                                                           *)
LEMMA StockIInv ==
  ASSUME IInv, UNCHANGED <<order, relayed, money>>, Lasting,
         reservation' \in [Orders -> {"none", "ACTIVE", "RELEASED", "EXPIRED"}],
         queued' \in [Message -> Nat], MessagesTrue', faults' \in Nat
  PROVE  IInv'
<1>1. TypeOK' /\ RelayedWritten'
  BY DEF IInv, TypeOK, RelayedWritten, order, money
<1>2. PaymentsAgree' /\ PaidAfterReserved' /\ ConfirmedIsPaid'
  BY DEF IInv, PaymentsAgree, PaidAfterReserved, ConfirmedIsPaid, Lasting, order, money
<1> QED
  BY <1>1, <1>2 DEF IInv

(* The steps of the ledger only take an order's reservation onwards.       *)
LEMMA LedgerLasts ==
  ASSUME IInv, NEW o \in Orders,
         Ledger!Reserve(o) \/ Ledger!Release(o) \/ Ledger!Expire({o}) \/ UNCHANGED reservation,
         UNCHANGED payment
  PROVE  /\ Lasting
         /\ reservation' \in [Orders -> {"none", "ACTIVE", "RELEASED", "EXPIRED"}]
         /\ Ledger!Reserve(o) => reservation'[o] # "none"
  BY DEF IInv, TypeOK, Lasting, Ledger!Reserve, Ledger!Release, Ledger!Expire

-----------------------------------------------------------------------------
(* The order service: placing, cancelling and the four handlers.           *)
LEMMA OrderIInv ==
  ASSUME IInv, NEW o \in Orders, Place(o) \/ CustomerCancel(o)
  PROVE  IInv'
<1>1. UNCHANGED <<relayed, reservation, money, queued, faults>>
  BY DEF Place, CustomerCancel
<1>2. queued' \in [Message -> Nat] /\ MessagesTrue' /\ faults' \in Nat
  BY <1>1 DEF IInv, TypeOK, MessagesTrue, MessageTrue, money
<1>3. <<"order.created">> \in Seq(OrderEvents) /\ <<"order.cancelled">> \in Seq(OrderEvents)
  BY DEF OrderEvents
<1>4. CASE Place(o)
  BY <1>1, <1>2, <1>3, <1>4, OrderMoveIInv DEF Place, Order!Place, OrderStates
<1>5. CASE CustomerCancel(o)
  BY <1>1, <1>2, <1>3, <1>5, OrderMoveIInv DEF CustomerCancel, Order!Cancel, OrderStates
<1> QED
  BY <1>4, <1>5

(* The order service's four handlers: the one that confirms has a true     *)
(* payment.completed in hand.                                              *)
LEMMA OrderHandlesIInv ==
  ASSUME IInv, NEW m \in Message, OrderHandles(m)
  PROVE  IInv'
<1> DEFINE o == m.order
<1>1. queued[m] > 0 /\ Handled(m, {}) /\ UNCHANGED <<relayed, reservation, money>>
      /\ o \in Orders
  BY BindingFields DEF OrderHandles
<1>2. Lasting
  BY <1>1 DEF Lasting, money
<1>3. queued' \in [Message -> Nat] /\ MessagesTrue' /\ faults' \in Nat
  BY <1>1, <1>2, HandledTrue
<1>4. /\ <<>> \in Seq(OrderEvents) /\ <<"order.confirmed">> \in Seq(OrderEvents)
      /\ <<"order.cancelled">> \in Seq(OrderEvents)
  BY DEF OrderEvents
<1>5. CASE UNCHANGED order
  BY <1>1, <1>2, <1>3, <1>5, StockIInv DEF IInv, TypeOK
<1>6. CASE Order!AwaitPayment(o)
  BY <1>1, <1>3, <1>4, <1>6, OrderMoveIInv DEF Order!AwaitPayment, OrderStates
<1>7. CASE m.via[2] = "payment.completed" /\ Order!Confirm(o)
  <2>1. payment[o] = "COMPLETED"
    BY <1>1, <1>7 DEF IInv, MessagesTrue, MessageTrue
  <2> QED
    BY <1>1, <1>3, <1>4, <1>7, <2>1, OrderMoveIInv DEF Order!Confirm, OrderStates
<1>8. CASE Order!Cancel(o)
  BY <1>1, <1>3, <1>4, <1>8, OrderMoveIInv DEF Order!Cancel, OrderStates
<1>9. CASE Order!Reject(o)
  BY <1>1, <1>3, <1>4, <1>9, OrderMoveIInv DEF Order!Reject, OrderStates
<1> QED
  BY <1>5, <1>6, <1>7, <1>8, <1>9 DEF OrderHandles, Use

(* The relay publishes order events only, which claim nothing.             *)
LEMMA RelayIInv ==
  ASSUME IInv, NEW o \in Orders, Relay(o) \/ RelayAgain(o)
  PROVE  IInv'
<1>1. UNCHANGED <<order, reservation, money>> /\ faults' \in Nat
  BY DEF Relay, RelayAgain, Fault, IInv, TypeOK
<1>2. /\ relayed' \in [Orders -> Nat] /\ RelayedWritten'
      /\ \E type \in OrderEvents : Queue(Published(o, {type}), {})
  <2>1. announced[o] \in Seq(OrderEvents) /\ relayed[o] \in Nat /\ relayed[o] <= Len(announced[o])
    BY DEF IInv, TypeOK, RelayedWritten
  <2>0. \A i \in 1..Len(announced[o]) : announced[o][i] \in OrderEvents
    BY <2>1
  <2>2. CASE Relay(o)
    <3>1. relayed' = [relayed EXCEPT ![o] = relayed[o] + 1] /\ relayed[o] < Len(announced[o])
      BY <2>2 DEF Relay, Events!Relay
    <3>2. relayed' \in [Orders -> Nat] /\ RelayedWritten'
      BY <1>1, <2>1, <3>1 DEF IInv, TypeOK, RelayedWritten, order
    <3>3. relayed'[o] = relayed[o] + 1
      BY <3>1 DEF IInv, TypeOK
    <3>4. relayed'[o] \in 1..Len(announced[o])
      BY <2>1, <3>1, <3>3
    <3> QED
      BY <2>0, <2>2, <3>2, <3>4 DEF Relay
  <2>3. CASE RelayAgain(o)
    <3>1. PICK i \in 1..relayed[o] : Queue(Published(o, {announced[o][i]}), {})
      BY <2>3 DEF RelayAgain
    <3>2. i \in 1..Len(announced[o])
      BY <2>1
    <3>3. UNCHANGED relayed
      BY <2>3 DEF RelayAgain
    <3> QED
      BY <1>1, <2>0, <3>1, <3>2, <3>3 DEF IInv, TypeOK, RelayedWritten, order
  <2> QED
    BY <2>2, <2>3
<1>3. PICK type \in OrderEvents : Queue(Published(o, {type}), {})
  BY <1>2
<1>4. Lasting
  BY <1>1 DEF Lasting, money
<1>5. \A m \in Published(o, {type}) : MessageTrue(m)'
  BY PublishedTrue DEF OrderEvents
<1>6. queued' \in [Message -> Nat] /\ MessagesTrue'
  <2> DEFINE P == Published(o, {type})
  <2>1. \A m \in {} : queued[m] > 0
    OBVIOUS
  <2>2. Queue(P, {}) /\ \A m \in P : m \in Message => MessageTrue(m)'
    BY <1>3, <1>5
  <2> HIDE DEF P
  <2> QED
    BY <1>4, <2>1, <2>2, MessagesStayTrue, Zenon
<1>7. TypeOK'
  <2>1. UNCHANGED <<status, announced, reservation, payment, charges, charging>>
    BY <1>1 DEF order, money
  <2>2. faults' \in Nat /\ relayed' \in [Orders -> Nat] /\ queued' \in [Message -> Nat]
    BY <1>1, <1>2, <1>6
  <2>3. TypeOK
    BY DEF IInv
  <2> QED
    BY <2>1, <2>2, <2>3, Zenon DEF TypeOK
<1>8. PaymentsAgree' /\ PaidAfterReserved' /\ ConfirmedIsPaid'
  BY <1>1 DEF IInv, PaymentsAgree, PaidAfterReserved, ConfirmedIsPaid, order, money
<1> QED
  BY <1>2, <1>6, <1>7, <1>8 DEF IInv

-----------------------------------------------------------------------------
(* The inventory service, and the handlers that fail.                      *)
LEMMA InventoryIInv ==
  ASSUME IInv, NEW m \in Message,
         Refuses(m) \/ Reserves(m) \/ Releases(m) \/ HandlerFails(m)
  PROVE  IInv'
<1> DEFINE o == m.order
<1>1. queued[m] > 0 /\ UNCHANGED <<order, relayed, money>> /\ o \in Orders
  BY BindingFields
     DEF Refuses, Reserves, Releases, HandlerFails, ToReserve
<1>2. Ledger!Reserve(o) \/ Ledger!Release(o) \/ UNCHANGED reservation
  BY DEF Refuses, Reserves, Releases, HandlerFails
<1>3. /\ Lasting /\ reservation' \in [Orders -> {"none", "ACTIVE", "RELEASED", "EXPIRED"}]
      /\ Ledger!Reserve(o) => reservation'[o] # "none"
  BY <1>1, <1>2, LedgerLasts DEF money
<1>4. queued' \in [Message -> Nat] /\ MessagesTrue' /\ faults' \in Nat
  <2>1. CASE Refuses(m)
    BY <1>1, <1>3, <2>1, HandledTrue DEF Refuses
  <2>2. CASE Reserves(m)
    BY <1>1, <1>3, <2>2, HandledTrue DEF Reserves
  <2>3. CASE Releases(m)
    BY <1>1, <1>3, <2>3, HandledTrue DEF Releases
  <2>4. CASE HandlerFails(m)
    BY <1>1, <1>3, <2>4, ReturnedTrue DEF HandlerFails
  <2> QED
    BY <2>1, <2>2, <2>3, <2>4
<1> QED
  BY <1>1, <1>3, <1>4, StockIInv

(* A reservation that is made, or not, with the wrong or no announcement.  *)
LEMMA ReserveGoesWrongIInv ==
  ASSUME IInv, NEW m \in Message, ReserveGoesWrong(m)
  PROVE  IInv'
<1> DEFINE o == m.order
<1>1. queued[m] > 0 /\ UNCHANGED <<order, relayed, money>> /\ o \in Orders
  BY BindingFields DEF ReserveGoesWrong, ToReserve
<1>2. Ledger!Reserve(o) \/ UNCHANGED reservation
  BY DEF ReserveGoesWrong
<1>3. /\ Lasting /\ reservation' \in [Orders -> {"none", "ACTIVE", "RELEASED", "EXPIRED"}]
      /\ Ledger!Reserve(o) => reservation'[o] # "none"
  BY <1>1, <1>2, LedgerLasts DEF money
<1>4. queued' \in [Message -> Nat] /\ MessagesTrue' /\ faults' \in Nat
  <2>1. CASE Returned(m)
    BY <1>1, <1>3, <2>1, ReturnedTrue
  <2>2. ASSUME NEW types, Fault, Queue(Published(o, types), {m}), "payment.completed" \notin types,
               "inventory.reserved" \in types => Ledger!Reserve(o)
        PROVE  queued' \in [Message -> Nat] /\ MessagesTrue' /\ faults' \in Nat
    <3>1. \A n \in Published(o, types) : MessageTrue(n)'
      BY <1>1, <1>3, <2>2, PublishedTrue
    <3>2. faults' \in Nat
      BY <2>2 DEF Fault, IInv, TypeOK
    <3> QED
      BY <1>1, <1>3, <2>2, <3>1, <3>2, MessagesStayTrue
  <2> QED
    BY <2>1, <2>2 DEF ReserveGoesWrong
<1> QED
  BY <1>1, <1>3, <1>4, StockIInv

(* The sweep.                                                              *)
LEMMA ExpiresIInv ==
  ASSUME IInv, NEW o \in Orders, Expires(o)
  PROVE  IInv'
<1>1. UNCHANGED <<order, relayed, money, queued, faults>> /\ Ledger!Expire({o})
  BY DEF Expires
<1>2. Lasting /\ reservation' \in [Orders -> {"none", "ACTIVE", "RELEASED", "EXPIRED"}]
  BY <1>1, LedgerLasts DEF money
<1>3. queued' \in [Message -> Nat] /\ MessagesTrue' /\ faults' \in Nat
  BY <1>1, <1>2, BindingFields DEF IInv, TypeOK, MessagesTrue, MessageTrue, Lasting
<1> QED
  BY <1>1, <1>2, <1>3, StockIInv

-----------------------------------------------------------------------------
(* The payment service: a payment that begins.                             *)
LEMMA PayBeginsIInv ==
  ASSUME IInv, NEW m \in Message, PayBegins(m)
  PROVE  IInv'
<1> DEFINE o == m.order
<1>1. /\ queued[m] > 0 /\ m.via[1] = "payment.inventory-events" /\ payment[o] = "none"
      /\ payment' = [payment EXCEPT ![o] = "PROCESSING"]
      /\ charging' = [charging EXCEPT ![o] = @ \cup {[message |-> m, closed |-> FALSE]}]
      /\ Queue({}, {m}) /\ UNCHANGED <<order, relayed, reservation, charges, faults>>
      /\ o \in Orders /\ m.via[2] = "inventory.reserved"
  BY BindingFields DEF PayBegins, ToPay
<1> HIDE DEF o
<1>2. Lasting
  BY <1>1 DEF Lasting, IInv, TypeOK
<1>3. queued' \in [Message -> Nat] /\ MessagesTrue'
  BY <1>1, <1>2, MessagesStayTrue
<1>4. reservation[o] # "none"
  BY <1>1 DEF o, IInv, MessagesTrue, MessageTrue
<1>5. TypeOK' /\ RelayedWritten'
  <2>1. [message |-> m, closed |-> FALSE] \in Call
    BY DEF Call
  <2>2. charging' \in [Orders -> SUBSET Call]
    BY <1>1, <2>1 DEF IInv, TypeOK
  <2> QED
    BY <1>1, <1>3, <2>2 DEF IInv, TypeOK, RelayedWritten, order
<1>6. PaymentsAgree'
  <2> SUFFICES ASSUME NEW p \in Orders
               PROVE  /\ payment'[p] \in {"none", "FAILED"} => charges'[p] = 0
                      /\ payment'[p] = "COMPLETED" => charges'[p] = 1
                      /\ charges'[p] <= 1
                      /\ \A c \in charging'[p] :
                           /\ payment'[p] = "PROCESSING" /\ charges'[p] = 0
                           /\ c.message.order = p
                           /\ c.message.via[1] = "payment.inventory-events"
                           /\ charging'[p] = {c}
    BY DEF PaymentsAgree
  <2>1. CASE p = o
    <3> DEFINE call == [message |-> m, closed |-> FALSE]
    <3>1. charging[p] = {}
      BY <1>1, <2>1 DEF IInv, PaymentsAgree
    <3>2. charging'[p] = {call} /\ payment'[p] = "PROCESSING" /\ charges'[p] = 0
      BY <1>1, <2>1, <3>1 DEF IInv, TypeOK, PaymentsAgree
    <3>3. call.message.order = p /\ call.message.via[1] = "payment.inventory-events"
      BY <2>1, <1>1 DEF o
    <3> QED
      BY <3>2, <3>3
  <2>2. CASE p # o
    BY <1>1, <2>2 DEF IInv, TypeOK, PaymentsAgree
  <2> QED
    BY <2>1, <2>2
<1>7. PaidAfterReserved' /\ ConfirmedIsPaid'
  BY <1>1, <1>4 DEF IInv, TypeOK, PaidAfterReserved, ConfirmedIsPaid, order
<1> QED
  BY <1>3, <1>5, <1>6, <1>7 DEF IInv

(* A call that waits for the gateway, about a payment that is being        *)
(* processed.                                                              *)
LEMMA CallFields ==
  ASSUME IInv, NEW o \in Orders, NEW c \in charging[o]
  PROVE  /\ charging[o] = {c} /\ c \in Call
         /\ c.message \in Message /\ c.message.order = o
         /\ c.message.via[2] = "inventory.reserved"
         /\ payment[o] = "PROCESSING" /\ charges[o] = 0 /\ reservation[o] # "none"
<1>1. charging[o] \in SUBSET Call
  BY DEF IInv, TypeOK
<1>2. c \in Call /\ c.message \in Message
  BY <1>1 DEF Call
<1>3. /\ charging[o] = {c} /\ c.message.order = o
      /\ c.message.via[1] = "payment.inventory-events"
      /\ payment[o] = "PROCESSING" /\ charges[o] = 0
  BY DEF IInv, PaymentsAgree
<1>4. c.message.via[2] = "inventory.reserved"
  BY <1>2, <1>3, BindingFields
<1>5. reservation[o] # "none"
  BY <1>3 DEF IInv, PaidAfterReserved
<1> QED
  BY <1>2, <1>3, <1>4, <1>5

(* What the broker delivers again of it is true.                           *)
LEMMA BackTrue ==
  ASSUME IInv, Lasting, NEW o \in Orders, NEW c \in charging[o]
  PROVE  \A k \in Back(c) : MessageTrue(k)'
<1>1. /\ c.message \in Message /\ c.message.order = o
      /\ c.message.via[2] = "inventory.reserved" /\ reservation[o] # "none"
  BY CallFields
<1>2. PICK m \in Message : m = c.message
  BY <1>1
<1>3. MessageTrue([m EXCEPT !.redelivered = TRUE])'
  BY <1>1, <1>2, RedeliveredFields DEF MessageTrue, Lasting
<1> QED
  BY <1>2, <1>3 DEF Back

(* The gateway's answer, or its loss: the payment goes from PROCESSING to  *)
(* a status that agrees with what was charged.                             *)
LEMMA AnsweredIInv ==
  ASSUME IInv, NEW o \in Orders, NEW c \in charging[o], Answered(o, c),
         NEW s \in {"PROCESSING", "COMPLETED", "FAILED"}, NEW n \in {0, 1},
         payment' = [payment EXCEPT ![o] = s],
         charges' = [charges EXCEPT ![o] = n],
         s = "COMPLETED" => n = 1, s = "FAILED" => n = 0,
         NEW types, "inventory.reserved" \notin types,
         "payment.completed" \in types => s = "COMPLETED",
         Queue(Published(o, types), {})
           \/ Queue(Published(o, types) \cup Back(c), {}),
         faults' \in Nat, UNCHANGED <<order, relayed, reservation>>
  PROVE  IInv'
<1>1. /\ charging[o] = {c} /\ payment[o] = "PROCESSING" /\ charges[o] = 0
      /\ reservation[o] # "none"
  BY CallFields
<1>2. charging' = [charging EXCEPT ![o] = {}]
  BY <1>1 DEF Answered
<1>3. Lasting
  BY <1>1 DEF Lasting, IInv, TypeOK
<1>4. queued' \in [Message -> Nat] /\ MessagesTrue'
  <2>1. payment'[o] = s
    BY DEF IInv, TypeOK
  <2>2. \A k \in Published(o, types) : MessageTrue(k)'
    BY <2>1, PublishedTrue
  <2>3. \A k \in Back(c) : MessageTrue(k)'
    BY <1>3, BackTrue
  <2> QED
    BY <1>3, <2>2, <2>3, MessagesStayTrue
<1>5. TypeOK' /\ RelayedWritten'
  BY <1>2, <1>4 DEF IInv, TypeOK, RelayedWritten, order
<1>6. \A p \in Orders : /\ payment'[p] = IF p = o THEN s ELSE payment[p]
                        /\ charges'[p] = IF p = o THEN n ELSE charges[p]
                        /\ charging'[p] = IF p = o THEN {} ELSE charging[p]
  BY <1>1, <1>2 DEF IInv, TypeOK
<1>7. PaymentsAgree'
  BY <1>6 DEF IInv, PaymentsAgree
<1>8. PaidAfterReserved'
  BY <1>1, <1>6 DEF IInv, PaidAfterReserved
<1>9. ConfirmedIsPaid'
  BY <1>1, <1>6 DEF IInv, ConfirmedIsPaid, order
<1> QED
  BY <1>4, <1>5, <1>7, <1>8, <1>9 DEF IInv

(* Both ends of a payment are answers.                                     *)
LEMMA PayEndsIInv ==
  ASSUME IInv, NEW o \in Orders, PayEnds(o) \/ PayGoesWrong(o)
  PROVE  IInv'
<1>1. \A c \in charging[o], n \in {0, 1} :
        [charges EXCEPT ![o] = @ + n] = [charges EXCEPT ![o] = n]
  <2> TAKE c \in charging[o], n \in {0, 1}
  <2>1. charges[o] = 0
    BY DEF IInv, PaymentsAgree
  <2>2. charges[o] + n = n
    BY <2>1
  <2> QED
    BY <2>2
<1>2. ASSUME PayEnds(o) PROVE IInv'
  <2>1. PICK c \in charging[o], outcome \in Outcomes :
          /\ Answered(o, c)
          /\ payment' = [payment EXCEPT ![o] = outcome[1]]
          /\ charges' = [charges EXCEPT ![o] = @ + One(outcome[1] = "COMPLETED")]
          /\ \/ Queue(Published(o, {outcome[2]}), {}) /\ UNCHANGED faults
             \/ Queue(Published(o, {outcome[2]}) \cup Back(c), {}) /\ Fault
          /\ UNCHANGED <<order, relayed, reservation>>
    BY <1>2 DEF PayEnds
  <2>2. faults' \in Nat
    BY <2>1 DEF Fault, IInv, TypeOK
  <2>3. PICK n \in {0, 1} : n = One(outcome[1] = "COMPLETED")
    BY DEF One
  <2>4. charges' = [charges EXCEPT ![o] = n]
    BY <2>1, <2>3, <1>1
  <2>5. PICK s, type : s = outcome[1] /\ type = outcome[2]
    OBVIOUS
  <2>6. /\ s \in {"PROCESSING", "COMPLETED", "FAILED"}
        /\ (s = "COMPLETED" => n = 1) /\ (s = "FAILED" => n = 0)
        /\ "inventory.reserved" \notin {type} /\ ("payment.completed" \in {type} => s = "COMPLETED")
    BY <2>3, <2>5 DEF Outcomes, One
  <2> QED
    BY <2>1, <2>2, <2>4, <2>5, <2>6, AnsweredIInv
<1>3. ASSUME PayGoesWrong(o) PROVE IInv'
  <2>1. PICK c \in charging[o], n \in {0, 1} :
          /\ Fault \/ (c.closed /\ UNCHANGED faults)
          /\ Answered(o, c)
          /\ charges' = [charges EXCEPT ![o] = @ + n]
          /\ \E s \in {"PROCESSING", IF n = 1 THEN "COMPLETED" ELSE "FAILED"} :
               payment' = [payment EXCEPT ![o] = s]
          /\ Queue(Back(c), {}) \/ (c.message.redelivered /\ Queue({}, {}))
          /\ UNCHANGED <<order, relayed, reservation>>
    BY <1>3 DEF PayGoesWrong
  <2>2. PICK s \in {"PROCESSING", IF n = 1 THEN "COMPLETED" ELSE "FAILED"} :
               payment' = [payment EXCEPT ![o] = s]
    BY <2>1
  <2>3. PICK types : types = {}
    OBVIOUS
  <2>4. faults' \in Nat
    BY <2>1 DEF Fault, IInv, TypeOK
  <2>5. /\ Queue(Published(o, types), {}) \/ Queue(Published(o, types) \cup Back(c), {})
        /\ "inventory.reserved" \notin types /\ "payment.completed" \notin types
    <3>1. Published(o, types) = {}
      BY <2>3 DEF Published
    <3>2. {} \cup Back(c) = Back(c)
      OBVIOUS
    <3> QED
      BY <2>1, <2>3, <3>1, <3>2
  <2>6. /\ s \in {"PROCESSING", "COMPLETED", "FAILED"}
        /\ (s = "COMPLETED" => n = 1) /\ (s = "FAILED" => n = 0)
        /\ charges' = [charges EXCEPT ![o] = n]
    BY <2>1, <1>1
  <2> QED
    BY <2>1, <2>2, <2>4, <2>5, <2>6, AnsweredIInv
<1> QED
  BY <1>2, <1>3

(* A call whose channel closes runs on, and its message is still true.     *)
LEMMA ChannelClosesIInv ==
  ASSUME IInv, NEW o \in Orders, ChannelCloses(o)
  PROVE  IInv'
<1>1. PICK c \in charging[o] :
        /\ Fault
        /\ charging' = [charging EXCEPT ![o] = (@ \ {c}) \cup {[c EXCEPT !.closed = TRUE]}]
        /\ Queue(Back(c), {})
        /\ UNCHANGED <<order, relayed, reservation, payment, charges>>
  BY DEF ChannelCloses
<1>2. /\ charging[o] = {c} /\ c \in Call /\ c.message.order = o
      /\ payment[o] = "PROCESSING" /\ charges[o] = 0
      /\ c.message.via[1] = "payment.inventory-events"
  BY CallFields DEF IInv, PaymentsAgree
<1>3. PICK d \in Call : d = [c EXCEPT !.closed = TRUE] /\ d.message = c.message
  <2>1. [c EXCEPT !.closed = TRUE] \in Call
    BY <1>2 DEF Call
  <2>2. [c EXCEPT !.closed = TRUE].message = c.message
    BY <1>2 DEF Call
  <2> QED
    BY <2>1, <2>2, Zenon
<1>4. Lasting
  BY <1>1 DEF Lasting
<1>5. queued' \in [Message -> Nat] /\ MessagesTrue'
  <2>1. \A k \in Back(c) : MessageTrue(k)'
    BY <1>4, BackTrue
  <2> QED
    BY <1>1, <1>4, <2>1, MessagesStayTrue
<1>6. charging' = [charging EXCEPT ![o] = {d}]
  BY <1>1, <1>2, <1>3
<1>7. TypeOK' /\ RelayedWritten'
  <2>1. charging' \in [Orders -> SUBSET Call]
    BY <1>6 DEF IInv, TypeOK
  <2>2. faults' \in Nat
    BY <1>1 DEF IInv, TypeOK, Fault
  <2>3. UNCHANGED <<status, announced, relayed, reservation, payment, charges>>
    BY <1>1 DEF order
  <2>4. TypeOK'
    BY <1>5, <2>1, <2>2, <2>3 DEF IInv, TypeOK
  <2>5. RelayedWritten'
    BY <2>3 DEF IInv, RelayedWritten
  <2> QED
    BY <2>4, <2>5
<1>8. PaymentsAgree'
  <2>1. \A p \in Orders : charging'[p] = IF p = o THEN {d} ELSE charging[p]
    BY <1>6 DEF IInv, TypeOK
  <2>2. ASSUME NEW p \in Orders, NEW e \in charging'[p]
        PROVE  /\ payment[p] = "PROCESSING" /\ charges[p] = 0
               /\ e.message.order = p /\ e.message.via[1] = "payment.inventory-events"
               /\ charging'[p] = {e}
    <3>1. CASE p = o
      <4>1. charging'[p] = {d} /\ e = d
        BY <2>1, <3>1
      <4> QED
        BY <1>2, <1>3, <3>1, <4>1
    <3>2. CASE p # o
      BY <2>1, <2>2, <3>2 DEF IInv, PaymentsAgree
    <3> QED
      BY <3>1, <3>2
  <2> QED
    BY <1>1, <2>2 DEF IInv, PaymentsAgree
<1>9. PaidAfterReserved' /\ ConfirmedIsPaid'
  BY <1>1 DEF IInv, PaidAfterReserved, ConfirmedIsPaid, order
<1> QED
  BY <1>5, <1>7, <1>8, <1>9 DEF IInv

(* A repeated reservation event only repeats the outcome.                  *)
LEMMA PayIsKnownIInv ==
  ASSUME IInv, NEW m \in Message, PayIsKnown(m)
  PROVE  IInv'
<1>1. queued[m] > 0 /\ UNCHANGED <<order, relayed, reservation, money>>
  BY DEF PayIsKnown, ToPay
<1>2. Lasting
  BY <1>1 DEF Lasting, money
<1>3. queued' \in [Message -> Nat] /\ MessagesTrue' /\ faults' \in Nat
  <2>1. CASE payment[m.order] = "COMPLETED"
    BY <1>1, <1>2, <2>1, HandledTrue DEF PayIsKnown, money
  <2>2. CASE payment[m.order] # "COMPLETED"
    BY <1>1, <1>2, <2>2, HandledTrue DEF PayIsKnown
  <2> QED
    BY <2>1, <2>2
<1> QED
  BY <1>1, <1>2, <1>3, StockIInv DEF IInv, TypeOK

-----------------------------------------------------------------------------
(* Every step preserves the invariant.                                     *)
LEMMA NextIInv == IInv /\ [Next]_vars => IInv'
<1> SUFFICES ASSUME IInv, [Next]_vars PROVE IInv'
  OBVIOUS
<1>1. CASE UNCHANGED vars
  <2>1. UNCHANGED <<order, relayed, reservation, money, queued, faults>>
    BY <1>1 DEF vars
  <2>2. Lasting /\ MessagesTrue'
    BY <2>1 DEF Lasting, IInv, MessagesTrue, MessageTrue, money
  <2> QED
    BY <2>1, <2>2, StockIInv DEF IInv, TypeOK
<1>2. ASSUME NEW o \in Orders, Place(o) \/ CustomerCancel(o) PROVE IInv'
  BY <1>2, OrderIInv
<1>3. ASSUME NEW o \in Orders, Relay(o) \/ RelayAgain(o) PROVE IInv'
  BY <1>3, RelayIInv
<1>4. ASSUME NEW m \in Message, Handle(m) \/ HandlerFails(m) PROVE IInv'
  BY <1>4, OrderHandlesIInv, InventoryIInv, PayBeginsIInv, PayIsKnownIInv DEF Handle
<1>5. ASSUME NEW m \in Message, ReserveGoesWrong(m) PROVE IInv'
  BY <1>5, ReserveGoesWrongIInv
<1>6. ASSUME NEW o \in Orders, PayEnds(o) \/ PayGoesWrong(o) PROVE IInv'
  BY <1>6, PayEndsIInv
<1>8. ASSUME NEW o \in Orders, ChannelCloses(o) PROVE IInv'
  BY <1>8, ChannelClosesIInv
<1>7. ASSUME NEW o \in Orders, Expires(o) PROVE IInv'
  BY <1>7, ExpiresIInv
<1> QED
  BY <1>1, <1>2, <1>3, <1>4, <1>5, <1>6, <1>7, <1>8 DEF Next

(* The inductive invariant is an invariant of the saga.                    *)
THEOREM Invariance == Spec => []IInv
  BY InitIInv, NextIInv, PTL DEF Spec

(* Every variable always has its type.                                     *)
THEOREM TypeCorrect == Spec => []TypeOK
<1>1. IInv => TypeOK
  BY DEF IInv
<1> QED
  BY Invariance, <1>1, PTL

(* An order is confirmed only if the customer paid for it, however many    *)
(* messages are lost, repeated, late or out of order.                      *)
THEOREM GoodsAgainstMoney == Spec => []ConfirmedIsPaid
<1>1. IInv => ConfirmedIsPaid
  BY DEF IInv
<1> QED
  BY Invariance, <1>1, PTL

(* No customer is charged twice for an order, however often its            *)
(* reservation event is delivered: after its handler has ended or failed,  *)
(* or while it waits for the gateway.                                      *)
THEOREM NeverChargedTwice == Spec => []ChargedOnce
<1>1. IInv => ChargedOnce
  BY DEF IInv, PaymentsAgree, ChargedOnce
<1> QED
  BY Invariance, <1>1, PTL

(* No customer is charged for an order whose stock was never reserved.     *)
THEOREM NoMoneyWithoutStock == Spec => []PaidAfterReserved
<1>1. IInv => PaidAfterReserved
  BY DEF IInv
<1> QED
  BY Invariance, <1>1, PTL

-----------------------------------------------------------------------------
(* The runs without a fault.                                               *)

(* A binding is known by its event, or its queue, where that has only one; *)
(* and a message by its binding, its order and whether it is repeated.     *)
LEMMA SameMessage ==
  ASSUME NEW m \in Message, NEW n \in Message, m.order = n.order,
         m.redelivered = n.redelivered,
         \/ m.via[2] = "order.created" /\ n.via[2] = "order.created"
         \/ m.via[1] = "payment.inventory-events" /\ n.via[1] = "payment.inventory-events"
  PROVE  m = n
<1>1. m.via = n.via
  BY DEF Message, Bindings
<1> QED
  BY <1>1 DEF Message

(* What a queue holds after a step.                                        *)
LEMMA QueueExact ==
  ASSUME NEW in, NEW out, Queue(in, out), NEW m \in Message
  PROVE  queued'[m] = queued[m] + One(m \in in) - One(m \in out)
  BY DEF Queue

(* What a fault-free step has to respect: each hypothesis is about the one *)
(* order o that the step is about, the events it publishes and the message *)
(* it consumes.                                                            *)
LEMMA CleanStep ==
  ASSUME IInv, IInv', Clean, NEW o \in Orders, NEW types, NEW out \in SUBSET Message,
         Queue(Published(o, types), out),
         \A m \in out : m.order = o /\ queued[m] > 0,
         \A p \in Orders \ {o} :
            /\ relayed'[p] = relayed[p] /\ reservation'[p] = reservation[p]
            /\ payment'[p] = payment[p]
            /\ status'[p] = status[p] /\ announced'[p] = announced[p],
         relayed'[o] >= relayed[o],
         relayed'[o] = 0 => reservation'[o] = "none",
         "order.created" \in types =>
            relayed[o] = 0 /\ relayed'[o] > 0 /\ reservation'[o] = "none",
         reservation[o] = "none" /\ reservation'[o] # "none" =>
            "inventory.failed" \notin types /\ \E m \in out : m.via[2] = "order.created",
         "inventory.failed" \in types =>
            reservation'[o] = "none" /\ \E m \in out : m.via[2] = "order.created",
         "inventory.reserved" \in types => reservation[o] = "none" /\ payment'[o] = "none",
         payment[o] = "none" /\ payment'[o] # "none" =>
            \E m \in out : m.via[1] = "payment.inventory-events",
         "payment.failed" \in types => payment'[o] = "FAILED",
         payment[o] = "FAILED" => payment'[o] = "FAILED",
         status'[o] = "CANCELLED" /\ announced'[o] = <<"order.created">> =>
            \/ status[o] = "CANCELLED" /\ announced[o] = <<"order.created">>
            \/ \E m \in out : m.via[2] = "inventory.failed"
  PROVE  Clean'
<1> DEFINE in == Published(o, types)
<1>1. /\ \A m \in Message : queued[m] \in Nat /\ queued'[m] \in Nat
      /\ \A p \in Orders : relayed[p] \in Nat /\ relayed'[p] \in Nat
  BY DEF IInv, TypeOK
<1>2. \A m \in Message : m \in in <=> m.order = o /\ m.via[2] \in types /\ ~ m.redelivered
  BY DEF Published
<1>3. \A m \in Message : queued'[m] = queued[m] + One(m \in in) - One(m \in out)
  BY QueueExact
<1> HIDE DEF in
<1>4. \A m \in Message : /\ m \notin in => queued'[m] <= queued[m]
                         /\ m.order # o => queued'[m] = queued[m]
                         /\ m \in out /\ m \notin in => queued'[m] = queued[m] - 1
                         /\ m \in in => queued'[m] <= queued[m] + 1
  BY <1>1, <1>2, <1>3 DEF One
<1>5. \A m \in Message : queued[m] > 0 => ~ m.redelivered
  BY DEF Clean, NothingRepeated
<1>6. NothingRepeated'
  BY <1>1, <1>2, <1>4, <1>5 DEF NothingRepeated
<1>7. ASSUME NEW m \in Message, m.order = o, m.via[2] = "order.created", queued[m] > 0
      PROVE  "order.created" \notin types /\ queued[m] = 1
  BY <1>7 DEF Clean, CreatedOnce
<1>8. ASSUME NEW k \in out, k.via[2] = "order.created",
             NEW m \in Message, m.order = o, m.via[2] = "order.created"
      PROVE  queued'[m] = 0
  <2>1. k \in Message /\ k.order = o /\ queued[k] > 0
    OBVIOUS
  <2>2. "order.created" \notin types /\ queued[k] = 1
    BY <2>1, <1>7, <1>8
  <2>3. m \notin in
    BY <2>2, <1>2, <1>8
  <2>4. CASE queued[m] = 0
    BY <2>3, <2>4, <1>1, <1>4
  <2>5. CASE queued[m] # 0
    <3>1. ~ m.redelivered /\ ~ k.redelivered /\ m.redelivered \in BOOLEAN
          /\ k.redelivered \in BOOLEAN
      BY <2>1, <2>5, <1>1, <1>5 DEF Message
    <3>2. m = k
      BY <2>1, <3>1, <1>8, SameMessage
    <3> QED
      BY <2>2, <2>3, <3>2, <1>4
  <2> QED
    BY <2>4, <2>5
<1>9. CreatedOnce'
  <2>1. \A p \in Orders : relayed'[p] = 0 => reservation'[p] = "none"
    BY DEF Clean, CreatedOnce
  <2>2. ASSUME NEW m \in Message, m.via[2] = "order.created", queued'[m] > 0
        PROVE  queued'[m] = 1 /\ relayed'[m.order] > 0 /\ reservation'[m.order] = "none"
    <3>1. CASE m.order # o
      BY <3>1, <2>2, <1>4, BindingFields DEF Clean, CreatedOnce
    <3>2. CASE m.order = o /\ m \in in
      <4>1. relayed[o] = 0 /\ relayed'[o] > 0 /\ reservation'[o] = "none"
        BY <3>2, <2>2, <1>2
      <4>2. queued[m] = 0
        BY <4>1, <3>2, <2>2, <1>1 DEF Clean, CreatedOnce
      <4> QED
        BY <4>1, <4>2, <3>2, <2>2, <1>1, <1>4
    <3>3. CASE m.order = o /\ m \notin in
      <4>1. queued[m] > 0 /\ queued'[m] <= queued[m]
        BY <3>3, <2>2, <1>1, <1>4
      <4>2. queued[m] = 1 /\ relayed[o] > 0 /\ reservation[o] = "none"
        BY <4>1, <3>3, <2>2 DEF Clean, CreatedOnce
      <4>3. reservation'[o] = "none"
        BY <4>2, <1>8, <3>3, <2>2, <1>1
      <4> QED
        BY <4>1, <4>2, <4>3, <3>3, <2>2, <1>1
    <3> QED
      BY <3>1, <3>2, <3>3
  <2> QED
    BY <2>1, <2>2 DEF CreatedOnce
<1>10. \A p \in Orders : Refused(p) => Refused(p)'
  <2> SUFFICES ASSUME NEW p \in Orders, Refused(p) PROVE Refused(p)'
    OBVIOUS
  <2>1. CASE p # o
    BY <2>1, <1>4 DEF Refused
  <2>2. CASE p = o
    <3>1. /\ relayed[o] > 0 /\ reservation[o] = "none"
          /\ \A m \in Message : m.order = o /\ m.via[2] = "order.created" => queued[m] = 0
      BY <2>2 DEF Refused
    <3>2. relayed'[o] > 0
      BY <3>1, <1>1
    <3>3. reservation'[o] = "none"
      BY <3>1
    <3>4. "order.created" \notin types
      BY <3>1
    <3>5. \A m \in Message : m.order = o /\ m.via[2] = "order.created" => queued'[m] = 0
      BY <3>1, <3>4, <1>1, <1>2, <1>4
    <3> QED
      BY <2>2, <3>2, <3>3, <3>5 DEF Refused
  <2> QED
    BY <2>1, <2>2
<1>11. RefusalsTrue'
  <2>1. ASSUME NEW m \in Message, m.via[2] = "inventory.failed", queued'[m] > 0
        PROVE  Refused(m.order)'
    <3>1. CASE m \in in
      <4>1. PICK k \in out : k.via[2] = "order.created" /\ reservation'[o] = "none"
        BY <3>1, <2>1, <1>2
      <4>2. relayed'[o] > 0
        BY <4>1, <1>1 DEF Clean, CreatedOnce
      <4> QED
        BY <4>1, <4>2, <3>1, <1>2, <1>8 DEF Refused
    <3>2. CASE m \notin in
      <4>1. queued[m] > 0 /\ m.order \in Orders
        BY <3>2, <2>1, <1>1, <1>4, BindingFields
      <4> QED
        BY <4>1, <2>1, <1>10 DEF Clean, RefusalsTrue
    <3> QED
      BY <3>1, <3>2
  <2>2. ASSUME NEW p \in Orders, status'[p] = "CANCELLED", announced'[p] = <<"order.created">>
        PROVE  Refused(p)'
    <3>1. CASE status[p] = "CANCELLED" /\ announced[p] = <<"order.created">>
      BY <3>1, <1>10 DEF Clean, RefusalsTrue
    <3>2. CASE ~ (status[p] = "CANCELLED" /\ announced[p] = <<"order.created">>)
      <4>1. p = o /\ \E m \in out : m.via[2] = "inventory.failed"
        BY <2>2, <3>2
      <4>2. Refused(o)
        BY <4>1 DEF Clean, RefusalsTrue
      <4> QED
        BY <4>1, <4>2, <1>10
    <3> QED
      BY <3>1, <3>2
  <2> QED
    BY <2>1, <2>2 DEF RefusalsTrue
<1>12. PaidOnce'
  <2>1. ASSUME NEW m \in Message, queued'[m] > 0, m.via[1] = "payment.inventory-events"
        PROVE  queued'[m] = 1 /\ payment'[m.order] = "none"
    <3>0. m.via[2] = "inventory.reserved" /\ m.order \in Orders
      BY <2>1, BindingFields
    <3>1. CASE m \in in
      <4>1. m.order = o /\ reservation[o] = "none" /\ payment'[o] = "none"
        BY <3>0, <3>1, <1>2
      <4>2. queued[m] = 0
        BY <4>1, <3>0, <1>1 DEF IInv, MessagesTrue, MessageTrue
      <4> QED
        BY <4>1, <4>2, <3>1, <2>1, <1>1, <1>4
    <3>2. CASE m \notin in
      <4>1. queued[m] > 0 /\ queued'[m] <= queued[m]
        BY <3>2, <2>1, <1>1, <1>4
      <4>2. queued[m] = 1 /\ payment[m.order] = "none"
        BY <4>1, <2>1 DEF Clean, PaidOnce
      <4>3. ASSUME NEW k \in out, k.via[1] = "payment.inventory-events", m.order = o
            PROVE  FALSE
        <5>1. k \in Message /\ k.order = o /\ queued[k] > 0
          OBVIOUS
        <5>2. ~ m.redelivered /\ ~ k.redelivered /\ m.redelivered \in BOOLEAN
              /\ k.redelivered \in BOOLEAN
          BY <5>1, <4>1, <1>5 DEF Message
        <5>3. m = k
          BY <5>1, <5>2, <4>3, <2>1, SameMessage
        <5> QED
          BY <5>3, <4>2, <3>2, <2>1, <1>4
      <4>4. payment'[m.order] = "none"
        BY <4>2, <4>3, <2>1, <3>0
      <4> QED
        BY <4>1, <4>2, <4>4, <2>1, <1>1
    <3> QED
      BY <3>1, <3>2
  <2>2. ASSUME NEW m \in Message, queued'[m] > 0, m.via[2] = "payment.failed"
        PROVE  payment'[m.order] = "FAILED"
    <3>1. CASE m \in in
      BY <3>1, <2>2, <1>2
    <3>2. CASE m \notin in
      <4>1. queued[m] > 0 /\ m.order \in Orders
        BY <3>2, <2>2, <1>1, <1>4, BindingFields
      <4>2. payment[m.order] = "FAILED"
        BY <4>1, <2>2 DEF Clean, PaidOnce
      <4> QED
        BY <4>1, <4>2
    <3> QED
      BY <3>1, <3>2
  <2> QED
    BY <2>1, <2>2 DEF PaidOnce
<1> QED
  BY <1>6, <1>9, <1>11, <1>12 DEF Clean

(* A step without a fault is none of those that end in a fault.            *)
LEMMA NoFault ==
  ASSUME IInv, faults' = 0
  PROVE  /\ ~ Fault
         /\ \A m \in Message : ~ Returned(m)
         /\ \A m \in Message : \A types : Handled(m, types) => Queue(Published(m.order, types), {m})
  BY DEF IInv, TypeOK, Fault, Returned, Handled

(* Where nothing is published or consumed, the queues are as they were.    *)
LEMMA NothingQueued ==
  ASSUME IInv, NEW o \in Orders, NEW types, types = {}
  PROVE  Published(o, types) = {} /\ (UNCHANGED queued => Queue(Published(o, types), {}))
<1>1. Published(o, types) = {}
  BY DEF Published
<1>2. ASSUME UNCHANGED queued PROVE Queue({}, {})
  <2>1. queued \in [Message -> Nat]
    BY DEF IInv, TypeOK
  <2>2. queued = [m \in Message |-> queued[m] + One(m \in {}) - One(m \in {})]
    BY <2>1 DEF One
  <2> QED
    BY <1>2, <2>2 DEF Queue
<1> QED
  BY <1>1, <1>2

(* A cancellation that is announced is not the first thing announced.      *)
LEMMA MoveTells ==
  ASSUME IInv, OrderTold, NEW o \in Orders, NEW from, NEW to, NEW news \in Seq(OrderEvents),
         Order!Move(o, from, to, news), to # "absent",
         \/ from = {"absent"} /\ news = <<"order.created">>
         \/ "absent" \notin from /\ news \in {<<>>, <<"order.confirmed">>, <<"order.cancelled">>}
  PROVE  /\ OrderTold'
         /\ \A p \in Orders \ {o} : status'[p] = status[p] /\ announced'[p] = announced[p]
         /\ status'[o] = to
         /\ "absent" \notin from /\ news # <<>> => announced'[o] # <<"order.created">>
<1> DEFINE a == announced[o]
           b == announced[o] \o news
<1>1. /\ \A p \in Orders : status'[p] = IF p = o THEN to ELSE status[p]
      /\ \A p \in Orders : announced'[p] = IF p = o THEN b ELSE announced[p]
      /\ status[o] \in from
  BY DEF Order!Move, IInv, TypeOK
<1>2. /\ a \in Seq(OrderEvents) /\ b \in Seq(OrderEvents) /\ Len(b) = Len(a) + Len(news)
      /\ Len(a) \in Nat /\ Len(news) \in Nat
      /\ \A i \in 1..Len(b) : b[i] = IF i <= Len(a) THEN a[i] ELSE news[i - Len(a)]
  <2>1. a \in Seq(OrderEvents)
    BY DEF IInv, TypeOK
  <2> QED
    BY <2>1, ConcatProperties, LenProperties
<1>3. /\ status[o] = "absent" <=> a = <<>>
      /\ \A i \in 1..Len(a) : a[i] = "order.created" => i = 1
  BY DEF OrderTold
<1>4. Len(<<"order.created">>) = 1 /\ Len(<<"order.confirmed">>) = 1
      /\ Len(<<"order.cancelled">>) = 1 /\ Len(<<>>) = 0
      /\ <<"order.created">>[1] = "order.created" /\ <<"order.confirmed">>[1] = "order.confirmed"
      /\ <<"order.cancelled">>[1] = "order.cancelled"
  OBVIOUS
<1>5. a = <<>> <=> Len(a) = 0
  BY <1>2, EmptySeq
<1>6. b = <<>> <=> Len(b) = 0
  BY <1>2, EmptySeq
<1> HIDE DEF a, b
<1>7. b # <<>> /\ \A i \in 1..Len(b) : b[i] = "order.created" => i = 1
  <2>1. CASE from = {"absent"} /\ news = <<"order.created">>
    BY <2>1, <1>1, <1>2, <1>3, <1>4, <1>5, <1>6
  <2>2. CASE "absent" \notin from /\ news \in {<<>>, <<"order.confirmed">>, <<"order.cancelled">>}
    <3>1. Len(b) > 0
      BY <2>2, <1>1, <1>2, <1>3, <1>5
    <3>2. ASSUME NEW i \in 1..Len(b), b[i] = "order.created" PROVE i = 1
      <4>1. CASE i <= Len(a)
        BY <4>1, <3>2, <1>2, <1>3
      <4>2. CASE i > Len(a)
        BY <4>2, <2>2, <3>2, <1>2, <1>4
      <4> QED
        BY <4>1, <4>2, <1>2
    <3> QED
      BY <3>1, <3>2, <1>6
  <2> QED
    BY <2>1, <2>2
<1>8. OrderTold'
  BY <1>1, <1>7 DEF OrderTold
<1>9. ASSUME "absent" \notin from, news # <<>> PROVE b # <<"order.created">>
  <2>1. Len(news) = 1 /\ Len(a) > 0
    <3>1. news \in {<<"order.confirmed">>, <<"order.cancelled">>}
      BY <1>9
    <3>2. Len(news) = 1
      BY <3>1, <1>4, Zenon
    <3>3. status[o] # "absent"
      BY <1>9, <1>1, Zenon
    <3>4. Len(a) # 0
      BY <3>3, <1>3, <1>5, Zenon
    <3> QED
      BY <3>2, <3>4, <1>2
  <2>2. Len(b) > 1
    BY <2>1, <1>2
  <2>3. Len(b) # 1
    BY <2>2, <1>2
  <2> QED
    BY <2>3, <1>4, Zenon
<1>10. "absent" \notin from /\ news # <<>> => announced'[o] # <<"order.created">>
  BY <1>9, <1>1, Zenon
<1>11. /\ \A p \in Orders \ {o} : status'[p] = status[p] /\ announced'[p] = announced[p]
       /\ status'[o] = to
  BY <1>1
<1> QED
  BY <1>8, <1>10, <1>11, Zenon

(* What each step of the order's life leaves announced.                    *)
LEMMA OrderSteps ==
  ASSUME IInv, OrderTold, NEW o \in Orders,
         \/ Order!Place(o) \/ Order!AwaitPayment(o) \/ Order!Confirm(o)
         \/ Order!Cancel(o) \/ Order!Reject(o)
  PROVE  /\ OrderTold'
         /\ \A p \in Orders \ {o} : status'[p] = status[p] /\ announced'[p] = announced[p]
         /\ status'[o] = "CANCELLED" /\ announced'[o] = <<"order.created">> => Order!Reject(o)
<1>1. /\ <<"order.created">> \in Seq(OrderEvents) /\ <<"order.cancelled">> \in Seq(OrderEvents)
      /\ <<"order.confirmed">> \in Seq(OrderEvents) /\ <<>> \in Seq(OrderEvents)
  BY DEF OrderEvents
<1>2. <<"order.cancelled">> # <<>>
  OBVIOUS
<1>3. ASSUME NEW from, NEW to, NEW news, Order!Move(o, from, to, news), to # "absent",
             \/ from = {"absent"} /\ news = <<"order.created">>
             \/ "absent" \notin from /\ news \in {<<>>, <<"order.confirmed">>, <<"order.cancelled">>}
      PROVE  /\ OrderTold'
             /\ \A p \in Orders \ {o} : status'[p] = status[p] /\ announced'[p] = announced[p]
             /\ status'[o] = to
             /\ "absent" \notin from /\ news # <<>> => announced'[o] # <<"order.created">>
  <2>1. news \in Seq(OrderEvents)
    BY <1>1, <1>3
  <2> QED
    BY <1>3, <2>1, MoveTells, Zenon
<1>4. CASE Order!Place(o)
  <2>1. Order!Move(o, {"absent"}, "CREATED", <<"order.created">>)
    BY <1>4 DEF Order!Place
  <2> QED
    BY <2>1, <1>3
<1>5. CASE Order!AwaitPayment(o)
  <2>1. Order!Move(o, {"CREATED"}, "PAYMENT_PENDING", <<>>)
    BY <1>5 DEF Order!AwaitPayment
  <2> QED
    BY <2>1, <1>3
<1>6. CASE Order!Confirm(o)
  <2>1. Order!Move(o, {"PAYMENT_PENDING"}, "CONFIRMED", <<"order.confirmed">>)
    BY <1>6 DEF Order!Confirm
  <2> QED
    BY <2>1, <1>3
<1>7. CASE Order!Cancel(o)
  <2>1. Order!Move(o, {"CREATED", "PAYMENT_PENDING"}, "CANCELLED", <<"order.cancelled">>)
    BY <1>7 DEF Order!Cancel
  <2> QED
    BY <2>1, <1>2, <1>3
<1>8. CASE Order!Reject(o)
  <2>1. Order!Move(o, {"CREATED"}, "CANCELLED", <<>>)
    BY <1>8 DEF Order!Reject
  <2> QED
    BY <2>1, <1>3, <1>8
<1> QED
  BY <1>4, <1>5, <1>6, <1>7, <1>8

(* A cancellation by the customer or for a failed payment is announced.    *)
LEMMA CancelTells ==
  ASSUME IInv, OrderTold, NEW o \in Orders, Order!Cancel(o)
  PROVE  announced'[o] # <<"order.created">>
<1>1. Order!Move(o, {"CREATED", "PAYMENT_PENDING"}, "CANCELLED", <<"order.cancelled">>)
  BY DEF Order!Cancel
<1>2. <<"order.cancelled">> \in Seq(OrderEvents) /\ <<"order.cancelled">> # <<>>
  BY DEF OrderEvents
<1> QED
  BY <1>1, <1>2, MoveTells

(* The order service, placing and cancelling: no message is touched.       *)
LEMMA OrderClean ==
  ASSUME IInv, IInv', OrderTold, Clean, NEW o \in Orders, Place(o) \/ CustomerCancel(o)
  PROVE  Clean'
<1>1. /\ UNCHANGED <<relayed, reservation, money, queued>>
      /\ Order!Place(o) \/ Order!Cancel(o)
  BY DEF Place, CustomerCancel
<1>2. PICK types : types = {}
  OBVIOUS
<1>3. Queue(Published(o, types), {})
  BY <1>1, <1>2, NothingQueued
<1>4. \A p \in Orders \ {o} : status'[p] = status[p] /\ announced'[p] = announced[p]
  BY <1>1, OrderSteps
<1>5. ~ (status'[o] = "CANCELLED" /\ announced'[o] = <<"order.created">>)
  <2>1. CASE Order!Place(o)
    BY <2>1 DEF Order!Place, Order!Move, IInv, TypeOK
  <2>2. CASE Order!Cancel(o)
    BY <2>2, CancelTells
  <2> QED
    BY <1>1, <2>1, <2>2
<1>6. /\ relayed'[o] >= relayed[o]
      /\ relayed'[o] = 0 => reservation'[o] = "none"
      /\ payment'[o] = payment[o] /\ reservation'[o] = reservation[o]
  BY <1>1 DEF IInv, TypeOK, money, Clean, CreatedOnce
<1>7. \A p \in Orders \ {o} : relayed'[p] = relayed[p] /\ reservation'[p] = reservation[p]
                                /\ payment'[p] = payment[p]
  BY <1>1 DEF money
<1> QED
  BY <1>2, <1>3, <1>4, <1>5, <1>6, <1>7, CleanStep

(* The relay: order.created is the first event, so it is published when    *)
(* nothing was.                                                            *)
LEMMA RelayClean ==
  ASSUME IInv, IInv', OrderTold, Clean, NEW o \in Orders, Relay(o)
  PROVE  Clean'
<1>1. /\ relayed[o] < Len(announced[o]) /\ relayed' = [relayed EXCEPT ![o] = @ + 1]
      /\ UNCHANGED <<order, reservation, money>>
      /\ relayed[o] \in Nat /\ announced[o] \in Seq(OrderEvents)
  BY DEF Relay, Events!Relay, IInv, TypeOK
<1>2. relayed'[o] = relayed[o] + 1 /\ \A p \in Orders \ {o} : relayed'[p] = relayed[p]
  BY <1>1 DEF IInv, TypeOK
<1>3. relayed'[o] \in 1..Len(announced[o])
  BY <1>1, <1>2
<1>4. /\ announced[o][relayed'[o]] \in OrderEvents
      /\ announced[o][relayed'[o]] = "order.created" => relayed'[o] = 1
  BY <1>1, <1>3 DEF OrderTold
<1>5. PICK types : types = {announced[o][relayed'[o]]}
  OBVIOUS
<1>6. Queue(Published(o, types), {})
  BY <1>5 DEF Relay
<1>7. "order.created" \in types =>
        relayed[o] = 0 /\ relayed'[o] > 0 /\ reservation'[o] = "none"
  <2>1. "order.created" \in types => relayed'[o] = 1
    BY <1>4, <1>5
  <2>2. relayed[o] = 0 => reservation[o] = "none"
    BY DEF Clean, CreatedOnce
  <2> QED
    BY <2>1, <2>2, <1>1, <1>2
<1>8. {"inventory.failed", "inventory.reserved", "payment.failed"} \cap types = {}
  BY <1>4, <1>5 DEF OrderEvents
<1>9. relayed'[o] >= relayed[o] /\ relayed'[o] > 0
  BY <1>1, <1>2
<1>10. UNCHANGED <<status, announced, payment>>
  BY <1>1 DEF order, money
<1> QED
  BY <1>1, <1>2, <1>6, <1>7, <1>8, <1>9, <1>10, CleanStep

(* The order service's four handlers: the one that cancels in silence has  *)
(* inventory.failed in hand.                                               *)
LEMMA OrderHandlesClean ==
  ASSUME IInv, IInv', OrderTold, Clean, NEW m \in Message, faults' = 0, OrderHandles(m)
  PROVE  Clean'
<1>1. /\ queued[m] > 0 /\ Handled(m, {}) /\ UNCHANGED <<relayed, reservation, money>>
  BY DEF OrderHandles
<1>2. PICK o \in Orders : o = m.order
  BY BindingFields
<1>3. PICK types : types = {}
  OBVIOUS
<1>4. Queue(Published(o, types), {m})
  BY <1>1, <1>2, <1>3, NoFault
<1>5. \/ UNCHANGED order
      \/ Order!AwaitPayment(o) \/ Order!Confirm(o) \/ Order!Cancel(o)
      \/ m.via[2] = "inventory.failed" /\ Order!Reject(o)
  BY <1>2 DEF OrderHandles, Use
<1>6. /\ \A p \in Orders \ {o} : status'[p] = status[p] /\ announced'[p] = announced[p]
      /\ status'[o] = "CANCELLED" /\ announced'[o] = <<"order.created">> =>
           \/ status[o] = "CANCELLED" /\ announced[o] = <<"order.created">>
           \/ m.via[2] = "inventory.failed"
  <2>1. CASE UNCHANGED order
    BY <2>1 DEF order
  <2>2. CASE Order!AwaitPayment(o)
    <3>1. status'[o] = "PAYMENT_PENDING"
      BY <2>2 DEF Order!AwaitPayment, Order!Move, IInv, TypeOK
    <3> QED
      BY <2>2, <3>1, OrderSteps
  <2>3. CASE Order!Confirm(o)
    <3>1. status'[o] = "CONFIRMED"
      BY <2>3 DEF Order!Confirm, Order!Move, IInv, TypeOK
    <3> QED
      BY <2>3, <3>1, OrderSteps
  <2>4. CASE Order!Cancel(o)
    BY <2>4, CancelTells, OrderSteps
  <2>5. CASE m.via[2] = "inventory.failed" /\ Order!Reject(o)
    BY <2>5, OrderSteps
  <2> QED
    BY <1>5, <2>1, <2>2, <2>3, <2>4, <2>5
<1>7. PICK out \in SUBSET Message : out = {m}
  OBVIOUS
<1>8. m \in out /\ \A k \in out : k.order = o /\ queued[k] > 0
  BY <1>1, <1>2, <1>7
<1>9. Queue(Published(o, types), out)
  BY <1>4, <1>7
<1>10. /\ relayed'[o] >= relayed[o]
       /\ relayed'[o] = 0 => reservation'[o] = "none"
       /\ UNCHANGED <<relayed, payment, reservation>>
  BY <1>1 DEF IInv, TypeOK, money, Clean, CreatedOnce
<1> QED
  BY <1>3, <1>6, <1>8, <1>9, <1>10, CleanStep

(* The inventory service.  It refuses or reserves with the only copy of    *)
(* order.created in hand, and it releases what it has reserved.            *)
LEMMA InventoryClean ==
  ASSUME IInv, IInv', Clean, NEW m \in Message, faults' = 0,
         Refuses(m) \/ Reserves(m) \/ Releases(m)
  PROVE  Clean'
<1>1. queued[m] > 0 /\ UNCHANGED <<order, relayed, money>>
  BY DEF Refuses, Reserves, Releases, ToReserve
<1>2. PICK o \in Orders : o = m.order
  BY BindingFields
<1>3. UNCHANGED <<status, announced, relayed, payment>>
  BY <1>1 DEF order, money
<1>4. PICK out \in SUBSET Message : out = {m}
  OBVIOUS
<1>5. m \in out /\ \A k \in out : k.order = o /\ queued[k] > 0
  BY <1>1, <1>2, <1>4
<1>6. relayed'[o] >= relayed[o] /\ (relayed[o] = 0 => reservation[o] = "none")
  BY <1>3 DEF IInv, TypeOK, Clean, CreatedOnce
<1>7. m.via[2] = "order.created" => relayed[o] > 0 /\ reservation[o] = "none"
  BY <1>1, <1>2 DEF Clean, CreatedOnce
<1>8. CASE Refuses(m)
  <2>1. PICK types : types = {"inventory.failed"}
    OBVIOUS
  <2>2. /\ m.via[2] = "order.created" /\ UNCHANGED reservation
        /\ Queue(Published(o, types), out)
    BY <1>2, <1>4, <1>8, <2>1, NoFault DEF Refuses, ToReserve
  <2> QED
    BY <1>3, <1>5, <1>6, <1>7, <2>1, <2>2, CleanStep
<1>9. CASE Reserves(m)
  <2>1. PICK types : types = {"inventory.reserved"}
    OBVIOUS
  <2>2. /\ m.via[2] = "order.created" /\ reservation' = [reservation EXCEPT ![o] = "ACTIVE"]
        /\ Queue(Published(o, types), out)
    BY <1>2, <1>4, <1>9, <2>1, NoFault DEF Reserves, ToReserve, Ledger!Reserve
  <2>3. \A p \in Orders \ {o} : reservation'[p] = reservation[p]
    BY <2>2 DEF IInv, TypeOK
  <2>4. payment[o] = "none"
    BY <1>7, <2>2 DEF IInv, PaidAfterReserved
  <2>5. IInv /\ relayed'[o] > 0
    BY <1>3, <1>7, <2>2
  <2> QED
    BY <1>3, <1>5, <1>6, <1>7, <2>1, <2>2, <2>3, <2>4, <2>5, CleanStep
<1>10. CASE Releases(m)
  <2>1. PICK types : types = {}
    OBVIOUS
  <2>2. Queue(Published(o, types), out)
    BY <1>2, <1>4, <1>10, <2>1, NoFault DEF Releases
  <2>3. /\ \A p \in Orders \ {o} : reservation'[p] = reservation[p]
        /\ reservation[o] = "none" => reservation'[o] = "none"
    BY <1>2, <1>10 DEF Releases, Ledger!Release, IInv, TypeOK
  <2> QED
    BY <1>3, <1>5, <1>6, <2>1, <2>2, <2>3, CleanStep
<1> QED
  BY <1>8, <1>9, <1>10

(* The sweep ends what was reserved.                                       *)
LEMMA ExpiresClean ==
  ASSUME IInv, IInv', Clean, NEW o \in Orders, Expires(o)
  PROVE  Clean'
<1>1. /\ UNCHANGED <<order, relayed, money, queued>> /\ Ledger!Expire({o})
      /\ reservation[o] = "ACTIVE"
  BY DEF Expires
<1>2. UNCHANGED <<status, announced, relayed, payment>>
  BY <1>1 DEF order, money
<1>3. PICK types : types = {}
  OBVIOUS
<1>4. Queue(Published(o, types), {})
  BY <1>1, <1>3, NothingQueued
<1>5. \A p \in Orders \ {o} : reservation'[p] = reservation[p]
  BY <1>1 DEF Ledger!Expire
<1>6. relayed'[o] >= relayed[o] /\ (relayed[o] = 0 => reservation[o] = "none")
  BY <1>2 DEF IInv, TypeOK, Clean, CreatedOnce
<1> QED
  BY <1>1, <1>2, <1>3, <1>4, <1>5, <1>6, CleanStep

(* The payment service.  The only copy of inventory.reserved finds no      *)
(* payment, and the gateway's answer is told as it is.                     *)
LEMMA PaymentClean ==
  ASSUME IInv, IInv', Clean, faults' = 0, NEW m \in Message, PayBegins(m) \/ PayIsKnown(m)
  PROVE  Clean'
<1>1. /\ queued[m] > 0 /\ m.via[1] = "payment.inventory-events"
      /\ UNCHANGED <<order, relayed, reservation>>
  BY DEF PayBegins, PayIsKnown, ToPay
<1>2. PICK o \in Orders : o = m.order
  BY BindingFields
<1>3. payment[o] = "none"
  BY <1>1, <1>2 DEF Clean, PaidOnce
<1>4. payment' = [payment EXCEPT ![o] = "PROCESSING"] /\ Queue({}, {m})
  BY <1>2, <1>3 DEF PayBegins, PayIsKnown
<1>5. PICK types : types = {}
  OBVIOUS
<1>6. PICK out \in SUBSET Message : out = {m}
  OBVIOUS
<1>7. Queue(Published(o, types), out)
  BY <1>4, <1>5, <1>6, NothingQueued
<1>8. m \in out /\ \A k \in out : k.order = o /\ queued[k] > 0
  BY <1>1, <1>2, <1>6
<1>9. \A p \in Orders \ {o} : payment'[p] = payment[p]
  BY <1>4 DEF IInv, TypeOK
<1>10. UNCHANGED <<status, announced, relayed, reservation>>
  BY <1>1 DEF order
<1>11. relayed'[o] >= relayed[o] /\ (relayed[o] = 0 => reservation[o] = "none")
  BY <1>10 DEF IInv, TypeOK, Clean, CreatedOnce
<1> QED
  BY <1>1, <1>3, <1>5, <1>7, <1>8, <1>9, <1>10, <1>11, CleanStep

(* The end of a payment.                                                   *)
LEMMA PayEndsClean ==
  ASSUME IInv, IInv', Clean, faults' = 0, NEW o \in Orders, PayEnds(o)
  PROVE  Clean'
<1>1. PICK c \in charging[o], outcome \in Outcomes :
        /\ payment' = [payment EXCEPT ![o] = outcome[1]]
        /\ Queue(Published(o, {outcome[2]}), {})
        /\ UNCHANGED <<order, relayed, reservation>>
  BY NoFault DEF PayEnds
<1>2. payment[o] = "PROCESSING" /\ UNCHANGED <<order, relayed, reservation>>
  BY <1>1 DEF IInv, PaymentsAgree
<1>3. PICK types : types = {outcome[2]}
  OBVIOUS
<1>4. Queue(Published(o, types), {})
  BY <1>1, <1>3
<1>5. /\ {"order.created", "inventory.failed", "inventory.reserved"} \cap types = {}
      /\ "payment.failed" \in types => payment'[o] = "FAILED"
  BY <1>1, <1>3 DEF Outcomes, IInv, TypeOK
<1>6. \A p \in Orders \ {o} : payment'[p] = payment[p]
  BY <1>1 DEF IInv, TypeOK
<1>7. UNCHANGED <<status, announced, relayed, reservation>>
  BY <1>2 DEF order
<1>8. relayed'[o] >= relayed[o] /\ (relayed[o] = 0 => reservation[o] = "none")
  BY <1>7 DEF IInv, TypeOK, Clean, CreatedOnce
<1> QED
  BY <1>2, <1>4, <1>5, <1>6, <1>7, <1>8, CleanStep

-----------------------------------------------------------------------------
(* Every step of the saga is a step of the order's life, or none.          *)
LEMMA OrderMoves ==
  ASSUME Next
  PROVE  \/ UNCHANGED order
         \/ \E o \in Orders : \/ Order!Place(o) \/ Order!AwaitPayment(o) \/ Order!Confirm(o)
                              \/ Order!Cancel(o) \/ Order!Reject(o)
<1>1. ASSUME NEW o \in Orders, Place(o) \/ CustomerCancel(o)
      PROVE  Order!Place(o) \/ Order!Cancel(o)
  BY <1>1 DEF Place, CustomerCancel
<1>2. ASSUME NEW o \in Orders,
             \/ Relay(o) \/ RelayAgain(o) \/ Expires(o)
             \/ PayEnds(o) \/ PayGoesWrong(o) \/ ChannelCloses(o)
      PROVE  UNCHANGED order
  BY <1>2 DEF Relay, RelayAgain, PayEnds, PayGoesWrong, ChannelCloses, Expires
<1>3. ASSUME NEW m \in Message, HandlerFails(m) \/ ReserveGoesWrong(m) \/ Refuses(m)
               \/ Reserves(m) \/ Releases(m) \/ PayBegins(m) \/ PayIsKnown(m)
      PROVE  UNCHANGED order
  BY <1>3 DEF HandlerFails, ReserveGoesWrong, Refuses, Reserves, Releases, PayBegins, PayIsKnown
<1>4. ASSUME NEW m \in Message, OrderHandles(m)
      PROVE  \/ UNCHANGED order
             \/ Order!AwaitPayment(m.order) \/ Order!Confirm(m.order)
             \/ Order!Cancel(m.order) \/ Order!Reject(m.order)
  BY <1>4 DEF OrderHandles, Use
<1> QED
  BY <1>1, <1>2, <1>3, <1>4, BindingFields DEF Next, Handle

(* Every step preserves what holds of the runs without a fault.            *)
LEMMA NextClean == IInv /\ IInv' /\ CleanRun /\ [Next]_vars => CleanRun'
<1> SUFFICES ASSUME IInv, IInv', CleanRun, [Next]_vars PROVE CleanRun'
  OBVIOUS
<1>1. OrderTold'
  <2>1. CASE UNCHANGED order
    BY <2>1 DEF CleanRun, OrderTold, order
  <2>2. CASE Next
    BY <2>1, <2>2, OrderMoves, OrderSteps DEF CleanRun
  <2> QED
    BY <2>1, <2>2 DEF vars
<1>2. ASSUME faults' = 0 PROVE Clean' /\ NothingClosed'
  <2>1. faults = 0
    <3>1. faults \in Nat
      BY DEF IInv, TypeOK
    <3>2. UNCHANGED faults \/ Fault
      BY DEF Next, vars, Handle, Place, CustomerCancel, Relay, RelayAgain, OrderHandles, Handled,
             HandlerFails, Returned, Refuses, Reserves, Releases, ReserveGoesWrong, PayBegins,
             PayIsKnown, PayEnds, PayGoesWrong, ChannelCloses, Expires
    <3> QED
      BY <1>2, <3>1, <3>2 DEF Fault
  <2>2. Clean /\ OrderTold /\ NothingClosed
    BY <2>1 DEF CleanRun
  <2>3. ASSUME UNCHANGED vars PROVE Clean'
    <3>1. UNCHANGED <<status, announced, relayed, reservation, payment, queued>>
      BY <2>3 DEF vars, order, money
    <3> QED
      BY <2>2, <3>1 DEF Clean, NothingRepeated, CreatedOnce, RefusalsTrue, Refused, PaidOnce
  <2>4. ASSUME NEW o \in Orders, Place(o) \/ CustomerCancel(o) \/ Relay(o) \/ RelayAgain(o)
                 \/ PayEnds(o) \/ PayGoesWrong(o) \/ ChannelCloses(o) \/ Expires(o)
        PROVE  Clean'
    <3>1. ~ RelayAgain(o) /\ ~ PayGoesWrong(o) /\ ~ ChannelCloses(o)
      BY <1>2, <2>2, NoFault DEF RelayAgain, PayGoesWrong, ChannelCloses, NothingClosed
    <3> QED
      BY <1>2, <2>2, <2>4, <3>1, OrderClean, RelayClean, PayEndsClean, ExpiresClean
  <2>5. ASSUME NEW m \in Message, Handle(m) \/ HandlerFails(m) \/ ReserveGoesWrong(m)
        PROVE  Clean'
    <3>1. ~ HandlerFails(m) /\ ~ ReserveGoesWrong(m)
      BY <1>2, NoFault DEF HandlerFails, ReserveGoesWrong
    <3> QED
      BY <1>2, <2>2, <2>5, <3>1, OrderHandlesClean, InventoryClean, PaymentClean DEF Handle
  <2>6. NothingClosed'
    <3>1. CASE UNCHANGED charging
      BY <2>2, <3>1 DEF NothingClosed
    <3>2. ASSUME NEW m \in Message, PayBegins(m) PROVE NothingClosed'
      BY <2>2, <3>2 DEF PayBegins, NothingClosed, IInv, TypeOK
    <3>3. ASSUME NEW o \in Orders, PayEnds(o) PROVE NothingClosed'
      BY <2>2, <3>3 DEF PayEnds, Answered, NothingClosed, IInv, TypeOK
    <3>4. ASSUME NEW o \in Orders, PayGoesWrong(o) \/ ChannelCloses(o) PROVE FALSE
      BY <1>2, <2>2, <3>4, NoFault DEF PayGoesWrong, ChannelCloses, NothingClosed
    <3>5. \/ UNCHANGED charging
          \/ \E m \in Message : PayBegins(m)
          \/ \E o \in Orders : PayEnds(o) \/ PayGoesWrong(o) \/ ChannelCloses(o)
      BY DEF Next, vars, money, Handle, Place, CustomerCancel, Relay, RelayAgain, OrderHandles,
             HandlerFails, Refuses, Reserves, Releases, ReserveGoesWrong, PayIsKnown, Expires
    <3> QED
      BY <3>1, <3>2, <3>3, <3>4, <3>5
  <2> QED
    BY <2>3, <2>4, <2>5, <2>6 DEF Next
<1> QED
  BY <1>1, <1>2 DEF CleanRun

(* What holds of the runs without a fault holds always.                    *)
THEOREM CleanInvariance == Spec => []CleanRun
<1>1. Init => CleanRun
  <2> SUFFICES ASSUME Init PROVE CleanRun
    OBVIOUS
  <2> USE DEF Init, Order!Init, Ledger!Init
  <2>1. OrderTold
    <3> SUFFICES ASSUME NEW o \in Orders
                 PROVE  /\ status[o] = "absent" <=> announced[o] = <<>>
                        /\ \A i \in 1..Len(announced[o]) :
                             announced[o][i] = "order.created" => i = 1
      BY DEF OrderTold
    <3>1. status[o] = "absent" /\ announced[o] = <<>>
      OBVIOUS
    <3>2. Len(announced[o]) = 0
      BY <3>1
    <3>3. 1..Len(announced[o]) = {}
      BY <3>2
    <3> QED
      BY <3>1, <3>3, Zenon
  <2>2. NothingRepeated /\ CreatedOnce /\ PaidOnce
    BY DEF NothingRepeated, CreatedOnce, PaidOnce
  <2>4. NothingClosed
    BY DEF NothingClosed
  <2>3. RefusalsTrue
    BY DEF RefusalsTrue
  <2> QED
    BY <2>1, <2>2, <2>3, <2>4 DEF CleanRun, Clean
<1> QED
  BY <1>1, NextClean, Invariance, PTL DEF Spec

(* Without a fault, an order cancelled after inventory.failed holds no     *)
(* stock, whatever else is queued (OrderEventHandlers: "Nothing was        *)
(* reserved, so no compensation event is emitted").                        *)
THEOREM NothingLeftReserved == Spec => []RejectedHoldsNothing
<1>1. CleanRun => RejectedHoldsNothing
  BY DEF CleanRun, Clean, RefusalsTrue, Refused, RejectedHoldsNothing
<1> QED
  BY <1>1, CleanInvariance, PTL

(* Without a fault, the customer of an order that is cancelled while it    *)
(* awaits payment has not been charged.                                    *)
THEOREM MailIsRight == Spec => NoPaymentTaken
<1> DEFINE Right == \A o \in Orders :
             faults' = 0 /\ status[o] = "PAYMENT_PENDING" /\ status'[o] = "CANCELLED"
               => charges[o] = 0
<1>1. IInv /\ CleanRun /\ [Next]_vars => [Right]_vars
  <2> SUFFICES ASSUME IInv, CleanRun, Next, NEW o \in Orders, faults' = 0,
                      status[o] = "PAYMENT_PENDING", status'[o] = "CANCELLED"
               PROVE  charges[o] = 0
    OBVIOUS
  <2>1. faults = 0
    <3>1. faults \in Nat
      BY DEF IInv, TypeOK
    <3>2. UNCHANGED faults \/ Fault
      BY DEF Next, Handle, Place, CustomerCancel, Relay, RelayAgain, OrderHandles, Handled,
             HandlerFails, Returned, Refuses, Reserves, Releases, ReserveGoesWrong, PayBegins,
             PayIsKnown, PayEnds, PayGoesWrong, ChannelCloses, Expires
    <3> QED
      BY <3>1, <3>2 DEF Fault
  <2>2. PICK m \in Message : OrderHandles(m) /\ m.order = o
    <3>1. ~ UNCHANGED order
      BY DEF order
    <3>2. ~ \E p \in Orders : Place(p) \/ CustomerCancel(p)
      BY DEF Place, CustomerCancel, Order!Place, Order!Cancel, Order!Move, IInv, TypeOK
    <3>3. \A p \in Orders : ~ (Relay(p) \/ RelayAgain(p) \/ PayEnds(p) \/ PayGoesWrong(p)
                               \/ ChannelCloses(p) \/ Expires(p))
      BY <3>1 DEF Relay, RelayAgain, PayEnds, PayGoesWrong, ChannelCloses, Expires
    <3>4. \A m \in Message : ~ (HandlerFails(m) \/ ReserveGoesWrong(m) \/ Refuses(m)
               \/ Reserves(m) \/ Releases(m) \/ PayBegins(m) \/ PayIsKnown(m))
      BY <3>1 DEF HandlerFails, ReserveGoesWrong, Refuses, Reserves, Releases, PayBegins,
                  PayIsKnown
    <3>5. PICK m \in Message : OrderHandles(m)
      BY <3>2, <3>3, <3>4 DEF Next, Handle
    <3>6. m.order = o
      BY <3>1, <3>5 DEF OrderHandles, Use, Order!AwaitPayment, Order!Confirm, Order!Cancel,
                        Order!Reject, Order!Move, IInv, TypeOK
    <3> QED
      BY <3>5, <3>6
  <2>3. m.via[2] = "payment.failed" /\ queued[m] > 0
    BY <2>2 DEF OrderHandles, Use, order, Order!AwaitPayment, Order!Confirm, Order!Cancel,
                Order!Reject, Order!Move, IInv, TypeOK
  <2>4. payment[o] = "FAILED"
    BY <2>1, <2>2, <2>3 DEF CleanRun, Clean, PaidOnce
  <2> QED
    BY <2>4 DEF IInv, PaymentsAgree
<1> QED
  BY <1>1, Invariance, CleanInvariance, PTL DEF Spec, NoPaymentTaken
-----------------------------------------------------------------------------
(* The ledger of payments.                                                 *)

(* An answer charges, settles, does both at once, or is lost with the      *)
(* gateway's failure to charge.                                            *)
LEMMA AnswerInLedger ==
  ASSUME IInv, NEW o \in Orders, charging[o] # {},
         NEW n \in {0, 1}, NEW s \in {"PROCESSING", "COMPLETED", "FAILED"},
         s = "COMPLETED" => n = 1,
         payment' = [payment EXCEPT ![o] = s],
         charges' = [charges EXCEPT ![o] = @ + n]
  PROVE  [Payments!Next]_(Payments!vars)
<1>1. /\ payment[o] = "PROCESSING" /\ charges[o] = 0
      /\ payment \in [Orders -> {"none", "PROCESSING", "COMPLETED", "FAILED"}]
      /\ charges \in [Orders -> Nat]
  BY DEF IInv, TypeOK, PaymentsAgree
<1>2. n = 0 => UNCHANGED charges
  BY <1>1
<1>3. n = 1 => charges' = [charges EXCEPT ![o] = 1]
  BY <1>1
<1>4. CASE s = "PROCESSING"
  <2>1. UNCHANGED payment
    BY <1>1, <1>4
  <2>2. CASE n = 0
    BY <1>2, <2>1, <2>2 DEF Payments!vars
  <2>3. CASE n = 1
    <3>1. Payments!Charge(o)
      BY <1>1, <1>3, <2>1, <2>3 DEF Payments!Charge
    <3> QED
      BY <3>1 DEF Payments!Next
  <2> QED
    BY <2>2, <2>3
<1>5. CASE s # "PROCESSING"
  <2>1. s = "COMPLETED" => charges'[o] = 1
    BY <1>1, <1>3
  <2>2. Payments!Settle(o)
    BY <1>1, <1>2, <1>3, <1>5, <2>1 DEF Payments!Settle
  <2> QED
    BY <2>2 DEF Payments!Next
<1> QED
  BY <1>4, <1>5

LEMMA PayEndsInLedger ==
  ASSUME IInv, NEW o \in Orders, PayEnds(o) \/ PayGoesWrong(o)
  PROVE  [Payments!Next]_(Payments!vars)
<1>1. charging[o] # {}
  BY DEF PayEnds, PayGoesWrong
<1>2. CASE PayEnds(o)
  <2>1. PICK outcome \in Outcomes :
          /\ payment' = [payment EXCEPT ![o] = outcome[1]]
          /\ charges' = [charges EXCEPT ![o] = @ + One(outcome[1] = "COMPLETED")]
    BY <1>2 DEF PayEnds
  <2>2. PICK s : s = outcome[1]
    OBVIOUS
  <2>3. PICK n \in {0, 1} : n = One(outcome[1] = "COMPLETED")
    BY DEF One
  <2>4. s \in {"PROCESSING", "COMPLETED", "FAILED"} /\ (s = "COMPLETED" => n = 1)
    BY <2>2, <2>3 DEF Outcomes, One
  <2>5. payment' = [payment EXCEPT ![o] = s] /\ charges' = [charges EXCEPT ![o] = @ + n]
    BY <2>1, <2>2, <2>3
  <2> QED
    BY <1>1, <2>4, <2>5, AnswerInLedger
<1>3. CASE PayGoesWrong(o)
  <2>1. PICK n \in {0, 1} :
          /\ charges' = [charges EXCEPT ![o] = @ + n]
          /\ \E s \in {"PROCESSING", IF n = 1 THEN "COMPLETED" ELSE "FAILED"} :
               payment' = [payment EXCEPT ![o] = s]
    BY <1>3 DEF PayGoesWrong
  <2>2. PICK s \in {"PROCESSING", IF n = 1 THEN "COMPLETED" ELSE "FAILED"} :
               payment' = [payment EXCEPT ![o] = s]
    BY <2>1
  <2>3. s \in {"PROCESSING", "COMPLETED", "FAILED"} /\ (s = "COMPLETED" => n = 1)
    OBVIOUS
  <2> QED
    BY <1>1, <2>1, <2>2, <2>3, AnswerInLedger
<1> QED
  BY <1>2, <1>3

(* However messages are repeated, returned and lost, a delivery during the *)
(* charge included, each order's payment in the saga is begun, charged and *)
(* settled as the payment service promises: the composition asks nothing   *)
(* of it that Payment does not do.                                         *)
THEOREM PaymentsInLedger == Spec => PaymentsKept
<1>1. Init => Payments!Init
  BY DEF Init, Payments!Init
<1>2. ASSUME NEW m \in Message, PayBegins(m) PROVE Payments!Next
  <2>1. m.order \in Orders
    BY DEF Message
  <2>2. Payments!Begin(m.order)
    BY <1>2 DEF PayBegins, Payments!Begin
  <2> QED
    BY <2>1, <2>2 DEF Payments!Next
<1>3. ASSUME IInv, [Next]_vars PROVE [Payments!Next]_(Payments!vars)
  <2>1. CASE UNCHANGED <<payment, charges>>
    BY <2>1 DEF Payments!vars
  <2>2. CASE \E m \in Message : PayBegins(m)
    BY <1>2, <2>2
  <2>3. CASE \E o \in Orders : PayEnds(o) \/ PayGoesWrong(o)
    BY <1>3, <2>3, PayEndsInLedger
  <2>4. \/ UNCHANGED <<payment, charges>>
        \/ \E m \in Message : PayBegins(m)
        \/ \E o \in Orders : PayEnds(o) \/ PayGoesWrong(o)
    BY <1>3 DEF vars, money, Next, Handle, Place, CustomerCancel, Relay, RelayAgain,
         OrderHandles, Refuses, Reserves, Releases, PayIsKnown, HandlerFails,
         ReserveGoesWrong, ChannelCloses, Expires
  <2> QED
    BY <2>1, <2>2, <2>3, <2>4
<1> QED
  BY <1>1, <1>3, Invariance, PTL DEF Spec, Payments!Spec, PaymentsKept
-----------------------------------------------------------------------------
(* The composition asks of each service and of the relay what its own      *)
(* specification allows, and nothing else.                                 *)
Written == [o \in Orders |-> Len(announced[o])]

(* A move of an order writes one event, or none.                           *)
LEMMA MoveWrites ==
  ASSUME IInv, NEW o \in Orders, NEW from, NEW to, NEW news \in Seq(OrderEvents),
         Len(news) \in {0, 1}, Order!Move(o, from, to, news), UNCHANGED relayed
  PROVE  Events!Write(o) \/ Written' = Written
<1>1. announced[o] \in Seq(OrderEvents) /\ Len(announced[o]) \in Nat
  BY DEF IInv, TypeOK
<1>2. Len(announced[o] \o news) = Len(announced[o]) + Len(news)
  BY <1>1, ConcatProperties
<1>3. /\ announced'[o] = announced[o] \o news
      /\ \A p \in Orders : p # o => announced'[p] = announced[p]
  BY DEF Order!Move, IInv, TypeOK
<1>4. Len(announced'[o]) = Len(announced[o]) + Len(news)
  BY <1>2, <1>3, Zenon
<1>5. \A p \in Orders : p # o => Len(announced'[p]) = Len(announced[p])
  BY <1>3, Zenon
<1>6. CASE Len(news) = 0
  <2>1. Len(announced'[o]) = Len(announced[o])
    BY <1>1, <1>4, <1>6
  <2>2. \A p \in Orders : Len(announced'[p]) = Len(announced[p])
    BY <1>5, <2>1, Zenon
  <2> QED
    BY <2>2, Zenon DEF Written
<1>7. CASE Len(news) = 1
  <2>1. Len(announced'[o]) = Len(announced[o]) + 1
    BY <1>4, <1>7
  <2>2. Written' = [Written EXCEPT ![o] = @ + 1]
    BY <1>5, <2>1 DEF Written
  <2> QED
    BY <2>2, Zenon DEF Events!Write, Written
<1> QED
  BY <1>6, <1>7

(* Every step of the saga is a step of the relay, or leaves it alone.      *)
LEMMA RelayMoves ==
  ASSUME IInv, Next
  PROVE  Events!Next \/ (Written' = Written /\ UNCHANGED relayed)
<1>1. ASSUME NEW o \in Orders, Relay(o) PROVE Events!Next
  BY <1>1, Zenon DEF Relay, Events!Next
<1>2. CASE \E o \in Orders : Relay(o)
  BY <1>1, <1>2
<1>3. CASE UNCHANGED relayed
  <2>1. CASE UNCHANGED order
    <3>1. announced' = announced
      BY <2>1 DEF order
    <3> QED
      BY <1>3, <3>1 DEF Written
  <2>2. ASSUME NEW o \in Orders,
               \/ Order!Place(o) \/ Order!AwaitPayment(o) \/ Order!Confirm(o)
               \/ Order!Cancel(o) \/ Order!Reject(o)
        PROVE  Events!Write(o) \/ Written' = Written
    <3>1. PICK from, to, news :
            /\ Order!Move(o, from, to, news)
            /\ news \in {<<>>, <<"order.created">>, <<"order.confirmed">>, <<"order.cancelled">>}
      BY <2>2 DEF Order!Place, Order!AwaitPayment, Order!Confirm, Order!Cancel, Order!Reject
    <3>2. /\ <<>> \in Seq(OrderEvents) /\ <<"order.created">> \in Seq(OrderEvents)
          /\ <<"order.confirmed">> \in Seq(OrderEvents)
          /\ <<"order.cancelled">> \in Seq(OrderEvents)
      BY DEF OrderEvents
    <3>3. /\ Len(<<>>) \in {0, 1} /\ Len(<<"order.created">>) \in {0, 1}
          /\ Len(<<"order.confirmed">>) \in {0, 1} /\ Len(<<"order.cancelled">>) \in {0, 1}
      OBVIOUS
    <3>4. news \in Seq(OrderEvents) /\ Len(news) \in {0, 1}
      BY <3>1, <3>2, <3>3, Zenon
    <3> QED
      BY <1>3, <3>1, <3>4, MoveWrites, Zenon
  <2> QED
    BY <1>3, <2>1, <2>2, OrderMoves DEF Events!Next
<1>4. (\E o \in Orders : Relay(o)) \/ UNCHANGED relayed
  BY DEF Next, Handle, Place, CustomerCancel, RelayAgain, OrderHandles, Refuses, Reserves,
         Releases, PayBegins, PayIsKnown, HandlerFails, ReserveGoesWrong, PayEnds, PayGoesWrong,
         ChannelCloses, Expires, money
<1> QED
  BY <1>2, <1>3, <1>4

(* Every step of the saga is a step of the stock ledger, or leaves it alone.*)
LEMMA StockMoves ==
  ASSUME Next
  PROVE  Ledger!Next \/ UNCHANGED reservation
<1>1. ASSUME NEW o \in Orders, Expires(o) PROVE Ledger!Next
  <2>1. {o} \in SUBSET Orders /\ Ledger!Expire({o})
    BY <1>1 DEF Expires
  <2> QED
    BY <2>1, Zenon DEF Ledger!Next
<1>2. ASSUME NEW m \in Message, Reserves(m) \/ ReserveGoesWrong(m) \/ Releases(m)
      PROVE  Ledger!Next \/ UNCHANGED reservation
  <2>1. Ledger!Reserve(m.order) \/ Ledger!Release(m.order) \/ UNCHANGED reservation
    BY <1>2 DEF Reserves, ReserveGoesWrong, Releases
  <2>2. m.order \in Orders
    BY DEF Message
  <2> QED
    BY <2>1, <2>2, Zenon DEF Ledger!Next
<1>3. \/ UNCHANGED reservation
      \/ \E o \in Orders : Expires(o)
      \/ \E m \in Message : Reserves(m) \/ ReserveGoesWrong(m) \/ Releases(m)
  BY DEF Next, Handle, Place, CustomerCancel, Relay, RelayAgain, OrderHandles, Refuses,
         PayBegins, PayIsKnown, HandlerFails, PayEnds, PayGoesWrong, ChannelCloses
<1> QED
  BY <1>1, <1>2, <1>3

(* Whatever is repeated, returned or lost, the saga's orders live the life *)
(* that OrderService implements, its reservations are those of the ledger  *)
(* that Inventory implements, and its events are relayed as Outbox relays  *)
(* them: no step that joins the services does more than they promise.      *)
THEOREM Composition == Spec => Order!Spec /\ Ledger!Spec /\ Events!Spec
<1>1. Init => Order!Init /\ Ledger!Init /\ Events!Init
  <2> SUFFICES ASSUME Init PROVE Order!Init /\ Ledger!Init /\ Events!Init
    OBVIOUS
  <2>1. Order!Init /\ Ledger!Init /\ relayed = [o \in Orders |-> 0]
    BY DEF Init
  <2>2. [o \in Orders |-> Len(announced[o])] = [o \in Orders |-> 0]
    BY <2>1 DEF Order!Init
  <2> QED
    BY <2>1, <2>2, Zenon DEF Events!Init
<1>2. [Next]_vars => [Order!Next]_<<status, announced>>
  <2>1. ASSUME Next PROVE Order!Next \/ UNCHANGED <<status, announced>>
    BY <2>1, OrderMoves DEF Order!Next, order
  <2> QED
    BY <2>1 DEF vars, order
<1>3. [Next]_vars => [Ledger!Next]_<<reservation>>
  BY StockMoves DEF vars
<1>4. IInv /\ [Next]_vars => [Events!Next]_<<[o \in Orders |-> Len(announced[o])], relayed>>
  <2>1. UNCHANGED vars => Written' = Written /\ UNCHANGED relayed
    BY DEF vars, order, Written
  <2>2. IInv /\ [Next]_vars => Events!Next \/ (Written' = Written /\ UNCHANGED relayed)
    BY <2>1, RelayMoves
  <2> QED
    BY <2>2 DEF Written
<1> QED
  BY <1>1, <1>2, <1>3, <1>4, Invariance, PTL
     DEF Spec, Order!Spec, Order!lifecycle, Ledger!Spec, Ledger!vars, Events!Spec
=============================================================================
