---------------------------- MODULE OrderService ----------------------------
(***************************************************************************)
(* The order service: its orders table, the outbox rows written with every *)
(* change, the saga_steps journal, and the requests and event handlers of  *)
(* all its replicas that are in flight.                                    *)
(*                                                                         *)
(* Every operation of the service has the same shape.  It loads the order, *)
(* decides on what it loaded, and later writes the row back in a           *)
(* transaction that also inserts the outbox event, on condition that the   *)
(* row still has the version that was loaded.  Between the load and the    *)
(* write any other operation may run, on this replica or on another one;   *)
(* the saga step of an event handler is journalled after the commit, in a  *)
(* statement of its own.  The module keeps these three moments apart.      *)
(*                                                                         *)
(* The environment is open: any of the four events the service consumes    *)
(* may be delivered for any order, at any time and any number of times.    *)
(* Delivery is at least once and unordered across queues, and the services *)
(* that send the events do send contradictory ones (Saga shows how), so    *)
(* nothing narrower is assumed.  A handler that returns early, because the *)
(* order is unknown or is not in the status it wants, changes nothing: it  *)
(* is a stuttering step and has no action here.                            *)
(***************************************************************************)
EXTENDS OrderStatus

CONSTANTS
  Orders,    (* order ids the service may draw (random UUIDs in the code)    *)
  Keys,      (* idempotency keys that clients send                           *)
  Workers    (* requests and deliveries that can be in flight at once        *)

Absent  == "absent"      (* status of an order that has no row *)
NoKey   == "no key"
NoEvent == "no event"
NoStep  == "no step"

Steps == {"inventory_reserved", "payment_completed", "payment_failed", "inventory_failed"}

ASSUME ConstantsAssumption == NoKey \notin Keys

VARIABLES
  status,    (* orders.status, by order id                                   *)
  version,   (* orders.version                                               *)
  keyOf,     (* orders.idempotency_key                                       *)
  outbox,    (* the event types of an order's outbox rows, oldest first      *)
  steps,     (* how often a saga step was recorded: 0 is no row, n is a row  *)
             (* whose retry_count is n - 1                                   *)
  answers,   (* history: the orders that create requests with a key returned *)
  task       (* what each worker is doing, with what it loaded               *)

row  == <<status, version, keyOf, outbox>>
vars == <<status, version, keyOf, outbox, steps, answers, task>>

Idle == [pc |-> "idle"]

Init ==
  /\ status  = [o \in Orders |-> Absent]
  /\ version = [o \in Orders |-> 0]
  /\ keyOf   = [o \in Orders |-> NoKey]
  /\ outbox  = [o \in Orders |-> <<>>]
  /\ steps   = [o \in Orders |-> [s \in Steps |-> 0]]
  /\ answers = [k \in Keys |-> {}]
  /\ task    = [w \in Workers |-> Idle]
-----------------------------------------------------------------------------
(* CreateOrderHandler.execute.  The key is looked up first; an order found *)
(* is returned as it is.  Otherwise the order is built and saved, with its *)
(* order.created event; the unique index on idempotency_key aborts the     *)
(* save of a second order under the same key.                              *)

CreateFinds(w, k, o) ==
  /\ task[w] = Idle
  /\ keyOf[o] = k
  /\ answers' = [answers EXCEPT ![k] = @ \cup {o}]
  /\ UNCHANGED <<row, steps, task>>

CreateMisses(w, k) ==
  /\ task[w] = Idle
  /\ \A o \in Orders : keyOf[o] # k
  /\ task' = [task EXCEPT ![w] = [pc |-> "save", key |-> k]]
  /\ UNCHANGED <<row, steps, answers>>

(* The insert of the order and of its outbox row, in one transaction.       *)
InsertOrder(w, o) ==
  /\ task[w].pc = "save"
  /\ status[o] = Absent
  /\ status'  = [status EXCEPT ![o] = "CREATED"]
  /\ version' = [version EXCEPT ![o] = 1]
  /\ keyOf'   = [keyOf EXCEPT ![o] = task[w].key]
  /\ outbox'  = [outbox EXCEPT ![o] = Append(@, "order.created")]
  /\ answers' = [answers EXCEPT ![task[w].key] = @ \cup {o}]
  /\ task'    = [task EXCEPT ![w] = Idle]
  /\ UNCHANGED steps

Save(w, o) ==
  /\ InsertOrder(w, o)
  /\ \A p \in Orders : keyOf[p] # task[w].key

SaveViolatesUnique(w) ==
  /\ task[w].pc = "save"
  /\ \E p \in Orders : keyOf[p] = task[w].key
  /\ task' = [task EXCEPT ![w] = Idle]
  /\ UNCHANGED <<row, steps, answers>>
-----------------------------------------------------------------------------
(* What an operation keeps after it has loaded order o and taken it through *)
(* the statuses of path in memory: the version it loaded, where it came     *)
(* from and where it went, the event and the saga step that go with it.     *)
(* transitionTo throws unless the table allows each hop, and counts it.     *)
Loaded(o, path, hops, event, step) ==
  [pc |-> "update", order |-> o, seen |-> version[o], from |-> status[o],
   to |-> path[Len(path)], hops |-> hops, event |-> event, step |-> step]

(* A mutant of Load: the version does not count the transitions.           *)
LoadUncounted(w, o, path, event, step) ==
  /\ task[w] = Idle
  /\ Walk(status[o], path)
  /\ task' = [task EXCEPT ![w] = Loaded(o, path, 0, event, step)]
  /\ UNCHANGED <<row, steps, answers>>

Load(w, o, path, event, step) ==
  /\ task[w] = Idle
  /\ Walk(status[o], path)
  /\ task' = [task EXCEPT ![w] = Loaded(o, path, Len(path), event, step)]
  /\ UNCHANGED <<row, steps, answers>>

OnInventoryReserved(w, o) ==
  /\ status[o] = "CREATED"
  /\ Load(w, o, <<"INVENTORY_RESERVED", "PAYMENT_PENDING">>, NoEvent, "inventory_reserved")

OnPaymentCompleted(w, o) ==
  /\ status[o] = "PAYMENT_PENDING"
  /\ Load(w, o, <<"CONFIRMED">>, "order.confirmed", "payment_completed")

(* A failure event takes a pending (created) order to the matching failed  *)
(* status and then cancels it if that is allowed from where it now is.     *)
FailThenCancel(o, pending, failed) ==
  IF status[o] = pending THEN <<failed, "CANCELLED">> ELSE <<"CANCELLED">>

(* A mutant of OnPaymentFailed: it forgets to announce the cancellation.   *)
OnPaymentFailedSilently(w, o) ==
  /\ status[o] \notin {Absent, "CANCELLED"}
  /\ Load(w, o, FailThenCancel(o, "PAYMENT_PENDING", "PAYMENT_FAILED"),
          NoEvent, "payment_failed")

OnPaymentFailed(w, o) ==
  /\ status[o] \notin {Absent, "CANCELLED"}
  /\ Load(w, o, FailThenCancel(o, "PAYMENT_PENDING", "PAYMENT_FAILED"),
          "order.cancelled", "payment_failed")

(* No stock was reserved, so this cancellation emits no event.             *)
OnInventoryFailed(w, o) ==
  /\ status[o] \notin {Absent, "CANCELLED"}
  /\ Load(w, o, FailThenCancel(o, "CREATED", "INVENTORY_FAILED"),
          NoEvent, "inventory_failed")

(* CancelOrderHandler: the owner cancels; anyone else gets 404.            *)
CustomerCancel(w, o) ==
  /\ status[o] # Absent
  /\ Load(w, o, <<"CANCELLED">>, "order.cancelled", NoStep)
-----------------------------------------------------------------------------
(* KnexOrderRepository.update: the row and the outbox event are written in *)
(* one transaction, on condition that the row still has the version that   *)
(* was loaded.  Without a matching row it throws ConflictError.            *)
WriteOrder(w) ==
  LET t == task[w] IN
  /\ t.pc = "update"
  /\ status'  = [status EXCEPT ![t.order] = t.to]
  /\ version' = [version EXCEPT ![t.order] = t.seen + t.hops]
  /\ outbox'  = IF t.event = NoEvent THEN outbox
                ELSE [outbox EXCEPT ![t.order] = Append(@, t.event)]
  /\ task'    = [task EXCEPT ![w] =
                   IF t.step = NoStep THEN Idle
                   ELSE [pc |-> "record", order |-> t.order, step |-> t.step]]
  /\ UNCHANGED <<keyOf, steps, answers>>

Update(w) ==
  /\ WriteOrder(w)
  /\ version[task[w].order] = task[w].seen

(* A mutant of Conflict: the error is swallowed and the step journalled.   *)
ConflictSwallowed(w) ==
  LET t == task[w] IN
  /\ t.pc = "update" /\ t.step # NoStep
  /\ version[t.order] # t.seen
  /\ task' = [task EXCEPT ![w] = [pc |-> "record", order |-> t.order, step |-> t.step]]
  /\ UNCHANGED <<row, steps, answers>>

Conflict(w) ==
  /\ task[w].pc = "update"
  /\ version[task[w].order] # task[w].seen
  /\ task' = [task EXCEPT ![w] = Idle]
  /\ UNCHANGED <<row, steps, answers>>

(* KnexSagaStepRepository.record: an upsert that counts repetitions.       *)
RecordStep(w) ==
  /\ task[w].pc = "record"
  /\ steps' = [steps EXCEPT ![task[w].order][task[w].step] = @ + 1]
  /\ task' = [task EXCEPT ![w] = Idle]
  /\ UNCHANGED <<row, answers>>

(* The replica dies, or a statement fails: what was in flight is gone, and *)
(* the environment may deliver the message or send the request again.      *)
Crash(w) ==
  /\ task[w] # Idle
  /\ task' = [task EXCEPT ![w] = Idle]
  /\ UNCHANGED <<row, steps, answers>>
-----------------------------------------------------------------------------
Deliver(w, o) ==
  \/ OnInventoryReserved(w, o)
  \/ OnPaymentCompleted(w, o)
  \/ OnPaymentFailed(w, o)
  \/ OnInventoryFailed(w, o)
  \/ CustomerCancel(w, o)

Create(w) ==
  \/ \E k \in Keys : CreateMisses(w, k) \/ \E o \in Orders : CreateFinds(w, k, o)
  \/ \E o \in Orders : Save(w, o)
  \/ SaveViolatesUnique(w)

Finish(w) == Update(w) \/ Conflict(w) \/ RecordStep(w)

Next ==
  \E w \in Workers :
     \/ Create(w)
     \/ \E o \in Orders : Deliver(w, o)
     \/ Finish(w)
     \/ Crash(w)

Spec == Init /\ [][Next]_vars
-----------------------------------------------------------------------------
Events == {"order.created", "order.confirmed", "order.cancelled"}

Task ==
  {Idle}
  \cup [pc : {"save"}, key : Keys]
  \cup [pc : {"update"}, order : Orders, seen : Nat, from : Statuses, to : Statuses,
        hops : {1, 2}, event : Events \cup {NoEvent}, step : Steps \cup {NoStep}]
  \cup [pc : {"record"}, order : Orders, step : Steps]

(* Every variable has the type its column or field has in the code.        *)
TypeOK ==
  /\ status  \in [Orders -> Statuses \cup {Absent}]
  /\ version \in [Orders -> Nat]
  /\ keyOf   \in [Orders -> Keys \cup {NoKey}]
  /\ outbox  \in [Orders -> Seq(Events)]
  /\ steps   \in [Orders -> [Steps -> Nat]]
  /\ answers \in [Keys -> SUBSET Orders]
  /\ task    \in [Workers -> Task]

(* Optimistic locking is sound: a handler whose loaded version is still    *)
(* the row's version decided on the row's status, however many other       *)
(* handlers wrote since it loaded, and although one write may move the     *)
(* version by two (Order._initialVersion, KnexOrderRepository.update).     *)
SnapshotCurrent ==
  \A w \in Workers :
     LET t == task[w] IN
     t.pc = "update" =>
       /\ t.seen <= version[t.order]
       /\ t.seen = version[t.order] => t.from = status[t.order]

(* The outbox tells the order's story, neither losing nor inventing an     *)
(* event (ADR-002): an order announces its creation once, its confirmation *)
(* exactly when it is confirmed, its cancellation at most once and only    *)
(* when it is cancelled, and never both outcomes.                          *)
OutboxTellsStatus ==
  \A o \in Orders :
     /\ status[o] = Absent <=> outbox[o] = <<>>
     /\ status[o] \in {"CREATED", "PAYMENT_PENDING"} => outbox[o] = <<"order.created">>
     /\ status[o] = "CONFIRMED" => outbox[o] = <<"order.created", "order.confirmed">>
     /\ status[o] = "CANCELLED" =>
          outbox[o] \in { <<"order.created">>, <<"order.created", "order.cancelled">> }

(* The version counts the transitions the order made, none lost and none   *)
(* counted twice.  Hence a cancelled order shows how it was cancelled: at  *)
(* version 3 by inventory.failed, the only way that announces nothing; at  *)
(* 2 by the customer or a payment failure that overtook the reservation;   *)
(* at 5 by a payment failure after it.                                     *)
VersionCountsHops ==
  \A o \in Orders :
     /\ status[o] = Absent => version[o] = 0
     /\ status[o] = "CREATED" => version[o] = 1
     /\ status[o] = "PAYMENT_PENDING" => version[o] = 3
     /\ status[o] = "CONFIRMED" => version[o] = 4
     /\ status[o] = "CANCELLED" =>
          /\ version[o] \in {2, 3, 5}
          /\ version[o] = 3 <=> outbox[o] = <<"order.created">>

(* The saga journal never contradicts the order: a step is recorded at     *)
(* most once for all redeliveries, only if the order took it, and an order *)
(* has at most one of the three closing steps.  (A step may be missing:    *)
(* the process can die between the commit and the record.)                 *)
JournalAgrees ==
  \A o \in Orders :
     LET recorded == {s \in Steps : steps[o][s] > 0} IN
     /\ \A s \in Steps : steps[o][s] <= 1
     /\ "inventory_reserved" \in recorded => status[o] \notin {Absent, "CREATED"}
     /\ "payment_completed" \in recorded => status[o] = "CONFIRMED"
     /\ recorded \cap {"payment_failed", "inventory_failed"} # {} => status[o] = "CANCELLED"
     /\ ~ {"payment_failed", "inventory_failed"} \subseteq recorded
     /\ ~ {"inventory_reserved", "inventory_failed"} \subseteq recorded

(* What the handlers can have in flight: each loaded one of the two open   *)
(* statuses, and its move, event and saga step belong together.            *)
Plans ==
  LET Plan(from, to, hops, event, step) ==
        [from |-> from, to |-> to, hops |-> hops, event |-> event, step |-> step]
  IN { Plan("CREATED", "PAYMENT_PENDING", 2, NoEvent, "inventory_reserved"),
       Plan("CREATED", "CANCELLED", 1, "order.cancelled", NoStep),
       Plan("CREATED", "CANCELLED", 1, "order.cancelled", "payment_failed"),
       Plan("CREATED", "CANCELLED", 2, NoEvent, "inventory_failed"),
       Plan("PAYMENT_PENDING", "CONFIRMED", 1, "order.confirmed", "payment_completed"),
       Plan("PAYMENT_PENDING", "CANCELLED", 2, "order.cancelled", "payment_failed") }

PlansLegal ==
  \A w \in Workers :
     LET t == task[w] IN
     t.pc = "update" =>
       [from |-> t.from, to |-> t.to, hops |-> t.hops, event |-> t.event, step |-> t.step]
         \in Plans

(* Of the eight statuses only four are ever stored: the two that stand for *)
(* a reservation just made or failed are passed through in memory, and     *)
(* nothing expires an order.                                               *)
FourStatuses ==
  \A o \in Orders :
     status[o] \in {Absent, "CREATED", "PAYMENT_PENDING", "CONFIRMED", "CANCELLED"}

(* Retried and concurrent create requests with one idempotency key are all *)
(* answered with the same order, although the lookup and the insert are    *)
(* separate statements (CreateOrderHandler: "critical for payment systems  *)
(* where network retries could otherwise result in duplicate charges").    *)
OneOrderPerKey == \A k \in Keys : \A o, p \in answers[k] : o = p

(* An order has a key exactly when it has a row, no two have the same, and *)
(* the answers given for a key name the order that has it.                 *)
KeysAgree ==
  /\ \A o \in Orders : keyOf[o] = NoKey <=> status[o] = Absent
  /\ \A o, p \in Orders : keyOf[o] = keyOf[p] /\ keyOf[o] # NoKey => o = p
  /\ \A k \in Keys : \A o \in answers[k] : keyOf[o] = k

(* The inductive invariant behind the properties above, except the journal *)
(* (OrderServiceProofs).                                                   *)
IInv ==
  /\ TypeOK
  /\ FourStatuses
  /\ PlansLegal
  /\ SnapshotCurrent
  /\ OutboxTellsStatus
  /\ VersionCountsHops
  /\ KeysAgree

(* The saga steps an order has taken, journalled or about to be.           *)
Recording(w, o, s) == task[w].pc = "record" /\ task[w].order = o /\ task[w].step = s
Took(o) == {s \in Steps : steps[o][s] > 0 \/ \E w \in Workers : Recording(w, o, s)}

(* A step that a worker is about to record is not recorded, nor about to   *)
(* be recorded by another worker.                                          *)
RecordedOnce ==
  \A o \in Orders, s \in Steps :
     /\ steps[o][s] <= 1
     /\ \A w \in Workers : Recording(w, o, s) =>
          steps[o][s] = 0 /\ \A v \in Workers : Recording(v, o, s) => v = w

(* The steps of an order are those on its way to its status.               *)
StepsOfStatus ==
  \A o \in Orders :
     /\ status[o] \in {Absent, "CREATED"} => Took(o) = {}
     /\ status[o] = "PAYMENT_PENDING" => Took(o) \subseteq {"inventory_reserved"}
     /\ status[o] = "CONFIRMED" => Took(o) \subseteq {"inventory_reserved", "payment_completed"}
     /\ status[o] = "CANCELLED" =>
          \/ Took(o) \subseteq {"inventory_reserved", "payment_failed"}
          \/ Took(o) \subseteq {"inventory_failed"}

(* The inductive invariant, on top of IInv, behind JournalAgrees.          *)
JournalSound == RecordedOnce /\ StepsOfStatus

(* A confirmed or cancelled order never changes again: CANCELLED ->        *)
(* CONFIRMED is the impossible transition OrderStatus.ts names.            *)
TerminalIsFinal ==
  [][\A o \in Orders :
       status[o] # Absent /\ IsTerminal(status[o]) => status'[o] = status[o]]_vars

(* The service implements the abstract order life cycle.                   *)
Lifecycle == INSTANCE OrderLifecycle WITH announced <- outbox
ImplementsLifecycle == Lifecycle!Spec
=============================================================================
