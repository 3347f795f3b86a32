------------------------------ MODULE Payment ------------------------------
(***************************************************************************)
(* The payment service: its payments, payment_events and refunds tables,   *)
(* and the charges, webhooks and refunds that are in flight on all its     *)
(* replicas.                                                               *)
(*                                                                         *)
(* An operation loads a payment, takes it through one or two transitions   *)
(* in memory, where the entity records an event for each, and writes row   *)
(* and events back in one transaction, on condition that the row still has *)
(* the version that was loaded.  A charge and a refund talk to the gateway *)
(* in between, for as long as it takes.                                    *)
(*                                                                         *)
(* The gateway honours its idempotency keys.  Its webhooks may come at any *)
(* time, any number of times; one that reports a success tells the truth,  *)
(* one that reports a failure may be about an attempt that was retried.  A *)
(* request that is refused, or finds nothing to do, changes nothing and    *)
(* has no action here.                                                     *)
(***************************************************************************)
EXTENDS Naturals, Sequences, FiniteSets

CONSTANTS
  Orders,        (* a payment is named by its order: order_id is unique      *)
  Keys,          (* idempotency keys of charges; the saga's is one per order *)
  RefundKeys,    (* idempotency keys of the refunds of one payment           *)
  Workers        (* requests and deliveries that can be in flight at once    *)

Absent == "absent"       (* status of an order without a payment *)
NoKey  == "no key"

ASSUME PaymentAssumption == NoKey \notin Keys

Transitions ==
  [ PENDING        |-> {"PROCESSING", "FAILED"},
    PROCESSING     |-> {"COMPLETED", "FAILED"},
    COMPLETED      |-> {"REFUND_PENDING"},
    REFUND_PENDING |-> {"REFUNDED", "COMPLETED"},
    FAILED         |-> {},
    REFUNDED       |-> {} ]

Statuses == DOMAIN Transitions

(* The transitions along path, from status s, are allowed one by one.      *)
Allowed(s, path) ==
  \A i \in DOMAIN path : path[i] \in Transitions[IF i = 1 THEN s ELSE path[i - 1]]

VARIABLES
  status,      (* payments.status, by order                                  *)
  version,     (* payments.version                                           *)
  keyOf,       (* payments.idempotency_key                                   *)
  timeline,    (* the to_status of the payment's payment_events, in order    *)
  refunds,     (* the idempotency_key of the payment's rows in refunds       *)
  charges,     (* history: how often the gateway charged for the order       *)
  paidBack,    (* history: the keys under which the gateway refunded it      *)
  answers,     (* history: the orders whose payment was returned for a key   *)
  task         (* what each worker is doing, with what it loaded             *)

row     == <<status, version, timeline>>
gateway == <<charges, paidBack>>
vars    == <<status, version, keyOf, timeline, refunds, charges, paidBack, answers, task>>

Idle == [pc |-> "idle"]

Init ==
  /\ status   = [o \in Orders |-> Absent]
  /\ version  = [o \in Orders |-> 0]
  /\ keyOf    = [o \in Orders |-> NoKey]
  /\ timeline = [o \in Orders |-> <<>>]
  /\ refunds  = [o \in Orders |-> {}]
  /\ charges  = [o \in Orders |-> 0]
  /\ paidBack = [o \in Orders |-> {}]
  /\ answers  = [k \in Keys |-> {}]
  /\ task     = [w \in Workers |-> Idle]

Becomes(w, t) == task' = [task EXCEPT ![w] = t]
At(w, pc)     == task[w].pc = pc
-----------------------------------------------------------------------------
(* Payment.transitionTo along path, on a payment that was loaded with a    *)
(* status and a version: it throws unless the table allows each step.  The *)
(* update is then under way, and afterwards the worker goes on with next.  *)
Prepare(w, o, seen, from, path, next) ==
  /\ Allowed(from, path)
  /\ Becomes(w, [pc |-> "write", order |-> o, seen |-> seen, from |-> from,
                 path |-> path, next |-> next])

(* KnexPaymentRepository.update: the row and its events.                   *)
WritePayment(w) ==
  LET t == task[w] IN
  /\ At(w, "write")
  /\ status'   = [status EXCEPT ![t.order] = t.path[Len(t.path)]]
  /\ version'  = [version EXCEPT ![t.order] = t.seen + Len(t.path)]
  /\ timeline' = [timeline EXCEPT ![t.order] = @ \o t.path]
  /\ Becomes(w, t.next)
  /\ UNCHANGED <<keyOf, refunds, gateway, answers>>

(* A mutant of Update: a write counts as one, however many events it has.  *)
UpdateCountsOnce(w) ==
  LET t == task[w] IN
  /\ At(w, "write") /\ version[t.order] = t.seen
  /\ status'   = [status EXCEPT ![t.order] = t.path[Len(t.path)]]
  /\ version'  = [version EXCEPT ![t.order] = t.seen + 1]
  /\ timeline' = [timeline EXCEPT ![t.order] = @ \o t.path]
  /\ Becomes(w, t.next)
  /\ UNCHANGED <<keyOf, refunds, gateway, answers>>

Update(w) ==
  /\ WritePayment(w)
  /\ version[task[w].order] = task[w].seen

(* ConflictError.  In a charge it is caught, but the payment in memory is  *)
(* already final and markFailed throws in its turn.                        *)
Conflict(w) ==
  /\ At(w, "write")
  /\ version[task[w].order] # task[w].seen
  /\ Becomes(w, Idle)
  /\ UNCHANGED <<row, keyOf, refunds, gateway, answers>>
-----------------------------------------------------------------------------
(* ProcessPaymentHandler.execute, for a key and an order.                  *)

Finds(w, k, o) ==
  /\ At(w, "idle")
  /\ keyOf[o] = k
  /\ answers' = [answers EXCEPT ![k] = @ \cup {o}]
  /\ UNCHANGED <<row, keyOf, refunds, gateway, task>>

KeyIsFree(k) == \A o \in Orders : keyOf[o] # k

Misses(w, k, o) ==
  /\ At(w, "idle")
  /\ KeyIsFree(k)
  /\ Becomes(w, [pc |-> "save", order |-> o, key |-> k])
  /\ UNCHANGED <<row, keyOf, refunds, gateway, answers>>

(* The insert, and markProcessing on the row it returns.                   *)
InsertPayment(w) ==
  LET o == task[w].order
      k == task[w].key
  IN
  /\ At(w, "save")
  /\ status'  = [status EXCEPT ![o] = "PENDING"]
  /\ version' = [version EXCEPT ![o] = 1]
  /\ keyOf'   = [keyOf EXCEPT ![o] = k]
  /\ Prepare(w, o, 1, "PENDING", <<"PROCESSING">>, [pc |-> "charge", order |-> o, key |-> k])
  /\ UNCHANGED <<timeline, refunds, gateway, answers>>

(* A mutant of Save: order_id is not unique.                               *)
SaveAgain(w) == InsertPayment(w) /\ KeyIsFree(task[w].key)

Save(w) ==
  /\ InsertPayment(w)
  /\ status[task[w].order] = Absent
  /\ KeyIsFree(task[w].key)

SaveViolatesUnique(w) ==
  /\ At(w, "save")
  /\ status[task[w].order] # Absent \/ ~ KeyIsFree(task[w].key)
  /\ Becomes(w, Idle)
  /\ UNCHANGED <<row, keyOf, refunds, gateway, answers>>

(* The gateway charges; its answer is on the way.                          *)
Charge(w) ==
  LET t == task[w] IN
  /\ At(w, "charge")
  /\ charges' = [charges EXCEPT ![t.order] = @ + 1]
  /\ Becomes(w, [pc |-> "charged", order |-> t.order, key |-> t.key])
  /\ UNCHANGED <<row, keyOf, refunds, paidBack, answers>>

(* A mutant of ChargeEnds: a charge without an answer counts as a success. *)
ChargeEndsUnanswered(w) ==
  LET t == task[w] IN
  /\ At(w, "charge") \/ At(w, "charged")
  /\ \E to \in {"COMPLETED", "FAILED"} :
       Prepare(w, t.order, 2, "PROCESSING", <<to>>,
               [pc |-> "answer", order |-> t.order, key |-> t.key])
  /\ UNCHANGED <<row, keyOf, refunds, gateway, answers>>

(* What came of the charge, through retries and breaker: a success, or a   *)
(* failure, which after timeouts may be wrong.                             *)
ChargeEnds(w) ==
  LET t == task[w] IN
  /\ \/ At(w, "charge")
     \/ At(w, "charged")
  /\ \E to \in {"COMPLETED", "FAILED"} :
       /\ to = "COMPLETED" => At(w, "charged")
       /\ Prepare(w, t.order, 2, "PROCESSING", <<to>>,
                  [pc |-> "answer", order |-> t.order, key |-> t.key])
  /\ UNCHANGED <<row, keyOf, refunds, gateway, answers>>

(* The handler returns the payment to its caller.                          *)
Answer(w) ==
  /\ At(w, "answer")
  /\ answers' = [answers EXCEPT ![task[w].key] = @ \cup {task[w].order}]
  /\ Becomes(w, Idle)
  /\ UNCHANGED <<row, keyOf, refunds, gateway>>
-----------------------------------------------------------------------------
(* ProcessWebhookHandler.execute: only a PROCESSING payment is advanced.   *)
Webhook(w, o, to) ==
  /\ At(w, "idle")
  /\ status[o] = "PROCESSING"
  /\ to = "COMPLETED" => charges[o] > 0
  /\ Prepare(w, o, version[o], status[o], <<to>>, Idle)
  /\ UNCHANGED <<row, keyOf, refunds, gateway, answers>>
-----------------------------------------------------------------------------
(* RefundHandler.execute.  A key that has a refund is answered with it.  A *)
(* client uses a key for one payment only, and a COMPLETED payment has no  *)
(* refund: whether the key or the payment is read first does not matter.   *)
RefundOf(w, k, o) ==
  /\ At(w, "idle")
  /\ k \notin refunds[o]
  /\ Becomes(w, [pc |-> "refund", order |-> o, key |-> k, seen |-> version[o]])
  /\ UNCHANGED <<row, keyOf, refunds, gateway, answers>>

(* A mutant of RefundBegins: any settled payment can be refunded.          *)
RefundBeginsSettled(w, k, o) == RefundOf(w, k, o) /\ status[o] \in {"COMPLETED", "FAILED"}

RefundBegins(w, k, o) == RefundOf(w, k, o) /\ status[o] = "COMPLETED"

(* The gateway pays back, at most once for a key.                          *)
PaysBack(w) ==
  LET t == task[w] IN
  /\ At(w, "refund")
  /\ paidBack' = [paidBack EXCEPT ![t.order] = @ \cup {t.key}]
  /\ Becomes(w, [pc |-> "refunded", order |-> t.order, key |-> t.key, seen |-> t.seen])
  /\ UNCHANGED <<row, keyOf, refunds, charges, answers>>

(* The gateway's answer: confirmed, or an error, with which the request    *)
(* ends and the payment is left as it was.                                 *)
RefundConfirmed(w) ==
  LET t == task[w] IN
  /\ At(w, "refunded")
  /\ Prepare(w, t.order, t.seen, "COMPLETED", <<"REFUND_PENDING", "REFUNDED">>,
             [pc |-> "record", order |-> t.order, key |-> t.key])
  /\ UNCHANGED <<row, keyOf, refunds, gateway, answers>>

RefundFails(w) ==
  /\ At(w, "refund") \/ At(w, "refunded")
  /\ Becomes(w, Idle)
  /\ UNCHANGED <<row, keyOf, refunds, gateway, answers>>

(* KnexRefundRepository.save.                                              *)
RecordRefund(w) ==
  LET t == task[w] IN
  /\ At(w, "record")
  /\ t.key \notin refunds[t.order]
  /\ refunds' = [refunds EXCEPT ![t.order] = @ \cup {t.key}]
  /\ Becomes(w, Idle)
  /\ UNCHANGED <<row, keyOf, gateway, answers>>

(* The process dies, or a statement fails.                                 *)
Crash(w) ==
  /\ ~ At(w, "idle")
  /\ Becomes(w, Idle)
  /\ UNCHANGED <<row, keyOf, refunds, gateway, answers>>
-----------------------------------------------------------------------------
Request(w) ==
  \/ \E k \in Keys, o \in Orders : Finds(w, k, o) \/ Misses(w, k, o)
  \/ \E o \in Orders, to \in {"COMPLETED", "FAILED"} : Webhook(w, o, to)
  \/ \E k \in RefundKeys, o \in Orders : RefundBegins(w, k, o)

Proceed(w) ==
  \/ Save(w) \/ SaveViolatesUnique(w)
  \/ Update(w) \/ Conflict(w)
  \/ Charge(w) \/ ChargeEnds(w) \/ Answer(w)
  \/ PaysBack(w) \/ RefundConfirmed(w) \/ RefundFails(w) \/ RecordRefund(w)

Next == \E w \in Workers : Request(w) \/ Proceed(w) \/ Crash(w)

Spec == Init /\ [][Next]_vars
-----------------------------------------------------------------------------
Tasks ==
  LET After == {Idle} \cup [pc : {"charge", "answer"}, order : Orders, key : Keys]
                     \cup [pc : {"record"}, order : Orders, key : RefundKeys]
  IN
  {Idle}
  \cup [pc : {"save", "charge", "charged", "answer"}, order : Orders, key : Keys]
  \cup [pc : {"write"}, order : Orders, seen : 1..3, from : Statuses,
        path : Seq(Statuses), next : After]
  \cup [pc : {"refund", "refunded"}, order : Orders, key : RefundKeys, seen : {3}]
  \cup [pc : {"record"}, order : Orders, key : RefundKeys]

(* Types.  A refund starts from version 3, and no payment ever has more    *)
(* than four events.                                                       *)
TypeOK ==
  /\ status   \in [Orders -> Statuses \cup {Absent}]
  /\ version  \in [Orders -> 0..5]
  /\ keyOf    \in [Orders -> Keys \cup {NoKey}]
  /\ timeline \in [Orders -> Seq(Statuses)]
  /\ \A o \in Orders : Len(timeline[o]) <= 4
  /\ refunds  \in [Orders -> SUBSET RefundKeys]
  /\ charges  \in [Orders -> Nat]
  /\ paidBack \in [Orders -> SUBSET RefundKeys]
  /\ answers  \in [Keys -> SUBSET Orders]
  /\ task     \in [Workers -> Tasks]

(* The lock of KnexPaymentRepository.update is sound: a write whose version*)
(* still matches was decided on the status the row has now, although a     *)
(* COMPLETED and a FAILED payment have the same version.                   *)
SeenCurrent ==
  \A w \in Workers :
    At(w, "write") /\ version[task[w].order] = task[w].seen =>
      status[task[w].order] = task[w].from

(* "a payment's full timeline can be reconstructed" (Payment.ts): the      *)
(* events of a payment lead from PENDING to its status by transitions the  *)
(* table allows, and its version counts them.                              *)
TimelineReplays ==
  \A o \in Orders :
    LET path == timeline[o] IN
    status[o] # Absent =>
      /\ Allowed("PENDING", path)
      /\ status[o] = IF path = <<>> THEN "PENDING" ELSE path[Len(path)]
      /\ version[o] = 1 + Len(path)

(* Whatever keys an order is paid with, by the saga and over HTTP at once, *)
(* the gateway charges for it at most once.                                *)
ChargedOnce == \A o \in Orders : charges[o] <= 1

(* "a duplicate idempotency key returns the existing payment"              *)
(* (ProcessPaymentHandler.ts): all answers to a key name one payment.      *)
OnePaymentPerKey == \A k \in Keys : \A o, p \in answers[k] : o = p

(* Money stands behind each status: COMPLETED and REFUNDED payments were   *)
(* charged, only charged ones are paid back, and REFUNDED ones were.       *)
MoneyBacksStatus ==
  \A o \in Orders :
    /\ status[o] \in {"COMPLETED", "REFUNDED"} \/ paidBack[o] # {} => charges[o] = 1
    /\ status[o] = "REFUNDED" => paidBack[o] # {}

(* Of any number of racing refunds of a payment one is recorded, one the   *)
(* gateway paid, and none while the payment is not REFUNDED.               *)
RefundRecordedOnce ==
  \A o \in Orders :
    /\ refunds[o] \subseteq paidBack[o]
    /\ \A j, k \in refunds[o] : j = k
    /\ refunds[o] # {} => status[o] = "REFUNDED"

(* Duplicate, late and contradicting answers and webhooks never move a     *)
(* payment back, out of a terminal status, or past PROCESSING.             *)
StatusMoves ==
  [][\A o \in Orders :
       status'[o] # status[o] =>
         <<status[o], status'[o]>> \in
           {<<Absent, "PENDING">>, <<"PENDING", "PROCESSING">>,
            <<"PROCESSING", "COMPLETED">>, <<"PROCESSING", "FAILED">>,
            <<"COMPLETED", "REFUNDED">>}]_vars
(* The service implements the ledger of payments: whatever requests,       *)
(* webhooks, refunds and lost answers do to one another, each payment is   *)
(* begun, charged, settled and marked refunded at most once, in that order.*)
Stage(o) ==
  CASE status[o] = Absent    -> "none"
    [] status[o] = "PENDING" -> "PROCESSING"
    [] OTHER                 -> status[o]

Ledger == INSTANCE PaymentLedger WITH payment <- [o \in Orders |-> Stage(o)]
ImplementsLedger == Ledger!Spec
-----------------------------------------------------------------------------
(* The strengthening that is inductive: what each status says of the other *)
(* tables, and what each task says of its payment.                         *)

Story(o) ==
  /\ \/ status[o] = Absent /\ version[o] = 0 /\ timeline[o] = <<>> /\ charges[o] = 0
     \/ status[o] = "PENDING" /\ version[o] = 1 /\ timeline[o] = <<>> /\ charges[o] = 0
     \/ status[o] = "PROCESSING" /\ version[o] = 2 /\ timeline[o] = <<"PROCESSING">>
     \/ /\ status[o] = "COMPLETED" /\ version[o] = 3 /\ charges[o] = 1
        /\ timeline[o] = <<"PROCESSING", "COMPLETED">>
     \/ /\ status[o] = "FAILED" /\ version[o] = 3
        /\ timeline[o] = <<"PROCESSING", "FAILED">>
     \/ /\ status[o] = "REFUNDED" /\ version[o] = 5 /\ charges[o] = 1 /\ paidBack[o] # {}
        /\ timeline[o] = <<"PROCESSING", "COMPLETED", "REFUND_PENDING", "REFUNDED">>
  /\ charges[o] \in {0, 1}
  /\ keyOf[o] = NoKey <=> status[o] = Absent
  /\ paidBack[o] # {} => status[o] \in {"COMPLETED", "REFUNDED"}
  /\ refunds[o] # {} => status[o] = "REFUNDED"
  /\ refunds[o] \subseteq paidBack[o]
  /\ \A j, k \in refunds[o] : j = k

(* A task that is to begin the charge of o; one that is to record a refund.*)
ToCharge(t, o) ==
  \/ t.pc = "charge" /\ t.order = o
  \/ t.pc = "write" /\ t.order = o /\ t.from = "PENDING"

ToRecord(t, o) == t.pc = "record" /\ t.order = o

Fits(t) ==
  LET o == t.order
      Then(pc, k) == [pc |-> pc, order |-> o, key |-> k]
  IN
  /\ t.pc \in {"charge", "charged", "answer"} => keyOf[o] = t.key
  /\ t.pc = "charge" => version[o] >= 2 /\ charges[o] = 0
  /\ t.pc = "charged" => version[o] >= 2 /\ charges[o] = 1
  /\ t.pc \in {"refund", "refunded"} => status[o] \in {"COMPLETED", "REFUNDED"}
  /\ t.pc \in {"refunded", "record"} => t.key \in paidBack[o]
  /\ t.pc = "record" => status[o] = "REFUNDED" /\ refunds[o] = {}
  /\ t.pc = "write" =>
       \/ /\ t.seen = 1 /\ t.from = "PENDING" /\ t.path = <<"PROCESSING">>
          /\ t.next = Then("charge", keyOf[o])
          /\ status[o] # Absent /\ charges[o] = 0
       \/ /\ t.seen = 2 /\ t.from = "PROCESSING"
          /\ t.path \in {<<"COMPLETED">>, <<"FAILED">>}
          /\ t.path = <<"COMPLETED">> => charges[o] = 1
          /\ t.next = Idle \/ t.next = Then("answer", keyOf[o])
          /\ version[o] >= 2
       \/ /\ t.seen = 3 /\ t.from = "COMPLETED" /\ t.path = <<"REFUND_PENDING", "REFUNDED">>
          /\ \E k \in paidBack[o] : t.next = Then("record", k)
          /\ status[o] \in {"COMPLETED", "REFUNDED"}

(* One worker charges for an order, one records its refund.                *)
Alone ==
  \A o \in Orders, v, w \in Workers :
    /\ ToCharge(task[v], o) /\ ToCharge(task[w], o) => v = w
    /\ ToRecord(task[v], o) /\ ToRecord(task[w], o) => v = w

KeysDiffer == \A o, p \in Orders : keyOf[o] = keyOf[p] /\ keyOf[o] # NoKey => o = p

AnswersAgree == \A k \in Keys : \A o \in answers[k] : keyOf[o] = k

IInv ==
  /\ TypeOK
  /\ \A o \in Orders : Story(o)
  /\ KeysDiffer
  /\ \A w \in Workers : Fits(task[w])
  /\ Alone
  /\ AnswersAgree
-----------------------------------------------------------------------------
(* A statement of the code that it does not keep.                          *)

(* "Only completed payments can be refunded" (RefundHandler.ts): the money *)
(* of a payment goes back to the customer once.                            *)
PaidBackOnce == \A o \in Orders : Cardinality(paidBack[o]) <= 1
=============================================================================
