# NexusPay in TLA+

A specification of NexusPay: how an order, its stock and its money stay
consistent over three services with three databases and a message broker, and
what surrounds them: the life of a service process, the path of an HTTP
request, the way to the payment gateway, and what clients read back. TLC checks
the modules on small instances; TLAPS proves their invariants, their action
properties and the refinements for every value of the constants, everything but
liveness. `PROJECT.json` lists the runs, the source lines each definition stands for, the hazards and the
theorems.

## 1. The system

| Component | State it keeps | Operations | What is hard | What makes it correct |
|---|---|---|---|---|
| order service: orders | `orders`, `order_items`, `outbox_events`, `saga_steps` | create, cancel, four event handlers (`interfaces/messaging/eventHandlers.ts`) | a handler decides on an order it loaded earlier; two replicas; journal written after the commit; crash anywhere | optimistic locking is sound, one event per outcome, terminal is final, one order per idempotency key |
| order service: outbox relay | `outbox_events.published`, a running flag per replica | poll: fetch, publish with confirms, mark | two pollers without a row lock; lost confirms; crash between publish and mark | nothing lost, order of an order's events |
| inventory service | `inventory`, `reservations` | reserve, release, expiry sweep | row locks taken one by one; a sweep on each replica; refusal after some lines | never oversold, no unit lost, all lines or none, no deadlock |
| payment service | `payments`, `refunds`, `payment_events` | charge, webhook, refund | slow gateway call between two writes; redelivery meanwhile; webhook racing the answer | one charge per order, one recorded refund, a timeline that replays, legal status moves |
| circuit breaker, retry | state, failure count, opened-at per process | execute, retry | many calls in flight across state changes; retries inside a call; restart | opens for outages only, relieves the gateway, recovers |
| broker, consumers, publisher | queues, unacked messages, the process's channels | connect, deliver, ack, requeue, dead-letter | at-least-once, no order across queues or consumers; the channel closes under a handler | no message lost silently |
| service processes (all five) | what is open, what is still to be closed | start, SIGTERM, forced exit, restart | handlers and requests still running while things are closed; a signal while connecting; a close that fails | nothing acknowledged unhandled, nothing dead-lettered for a shutdown, ends |
| HTTP edge: metrics, rate limiter, idempotency | Redis keys and sorted sets; gauge, counter, histogram | arrive, limit, look up, handle, store, finish, close | check and act are not atomic; Redis fails at any call; the client leaves; a store nobody awaits | an answered success is one, limit kept, metrics agree |
| notification service | Redis keys per event | claim, render, send | claim before send; fails open | at most one mail per event |
| audit service, order queries | `audit_events`, `orders` | append, page by offset or cursor | pages while rows are committed, equal timestamps | every event once, no row skipped |
| money | an order's price, columns, event | round, multiply | rounded per unit in one place, in the total in another | totals agree |

The services share nothing but the broker. An order travels like this
(`packages/shared/src/messaging/topology.ts`): `order.created` goes to the
inventory service, which reserves and publishes `inventory.reserved` or
`inventory.failed`; `inventory.reserved` goes to the payment service *and* to
the order service, through two queues; `payment.completed` and
`payment.failed` go to the order service; `order.cancelled` goes back to the
inventory service. Only the order service publishes through an outbox; the
other two publish from the handler, after their commit and before the ack.
`k8s/base` runs two replicas of the three core services, and each consumer
prefetches ten messages, so a queue imposes no order.

## 2. The modules

```
OrderStatus      the transition table
OrderLifecycle   what the order service promises     <-- OrderService implements it
StockLedger      what the inventory service promises <-- Inventory implements it
PaymentLedger    what the payment service promises   <-- Payment implements it,
                                                         the payments in Saga keep to it
EventRelay       what the outbox promises            <-- Outbox implements it
OrderService     requests, handlers, optimistic writes, outbox rows, journal
Outbox           the pollers of all replicas over one outbox
Inventory        row-locking transactions of requests and sweeps
Payment          charges, webhooks and refunds over one payments table
Saga             OrderLifecycle + StockLedger + EventRelay + payments + queues
CircuitBreaker   breaker and retry loop over calls in flight
ServiceProcess   one process of any service: start, consume, shut down, restart
HttpEdge         metrics, limiter, idempotency, handler of concurrent requests
Reads            pages over arriving rows, and an order's amounts
MC*              constants for TLC
*Proofs          theorems and proofs about the module they extend
                 (PaymentProofs: Payment and CircuitBreaker)
```

### OrderStatus, OrderLifecycle, OrderService

`OrderService` keeps `status`, `version`, `keyOf` and `outbox` (the columns of
an order and its outbox rows), `steps` (saga_steps, a count per step), and
`task`, what each request or delivery in flight loaded and intends to write.
`Load` is the read and the decision (`findById`, the status tests, the
`transitionTo` chain); `Update` or `Conflict` is the conditional write with
its outbox row (`KnexOrderRepository.update`); `RecordStep` is the journal
upsert; `Crash` forgets the task at any point. A handler that returns early
changes nothing and is a stuttering step. `CreateFinds`, `CreateMisses`,
`Save` and `SaveViolatesUnique` are `CreateOrderHandler.execute`, with the
lookup and the insert apart. The environment may deliver any of the four
events for any order, at any time and any number of times: `Saga` shows that
the senders do contradict each other.

`OrderLifecycle` says the same of one order in five indivisible steps. The
refinement mapping is the identity on `status` and takes the outbox rows for
the announcements.

### StockLedger, Inventory

`Inventory` keeps both tables, the holder of each inventory row lock, and the
transaction of each process with the lines it has left and the units it has
moved but not committed. `Take` is one turn of the loop (lock, test, move),
`Refuse` the exception that rolls back, `Commit` and `Crash` the ends.
Reservations go through their lines in SKU order; `release` and
`releaseExpired` go through theirs in any order, since their SELECT has no
ORDER BY. Locking the reservation rows is one step. `due` holds the orders
past `expires_at`; a sweep takes what is due and ACTIVE.

`StockLedger` has one state per order and makes or ends whole reservations in
one step, as long as the orders holding stock fit in what there is. The
mapping reads an order's state off any of its rows; that it implements the
ledger is therefore also the proof that rows never disagree visibly.

### EventRelay, Outbox

A row is the rank of its `created_at`; `owner` says whose it is, `visible`
which are committed. Rows become visible out of order across orders, never
within one, because the update that writes the later event loaded the row
that committed the earlier one (`OrderService` is where this is shown). A
poller fetches, publishes row by row, and marks. `channel` is a replica's one
confirm channel, made when it starts: not there (`startMessaging` has not
connected, and the replica does not poll), open, or closed by the broker. A
publish may be nacked with or without the broker having the message
(`PublishFails`); on a closed channel it throws, in every poll from then on
(`PublishRefused`); the update may fail (`MarkFails`); `Restarts` is a crash or
the operator's restart, the only way to a new channel.

`EventRelay` counts, for each order, the events that are committed and the
number of the youngest that the broker has; both move on by one at a time. It
is the relay of `Saga`. In `Outbox` the first count is the visible rows of the
order, the second its rows that are no younger than one the broker has, so a
row that overtakes an earlier one makes it jump. Publishing a row again is
nothing new to it.

### PaymentLedger, Payment

`status`, `version`, `keyOf` are columns of `payments`, `timeline` the
`to_status` of a payment's `payment_events` in order, `refunds` the keys of its
refund rows; `charges` and `paidBack` are what the gateway did, `answers` what
callers were told. `Prepare` is the entity's chain of transitions in memory,
`Update` or `Conflict` the conditional write with its events. A charge is
`Misses`, `Save` (the insert and `markProcessing`), `Update`, `Charge` (the
gateway acts), `ChargeEnds` (its answer, or an error that after timeouts may
be wrong), `Update`, `Answer`. `Webhook` decides on what it loads and goes
through the same `Update`. A refund is `RefundBegins`, `PaysBack`,
`RefundConfirmed` (two transitions for one update) or `RefundFails`, `Update`,
`RecordRefund`. `Crash` forgets a task anywhere. The gateway honours its
idempotency keys, and a success it reports by webhook did happen; a client
uses a refund key for one payment.

`PaymentLedger` has one state, one count of charges and one set of paid refund
keys per order: a payment begins once, is charged at most once (perhaps after
a webhook has called it a failure), is settled once, as completed only with a
charge, and is paid back only when it was completed. `Stage` reads that state
off `status`: no payment, `PROCESSING` for PENDING and PROCESSING (both not yet
settled), and REFUND_PENDING never seen, since a refund's two transitions are
one update. That `PayBack` may happen twice under two keys is what
`payment_refunds_twice` is about.

### Saga

`Saga` is built on the abstract specifications: the moves of the order, of the
stock and of the relay are *their* actions, so what the composition shows holds
for the detailed services as far as the refinements go. It adds payments with
steps of their own, which keep to `PaymentLedger` (`PaymentsKept`), the
gateway's charge as a span of time between two steps, and a bag of messages per
binding. While a charge is at the gateway (`charging`), its message is unacked;
when the channel closes under it (`ChannelCloses`), the broker delivers the
message again to a handler that runs beside the first one, finds the payment
PROCESSING and announces a failure (`PayIsKnown`), while the first call goes on
and can neither ack nor, perhaps, publish. A handler's database change, its publication and its ack are one step
unless something fails between them; `ReserveGoesWrong`, `PayGoesWrong`,
`HandlerFails` and the second disjunct of `Handled` are those failures, each
spending one of `MaxFaults`. A message carries the broker's redelivered flag,
because `Consumer` dead-letters a handler's second failure. Two consequences
of that choice: a version conflict between two order handlers, and two
first-time deliveries of one reservation racing to insert the payment, appear
as `HandlerFails`.

The gateway is the simulated one in `PaymentGatewayClient.ts`: it fails
before it charges, so its retries inside one call are one answer. A real
gateway is given the idempotency key by the same code.

### CircuitBreaker

One payment process with its one `CircuitBreaker`. `state`, `failureCount` and
`wait` (ticks left until `nextProbeAt`) are its fields, `call` what each gateway
call is doing. `Begin` is `execute` up to the await, with the change to HALF_OPEN;
`Succeeds`, `Declined` and `FailsForGood` are the rest of `execute` with
`onSuccess` or `onFailure` after it, at whatever state the breaker has by then.
`BacksOff` and `TriesAgain` are the loop of `retry`, which runs *inside* the
breaker's call for a charge and without any breaker for a refund. `Restart`
forgets everything. `leaked` is a history variable: the attempts of charges
since the breaker opened.

### ServiceProcess

One process of one of the five services, chosen in `Init`. `Server` says, from
each `server.ts` and `startMessaging.ts`, what is opened at the start, what the
shutdown closes before, with and after the messaging, and in which order;
`open` and `todo` are what is open and still to be closed. `Connect` and
`ConnectFails` end `startMessaging`, which nobody awaits; `Deliver`, `Claim`
(the notification guard's `SET NX`), `Apply`, `Ack` and `Nack` are `Consumer`
with a handler; a settlement on a closed channel throws and ends the process
(`Settles`). `Sigterm`, `CloseNext`, `CloseFails`, `Exit` and `Forced` are
`shutdown` with its timer. `HandledElsewhere` is another replica taking a
waiting message. Faults (a refused or lost connection, a failed statement or
Redis call, a lost claim, a crash) are bounded by `MaxFaults`. `history` notes
which messages met which misfortune, and the properties name their exceptions
with it.

### HttpEdge

The chain of `order-service/src/app.ts` for one replica and one user.
`request[r].pc` is the await a request is at: `limit` (Redis transaction of the
limiter), `lookup` (the idempotency key), `handle` (controller and handler),
`reply` (response handed over, `finish` to come). `Arrive` is metrics and
authentication, `Finish` the `finish` event; `close` comes after it (`Close`) or
before, when the client leaves and processing goes on (`Abort`), and `OnClose`
is its listener for both. `storing` holds the responses whose
`store.set` nobody awaits; `Stored` and `StoreFails` are its two ends, the
second ending the process. `cache`, `hits` and `clock` are Redis; `placed` and
`target` are what the handlers change, taken from `OrderService`.

### Reads

A table of `rows`, each with the timestamp of its transaction's start and
whether it has committed, and a client's `walk` over it: by `CursorOf` for
orders (a created_at cut to milliseconds by JavaScript's `Date`), by offset for
the audit log. `IsFirst` lets ties fall in any way, query by query. For an
order, `Columns` is what `save` computes from the request (unit price rounded,
total rounded, event from the unrounded price), `ShownTotal` what the responses
compute from the columns, `Charged` what the payment service takes, and
`Update` the total a later status change writes back.

## 3. The runs

| Run | Shows | Bounds |
|---|---|---|
| `order_service` | locking, outbox, journal, idempotency, refinement | 2 orders, 2 keys, 3 operations in flight: every race of three on one order, and of two creates on one key while a third handler runs. Versions and logs are bounded by the life cycle itself |
| `inventory` | stock, ledger, circles of waits | 3 orders over 2 SKUs with demand (1,1), (0,2), (1,0) and stock (2,2): o1 and o2 conflict, refusals after a first line happen, and a sweep over o2 and o3 can meet the reservation of o1 on both rows; 2 request transactions and the sweeps of 2 replicas |
| `outbox` | nothing lost, first publications in order, the saga's relay implemented, every event marked in the end | 3 rows of 2 orders, batches of 2, 2 pollers, 3 faults: batches that end inside an order, and overlap; both channels may close and one more thing fail |
| `saga` | goods against money, one charge, what customer and services are told, payments within their ledger | 2 orders for 1 unit, 2 faults |
| `saga_live` | orders leave CREATED, stock of cancelled orders comes back | 1 order, 1 fault: a repeated `order.created`, or an `inventory.reserved` that cannot be published |
| `payment` | timeline, one charge, money behind every status, one recorded refund, ledger | 2 orders, 2 keys, 2 refund keys, 3 operations in flight: two charges of one order and a webhook, two refunds and a late write, one key for two orders. Nothing needs a bound: a payment has at most four events |
| `circuit_breaker` | opens for outages only, relieves the gateway, recovers | 3 calls in flight, threshold 2, a wait of 2 ticks, 3 attempts: calls begun before an opening end while it is open, half-open and closed again, and may reach the threshold alone |
| `service_process` | what is acknowledged was handled, sent once, no dead letter for a shutdown; ends; settles what it can | every service, 2 messages, 2 faults: the acknowledgement of one can end the process with the other in hand; a message can fail and be interrupted. Restarts are not bounded |
| `http_edge` | successes are true, limit, Retry-After, metrics | 2 requests, 1 key, a window of 2 ticks with limit 1, a clock to 3, one finite bucket: requests with one key race or follow each other, both sides of the window's edge are met. Lost entries and failing calls are not bounded |
| `reads` | no row skipped, none repeated, totals agree | 4 rows, pages of 1 and 2 (a limit of 3 is clamped), 2 ticks per millisecond, clock to 3: ties inside and across milliseconds, and rows committed behind a page; prices of 0.4 cents, 33.4 cents twice (shown as 66, charged as 67) and 99 cents |
| `saga_stalls` | see below | 1 order, no fault |
| `payment_refunds_twice` | see below | as `payment` |

The bounds are constants of the modules: `MaxRows` and `MaxFaults` in
`Outbox`, `MaxFaults` in `Saga` and `ServiceProcess`, `MaxClock` in `HttpEdge`,
`MaxRows` and `MaxClock` in `Reads`. Two faults in the saga let one fault put a
copy of a message in the queue and a second one hit its handling.
`OrderService`, `Inventory` and `Payment` need no bound: redeliveries change
nothing after an order has ended, a reservation ends once, a payment has four
events at most. In `CircuitBreaker` the failure count is kept up to the
threshold, beyond which the code never looks at it, and `LeakBounded` itself
bounds `leaked`. The effect of a message in `ServiceProcess` is counted up to
two. Deadlock is not checked in `Outbox`, `Saga`, `HttpEdge` and `Reads`: when
all rows are marked, all orders settled, all requests answered or the clock has
run out, the system does stop.

### Fairness

`Outbox!FairSpec` assumes only that a replica's timer keeps firing and a poll
that began goes on while its channel is open (`setInterval`, `poll`). Nobody
owes a replica with a closed channel a restart, nor its publish an end; so
`EveryEventSent` presupposes that some replica has an open channel again and
again. This is not the code's doing: with the last channel closed gracefully,
events stay unpublished until the deployment restarts a replica. Without the
premise the property is false. `Saga!FairSpec` assumes that the relay
publishes, that consumers take what is in their queues, that the gateway
answers or the retry gives up, and that the expiry sweep runs at its interval
(`ReservationExpiryJob`). Relay and consumers owe that much only as long as one
replica of each service keeps its channels; the saga's liveness rests on the
same premise as `EveryEventSent` and `SettledIfConnected`. Customers and faults
are under no fairness. `LeavesCreated` holds with one fault; with two,
`order.created` can fail twice and be dead-lettered, and the order stays
CREATED until an operator acts, as `docs/runbook.md` describes.

`CircuitBreaker!BreakerFairSpec`: time passes, calls in flight are answered
(`PaymentGatewayClient`), pauses end (`setTimeout`); and about the customers,
since a breaker without traffic never probes, that charges keep coming and, in
the long run, not every card is declined. `Recovers` needs the last two to be
strong: a charge can begin only while the breaker lets it.

`ServiceProcess!FairSpec`: the broker delivers and answers a connect, handlers
and the shutdown go on, timers fire, Kubernetes restarts what has ended.
Nothing makes a client's request end, which is why `Stops` depends on the
forced exit. `SettledIfConnected` presupposes a process that keeps its
channel: one that lost it is up for ever without a consumer, since nothing
reconnects.

`HttpEdge` and `Reads` state no liveness and no fairness.

### What the violation runs show

Each checks a sentence of the repository against what the code does.

- `saga_stalls`: an event is ignored only "if the order has already reached
  (or moved past) the target state". `payment.completed` taken from its queue
  before `inventory.reserved` from the other is ignored by an order that has
  not reached it, and the paid order stays PAYMENT_PENDING.
- `payment_refunds_twice`: "Only completed payments can be refunded"
  (`RefundHandler.ts:73`). The test is before the gateway call and the write
  after it: two refunds with different keys both pass and both are paid. The
  loser's update fails, too late; one refund is recorded
  (`RefundRecordedOnce`, proved).

### Other disagreements between code and prose

They are visible in the models, as steps the models take or as an exception in
a property, and have no run of their own.

Orders, stock and money:

- "Rows are locked in SKU order to avoid deadlocks"
  (`KnexInventoryRepository.ts:38`) holds of `reserve` only. A sweep locks
  rows in the order of the expired reservations and may wait in a circle with
  a reservation; PostgreSQL aborts one side, and when that is the reservation,
  the order is rejected. `NoCircleOfReservations` is what does hold.
- "No payment has been taken." (cancellation mail). The customer cancels a
  CREATED order whose reservation is under way; the charge succeeds and
  `payment.completed` is only logged. `NoPaymentTaken` states it of orders
  that were awaiting payment, where it holds.
- "Nothing was reserved, so no compensation event is emitted." `inventory.failed`
  also answers a repeated `order.created` and a failed publication, when stock
  is held; it comes back with the expiry sweep (`StockComesBack`).
  `RejectedHoldsNothing` holds as long as nothing fails and nothing is
  delivered twice.
- The sweep is for orders "created but never confirmed"
  (`ReservationExpiryJob.ts:10`); no event tells the inventory service that an
  order was confirmed, so after the TTL its stock is sold again.
- "Ordering is preserved" (`OutboxPoller.ts:19`, ADR-002) holds of one poller.
  Two replicas poll the same rows, so an earlier event may be published
  *again* after a later one. First publications stay in order
  (`FirstSentInOrder`, proved).
- "A duplicate refund idempotency key returns the existing refund"
  (`RefundHandler.ts:35`): REFUNDED and the refund row are two transactions,
  and after a crash between them the key is answered with a conflict.
- "Re-trigger processing with a fresh `Idempotency-Key` only if no payment
  succeeded" (`docs/runbook.md:62`): an order has one payment row for ever,
  because `order_id` is unique.
- "Total amount is always consistent with items" (`Order.ts:33`): prices of
  less than a cent's precision are accepted, each is rounded before it is
  multiplied where the order is shown, and the total after it where it is
  charged. `TotalsClose` says how far apart they may be. A price that rounds
  to 0.00 is refused while saving, with a 500 instead of a 400.
- "No row skipping/duplication under concurrent inserts" (ADR-003:27): orders
  of one millisecond are skipped at a page boundary, because the cursor is cut
  to milliseconds and the column is not.

The gateway:

- "A single probe" (`CircuitBreaker.ts:40`): a half-open breaker lets in any
  number of calls, and the success of a call from before the opening closes it.
- "The caller respects circuit-breaker state" (`retry.ts:42`): the loop runs
  inside the breaker's call and does not ask it again. `LeakBounded` counts
  the attempts this lets through.
- "Wrap gateway calls" (ADR-004:15): refunds go past the breaker.

Processes and the edge:

- Redis down only degrades (`rateLimiter.ts:66`, `RedisClient.ts:32`,
  `runbook.md:72`): the limiter and the lookup do fail open, but the
  `void store.set` (`idempotency.ts:72`) that is rejected is an unhandled
  rejection, and `server.ts` ends the process.
- "The outbox retries publishing" when the broker is away (order
  `server.ts:16`): the poller is started by `startMessaging` after it has
  connected, and never if that fails. If the broker closes the connection
  gracefully afterwards, nothing opens another channel: the poller retries on
  the dead one and fails every time (the premise of `EveryEventSent`). "Will
  rely on next restart" is logged, but only the notification service's
  readiness tells anyone; the others stay up without a consumer.
- The forced exit is armed after the messaging has been stopped, so it does
  not limit that part. A delivery in hand at the shutdown finds its channel
  closed, its ack throws, and the process exits with 1 and with the HTTP
  requests it had.
- SIGTERM during `startMessaging` finds nothing to stop; the consumer starts
  afterwards, and the database is closed under it (`raced`).
- "Better a rare duplicate notification than none" (`ConsumeOnceGuard.ts`): the claim
  precedes the dispatch, so a crash between the two loses the notification
  (`history.gap`).
- "First failure → requeue" (`Consumer.ts:16`): a message that was redelivered
  because a process ended is dead-lettered at the first failure of its handler.

## 4. The proofs

All theorems are of the form `Spec => []P` (or an action property, or a
refinement), for any sets and bounds that meet the modules' ASSUMEs. Each
proof module has an inductive invariant, checked with TLC before it was
proved; one lemma per action or group of actions that change the same things;
the theorem `Invariance`; and temporal theorems that follow from it by PTL.
Every invariant and action property that a run checks is proved. What is
proved and only supports something else (type correctness,
`OutboxTellsStatus`, `VersionCountsHops`, `TerminalIsFinal`,
`PaidAfterReserved`, `SeenCurrent`, `OnePaymentPerKey`, `StatusMoves`, the
inductive invariants) is not repeated in the runs.

- `OrderServiceProofs`. `SnapshotCurrent` is not inductive alone: that an
  unchanged version means an unchanged status needs `PlansLegal` (a write adds
  at least one to the version) and `FourStatuses`; `OutboxTellsStatus` and
  `VersionCountsHops` need that a plan's event and hops belong to its move.
  `KeysAgree` gives `OneOrderPerKey`. On top: `TerminalIsFinal`, and the
  refinement of `OrderLifecycle`. The journal is written after the commit, so
  `JournalAgrees` says nothing about the steps still in a worker's hands:
  `JournalSound` counts them (`Took`) with the recorded ones. A step is in one
  place only, and the steps of an order are those on the way to its status;
  two cancellations cannot both win because a terminal status stays.
- `InventoryProofs`. `StockSound` rests on `MovesCovered`: what a transaction
  has moved is backed by a row lock it holds and by the committed counts, so
  no other transaction can change them before it commits. `LinesTogether`
  rests on `WholeOrders`. The rest follows from `TxnsSound`, which says what a
  transaction may rely on between its reads and its commit: it holds the locks
  of exactly the lines it has taken, nobody else ends a reservation it is
  ending, and it has moved the units of the taken lines. Sums over orders are
  cardinalities here: `Units` are pairs of an order and a number, so a sum is
  the size of a set, and changes by unions and differences
  (FiniteSetTheorems) and not by induction. `ReservedIsActive` is its
  consequence at a commit. `NoCircleOfReservations`: were there a circle of
  reservations, look at the greatest SKU that one of them still needs and
  another has locked; its owner waits too, by `InSkuOrder` for a greater one. The refinement maps `Commit` to the ledger's step and all other
  actions to stuttering: at the commit, the reserved units of an SKU are those
  of the orders that hold stock.
- `OutboxProofs`. `FirstSentInOrder` rests on `BatchesClosed`: a batch that
  holds a row holds or has marked the earlier rows of its order, because
  `LIMIT` cuts at an age. The refinement of `EventRelay`: by
  `FirstSentInOrder` the rows counted as relayed are those sent, so a first
  publication adds one row to them; by `sent \subseteq visible` there was one
  more to relay. A commit is the relay's `Write`; fetching, marking, failing,
  restarting and publishing again change neither count. A channel that goes
  down may take one more row to the broker, which is a publication like another.
- `PaymentProofs`. `SeenCurrent` is not a matter of versions alone, since a
  COMPLETED and a FAILED payment both have version 3: `Fits` says what each
  task knows of its payment (a refund's payment was completed), `Story` what
  each status says of the other tables, and `Alone` that one worker charges
  for an order and one records its refund. The refinement of `PaymentLedger`:
  `Save` begins, the gateway's `Charge` charges, `PaysBack` pays back, and
  every successful `Update` settles or refunds (a webhook's success settles
  and charges in one step, when it is the first news of the charge); `Fits`
  gives the guards.
- `PaymentProofs`, second part: `CircuitBreaker`. `LeakBounded` is not
  inductive: `LeakSound` adds to what an open breaker has let through the
  attempts that the charges in flight may still make (`AttemptsLeft`, a set of
  pairs). Each retry moves one pair from the second to the first; at the
  moment of opening, the call that opened the breaker is over and every other
  call has at most `MaxAttempts - 1` attempts left. `OnlyOutagesOpen` is a
  property of the actions alone.
- `SagaProofs`. `MessagesTrue` says a queued message reports something its
  sender has reached and does not leave; `PaymentsAgree` ties the payment's
  status to the number of charges and says that one call at most waits for the
  gateway, whose payment is PROCESSING and not yet charged: so a second
  delivery during the charge finds the payment and begins none
  (`ChargedOnce`). It also gives the guards of the ledger's steps in
  `PaymentsInLedger`. What holds only as long as nothing has failed
  (`RejectedHoldsNothing`, `NoPaymentTaken`) has an invariant of its own,
  `CleanRun`: in a run without a fault `order.created` and
  `inventory.reserved` are each in their queue at most once and not redelivered,
  and no channel closes under a charge (`NothingClosed`), so
  `inventory.failed` can only mean that nothing was or will be reserved.
  `Composition` is the other direction of the four refinements: what the saga
  does with orders, reservations and events are steps of `OrderLifecycle`,
  `StockLedger` and `EventRelay` (a move writes one event or none), as
  `PaymentsInLedger` says of the payments.
- `HttpEdgeProofs`. `WindowLimit` for any window follows from `HitsSound` for
  the last one: when a request is admitted, fewer than `Limit` hits are in the
  set, and every admission of the window that ends now is among them.
  `MetricsAgree` is about two sets, the requests in the gauge and those
  answered; every action leaves them alone or moves one request in or out, and
  the gauge and the counters with it. `SuccessIsTrue` is inductive because a
  success is derived from the tables at the time of the handler and neither
  placement nor cancellation is undone.
- `ServiceProcessProofs`. `AckedIsHandled` rests on `ClaimsKept` (a claim is on
  its way to its dispatch, dispatched, or in the gap), `OnlyOnce` on
  `ClaimedFirst` (for a notification, what was or will be sent is claimed),
  and `DeadForCause` on `ClosedInOrder`: while a channel of a stopping process
  is open, it is next to be closed, so the database is still there; this is a
  fact about the five lists in `Server`, and fails where `raced` does. The
  actions are taken in two groups, those of the process and those of a
  message, and each part of the invariant depends on little of the other
  group.
- `ReadsProofs`. For orders `NoneSkipped` is local: a row not yet shown is older
  than the cursor, as long as it is alone in its millisecond. By offset it is
  a matter of rank: the audit log is read from its oldest row, an unshown row
  has at least `offset` older rows before it (`OffsetSound`), and a page shows
  the ranks from `offset` on. Rows committed during the walk only push others
  back, which repeats rows and skips none; `RepeatedForCause` needs the other
  half, that a row already shown has fewer. `TotalsClose` is the arithmetic of
  rounding half up.

Assumptions: the named ASSUMEs (`ConstantsAssumption`, `StockAssumption`,
`OutboxAssumption`, `PaymentAssumption`, `BreakerAssumption`,
`SagaAssumption`, `EdgeAssumption`, `ProcessAssumption`, `ReadsAssumption`):
distinct marker values, finite sets where something is counted, natural
quantities and bounds, positive limits, windows and thresholds.

Only model-checked:

- liveness (`EveryEventSent`, `LeavesCreated`, `StockComesBack`, `Recovers`,
  `Stops`, `SettledIfConnected`): fairness and ENABLED are outside the prover;
- the counterexamples of the two violation runs.

What the composition rests on: `OrderService`, `Inventory`, `Payment` and
`Outbox` implement the four abstract specifications, and the saga keeps to
them. What is proved of `Saga` holds for the detailed services only as far as
these specifications tell their states apart; that a handler's transaction,
publication and ack may be taken as one step unless a fault lies between them
is argued in the module's head and not checked, and that the relay goes on
publishing (`WF` of `Relay` in `Saga`) is `EveryEventSent` of `Outbox`, under its
premise, which is checked and not proved.

## 5. Not modelled, and the plan

What is left to prove is `OneOrderPerKey` across the edge: that a replayed
success names the order that `OrderService` keeps under the key, which needs
`HttpEdge` joined to it.

Not modelled, and why:

- `RabbitMQConnection` (shared): a wrapper with a reconnect loop that no
  service uses; each connects in its own `startMessaging.ts`.
- `ConfigLoader`, deployment manifests, scripts, migrations as programs: read
  for replicas, prefetch, intervals, unique indexes and column types.
- `sanitize`, security headers, logs, traces, `RequestContext`, the rendering
  of metrics and the text of mails: no decision of the system reads them.
- The HTTP routes of the other services: the chain is that of `HttpEdge`
  without the limiter, and their handlers are modelled in `Payment`,
  `Inventory` and `Reads`.
- Which requests are valid or authentic: the models let any request through or
  refuse it, without looking at why.
- Unparseable messages (dead-lettered before any handler runs), orders with
  two lines of one SKU (the unique index refuses the second line, which the
  rollback of `Refuse` covers), currencies (one per order, never converted).
- Quantities are abstracted to what the properties tell apart; the arithmetic
  width of counts is not an issue at the sizes involved.

## 6. Running

```
tlc -workers 4 -config OrderService.cfg MCOrderService
tlc -workers 4 -config Saga.cfg MCSaga
tlc -workers 4 -config ServiceProcess.cfg MCServiceProcess
tlapm OrderServiceProofs.tla
```
