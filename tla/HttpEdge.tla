------------------------------ MODULE HttpEdge ------------------------------
(***************************************************************************)
(* The HTTP edge of the order service: what happens to a request between   *)
(* its arrival at one replica and its response.  In the order of app.ts:   *)
(* request metrics, authentication, the rate limiter, the idempotency      *)
(* middleware of the mutating routes, the controller with its handler, the *)
(* error handler.                                                          *)
(*                                                                         *)
(* Between two awaits a request runs alone in its process; at each await   *)
(* (Redis, the handler's database work) others go on.  The middlewares use *)
(* Redis, whose calls may fail at any moment.  The response of a keyed     *)
(* request is stored by a call nobody awaits: when it fails, the rejection *)
(* is unhandled, and the process ends itself (server.ts) together with     *)
(* whatever else it was serving.                                           *)
(*                                                                         *)
(* The handlers are taken at their word (OrderService): an order is placed *)
(* once per key, and only a CREATED order can be cancelled.  All requests  *)
(* are one user's, because the limiter counts per user; creates and        *)
(* cancels carry an idempotency key, and all cancels are about one order.  *)
(***************************************************************************)
EXTENDS Integers, FiniteSets

CONSTANTS
  Requests,       (* requests that may arrive; a client's retry is one too   *)
  Keys,           (* idempotency keys                                        *)
  Window,         (* RATE_LIMIT_WINDOW_MS, in ticks                          *)
  Limit,          (* RATE_LIMIT_MAX_REQUESTS                                 *)
  Buckets,        (* the latency histogram's upper bounds                    *)
  MaxClock        (* bound: how long the clock runs                          *)

ASSUME EdgeAssumption ==
  /\ IsFiniteSet(Requests)
  /\ {Window, Limit, MaxClock} \subseteq Nat \ {0}
  /\ IsFiniteSet(Buckets) /\ Buckets \subseteq Nat

Mutations  == {"create", "cancel"}
Operations == [op : Mutations, key : Keys] \cup [op : {"read"}]

NoEntry == 0

VARIABLES
  request,  (* where each request is, and what the middlewares hold for it   *)
  storing,  (* the responses being stored: <<request, operation, status>>    *)
  active,   (* http_active_requests                                          *)
  total,    (* http_requests_total                                           *)
  latency,  (* http_request_duration_seconds: its buckets and its count      *)
  cache,    (* Redis: the status stored for an operation                     *)
  hits,     (* Redis: the limiter's sorted set, as <<time, request>>         *)
  admitted, (* history: the members of requests the limiter let through      *)
  clock,
  placed,   (* keys under which an order was placed                          *)
  target    (* the status of the order that cancels are about                *)

process == <<active, total, latency>>
redis   == <<cache, hits, admitted, clock>>
orders  == <<placed, target>>
vars    == <<request, storing, process, redis, orders>>

(* A request ends answered, with its client gone, or with the process; the *)
(* close of an answered one is still to come, and then it is done.         *)
New      == [pc |-> "new"]
Answered == [pc |-> "answered", settled |-> TRUE]
Done     == [pc |-> "done"]
Aborted  == [pc |-> "aborted"]
Lost     == [pc |-> "lost"]

ZeroLatency == [bucket |-> [b \in Buckets |-> 0], count |-> 0]

Init ==
  /\ request = [r \in Requests |-> New]
  /\ storing = {}
  /\ active = 0 /\ total = 0 /\ latency = ZeroLatency
  /\ cache = [o \in Operations |-> NoEntry]
  /\ hits = {} /\ admitted = {} /\ clock = 0
  /\ placed = {} /\ target = "CREATED"
-----------------------------------------------------------------------------
(* The statuses of AppError.ts, and of anything that is not an AppError.   *)
ErrorStatus ==
  [ValidationError |-> 400, AuthenticationError |-> 401, NotFoundError |-> 404,
   ConflictError |-> 409, RateLimitError |-> 429, InternalError |-> 500]

IsSuccess(status) == 200 <= status /\ status < 300

(* A request in flight: its operation, whether its metrics are settled,    *)
(* and whether its response will be stored.                                *)
InFlight(r) == request[r] \notin {New, Answered, Done, Aborted, Lost}

Goes(r, pc) == request' = [request EXCEPT ![r].pc = pc]

Replies(r, status) ==
  request' = [request EXCEPT ![r].pc = "reply", ![r].status = status]

Fails(r, error) == Replies(r, ErrorStatus[error])
-----------------------------------------------------------------------------
(* httpMetrics and authMiddleware run before the first await.              *)
Arrive(r, operation) ==
  /\ request[r] = New
  /\ active' = active + 1
  /\ \E pc \in {"limit", "reply"} :
       request' = [request EXCEPT ![r] =
         [pc |-> pc, operation |-> operation, settled |-> FALSE, keyed |-> FALSE,
          status |-> IF pc = "reply" THEN ErrorStatus["AuthenticationError"] ELSE 0]]
  /\ UNCHANGED <<storing, total, latency, redis, orders>>

(* onFinish: the response has been handed to the network.                  *)
Observe(seconds) ==
  latency' = [bucket |-> [b \in Buckets |-> latency.bucket[b] + IF seconds <= b THEN 1 ELSE 0],
              count |-> latency.count + 1]

Finish(r) ==
  /\ request[r].pc = "reply"
  /\ IF request[r].settled
     THEN /\ request' = [request EXCEPT ![r] = Aborted]
          /\ UNCHANGED <<active, total, latency>>
     ELSE /\ request' = [request EXCEPT ![r] = Answered]
          /\ \E seconds \in Buckets \cup {0} : Observe(seconds + 1)
          /\ total' = total + 1
          /\ active' = active - 1
  /\ UNCHANGED <<storing, redis, orders>>

(* A mutant of OnClose: the gauge is released whether it was or not.       *)
OnCloseAgain(r) == active' = active - 1

(* onClose: every response ends with it, after its finish or before.       *)
OnClose(r) == IF request[r].settled THEN UNCHANGED active ELSE active' = active - 1

(* The client has gone; the request is processed all the same.             *)
Abort(r) ==
  /\ InFlight(r) /\ ~ request[r].settled
  /\ OnClose(r)
  /\ request' = [request EXCEPT ![r].settled = TRUE]
  /\ UNCHANGED <<storing, total, latency, redis, orders>>

(* The response has been sent, and the connection is through with it.      *)
Close(r) ==
  /\ request[r] = Answered
  /\ OnClose(r)
  /\ request' = [request EXCEPT ![r] = Done]
  /\ UNCHANGED <<storing, total, latency, redis, orders>>
-----------------------------------------------------------------------------
(* rateLimiter: a transaction in Redis trims the set, adds the request and *)
(* counts; a request over the limit is added too.  When Redis fails the    *)
(* request passes uncounted.  A round trip to Redis is short against the   *)
(* window, so that the clock is read and used in one step.                 *)

(* A mutant of Trimmed: a member exactly one window old still counts.      *)
TrimmedLate(set) == {h \in set : h[1] >= clock - Window}

Trimmed(set) == {h \in set : h[1] > clock - Window}

(* A mutant of Allowed: one too many.                                      *)
AllowedOneMore(count) == count <= Limit + 1

Allowed(count) == count <= Limit

AfterLimiter(r) == IF request[r].operation.op = "read" THEN "handle" ELSE "lookup"

Limiter(r) ==
  /\ request[r].pc = "limit"
  /\ hits' = Trimmed(hits) \cup {<<clock, r>>}
  /\ IF Allowed(Cardinality(hits'))
     THEN admitted' = admitted \cup {<<clock, r>>} /\ Goes(r, AfterLimiter(r))
     ELSE UNCHANGED admitted /\ Fails(r, "RateLimitError")
  /\ UNCHANGED <<storing, process, cache, clock, orders>>

LimiterFails(r) ==
  /\ request[r].pc = "limit"
  /\ Goes(r, AfterLimiter(r))
  /\ UNCHANGED <<storing, process, redis, orders>>
-----------------------------------------------------------------------------
(* idempotency: a stored response is replayed; without one the request is  *)
(* processed and its response will be stored; when Redis fails it is       *)
(* processed and nothing will be stored.                                   *)

Replay(r) ==
  /\ request[r].pc = "lookup"
  /\ cache[request[r].operation] # NoEntry
  /\ Replies(r, cache[request[r].operation])
  /\ UNCHANGED <<storing, process, redis, orders>>

LookupMisses(r) ==
  /\ request[r].pc = "lookup"
  /\ cache[request[r].operation] = NoEntry
  /\ request' = [request EXCEPT ![r].pc = "handle", ![r].keyed = TRUE]
  /\ UNCHANGED <<storing, process, redis, orders>>

LookupFails(r) ==
  /\ request[r].pc = "lookup"
  /\ Goes(r, "handle")
  /\ UNCHANGED <<storing, process, redis, orders>>

(* A mutant of Stores: failures are stored too.                            *)
StoresAll(r, status) ==
  IF request[r].keyed THEN storing' = storing \cup {<<r, request[r].operation, status>>}
                      ELSE UNCHANGED storing

(* The wrapped res.json: a success is stored while it is sent.             *)
Stores(r, status) ==
  IF request[r].keyed /\ IsSuccess(status)
  THEN storing' = storing \cup {<<r, request[r].operation, status>>}
  ELSE UNCHANGED storing

Stored(s) ==
  /\ s \in storing
  /\ cache' = [cache EXCEPT ![s[2]] = s[3]]
  /\ storing' = storing \ {s}
  /\ UNCHANGED <<request, process, hits, admitted, clock, orders>>

(* The entry's time to live is over, or Redis has lost it.                 *)
Forgotten(o) ==
  /\ cache[o] # NoEntry
  /\ cache' = [cache EXCEPT ![o] = NoEntry]
  /\ UNCHANGED <<request, storing, process, hits, admitted, clock, orders>>
-----------------------------------------------------------------------------
(* The controllers with their handlers.                                    *)

Responds(r, status) ==
  /\ request[r].pc = "handle"
  /\ Replies(r, status)
  /\ Stores(r, status)
  /\ UNCHANGED <<process, redis>>

Create(r) ==
  LET key == request[r].operation.key IN
  /\ request[r].operation.op = "create"
  /\ Responds(r, IF key \in placed THEN 200 ELSE 201)
  /\ placed' = placed \cup {key}
  /\ UNCHANGED target

Cancel(r) ==
  /\ request[r].operation.op = "cancel"
  /\ IF target = "CREATED"
     THEN Responds(r, 200) /\ target' = "CANCELLED"
     ELSE Responds(r, ErrorStatus["ConflictError"]) /\ UNCHANGED target
  /\ UNCHANGED placed

Read(r) ==
  /\ request[r].operation.op = "read"
  /\ Responds(r, 200)
  /\ UNCHANGED orders

(* The request is invalid, or is about nothing of this user's, or a        *)
(* statement fails, which a create that loses a race for its key meets.    *)
Refuse(r) ==
  /\ \E error \in {"ValidationError", "NotFoundError", "InternalError"} :
       Responds(r, ErrorStatus[error])
  /\ UNCHANGED orders
-----------------------------------------------------------------------------
(* The process ends: a response could not be stored, or it crashes.  With  *)
(* it goes what it was doing; it is started again with metrics at zero.    *)
Dies ==
  /\ active' = 0 /\ total' = 0 /\ latency' = ZeroLatency
  /\ request' = [r \in Requests |-> IF request[r] = New THEN New ELSE Lost]
  /\ storing' = {}
  /\ UNCHANGED <<redis, orders>>

StoreFails == storing # {} /\ Dies

Crash == (\E r \in Requests : InFlight(r)) /\ Dies

(* The order goes on in its saga, and time passes.                         *)
OrderMoves ==
  /\ target = "CREATED"
  /\ target' = "PAYMENT_PENDING"
  /\ UNCHANGED <<request, storing, process, redis, placed>>

Tick ==
  /\ clock < MaxClock
  /\ clock' = clock + 1
  /\ UNCHANGED <<request, storing, process, cache, hits, admitted, orders>>
-----------------------------------------------------------------------------
Middleware(r) ==
  \/ Limiter(r) \/ LimiterFails(r)
  \/ Replay(r) \/ LookupMisses(r) \/ LookupFails(r)

Handler(r) ==
  request[r].pc = "handle" /\ (Create(r) \/ Cancel(r) \/ Read(r) \/ Refuse(r))

Serve(r) == Middleware(r) \/ Handler(r) \/ Finish(r)

Next ==
  \/ \E r \in Requests : Serve(r) \/ Abort(r) \/ Close(r) \/ \E o \in Operations : Arrive(r, o)
  \/ \E s \in storing : Stored(s)
  \/ \E o \in Operations : Forgotten(o)
  \/ StoreFails \/ Crash
  \/ OrderMoves \/ Tick

Spec == Init /\ [][Next]_vars
-----------------------------------------------------------------------------
Statuses == {0, 200, 201} \cup {ErrorStatus[e] : e \in DOMAIN ErrorStatus}

TypeOK ==
  /\ request \in [Requests -> {New, Answered, Done, Aborted, Lost} \cup
       [pc : {"limit", "lookup", "handle", "reply"}, operation : Operations,
        settled : BOOLEAN, keyed : BOOLEAN, status : Statuses]]
  /\ storing \in SUBSET (Requests \X Operations \X Statuses)
  /\ {active, total, latency.count} \subseteq Nat
  /\ latency.bucket \in [Buckets -> Nat]
  /\ cache \in [Operations -> {NoEntry} \cup Statuses]
  /\ {hits, admitted} \subseteq SUBSET ((0..MaxClock) \X Requests)
  /\ clock \in 0..MaxClock
  /\ placed \subseteq Keys
  /\ target \in {"CREATED", "PAYMENT_PENDING", "CANCELLED"}

(* What a success means.                                                   *)
Happened(o) ==
  CASE o.op = "create" -> o.key \in placed
    [] o.op = "cancel" -> target = "CANCELLED"
    [] o.op = "read"   -> TRUE

(* A client is told of success only when it is one: whether the answer     *)
(* comes from a handler or is replayed, after lost entries, failing Redis  *)
(* calls, crashes and concurrent requests with the same key, the order is  *)
(* in the database as the answer says.  In particular no failure is ever   *)
(* replayed ("only when processing succeeds with a 2xx status").           *)
SuccessIsTrue ==
  /\ \A r \in Requests :
       request[r].pc = "reply" /\ IsSuccess(request[r].status) => Happened(request[r].operation)
  /\ \A o \in Operations :
       cache[o] # NoEntry => IsSuccess(cache[o]) /\ Happened(o)
  /\ \A s \in storing : IsSuccess(s[3]) /\ Happened(s[2])

(* The metrics agree with the requests: the gauge counts those in flight   *)
(* whose client is still there, however they end (answered, aborted before *)
(* the answer, lost with the process); counter and histogram hold every    *)
(* request that this process answered, once, and none that was aborted,    *)
(* although a response ends with both a finish and a close, in either      *)
(* order; and the histogram's buckets are cumulative, as its exposition    *)
(* format requires.                                                        *)
MetricsAgree ==
  /\ active = Cardinality({r \in Requests : InFlight(r) /\ ~ request[r].settled})
  /\ total = Cardinality({r \in Requests : request[r] \in {Answered, Done}})
  /\ latency.count = total
  /\ \A a, b \in Buckets : a <= b =>
       latency.bucket[a] <= latency.bucket[b] /\ latency.bucket[b] <= latency.count

(* A user never gets more than Limit requests through the limiter in any   *)
(* window, wherever the window begins.                                     *)
WindowLimit ==
  \A start \in 0..MaxClock :
    Cardinality({h \in admitted : h[1] \in start..(start + Window - 1)}) <= Limit

(* Why: who was let through within the last window is still in the set, in *)
(* which nothing is from the future.                                       *)
HitsSound ==
  /\ \A h \in hits \cup admitted : h[1] <= clock
  /\ \A h \in admitted : h[1] > clock - Window => h \in hits

(* Retry-After is honest: who has been quiet for a whole window is let     *)
(* through, although rejected requests count like others.                  *)
RetryAfterHonoured ==
  [][\A r \in Requests :
       /\ request[r].pc = "limit"
       /\ \A h \in hits : h[1] + Window <= clock
       => request'[r].pc # "reply"]_vars

=============================================================================
