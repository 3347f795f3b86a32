--------------------------- MODULE HttpEdgeProofs ---------------------------
(***************************************************************************)
(* What holds of the HTTP edge for any number of requests, keys, buckets,  *)
(* any window and any limit.                                               *)
(***************************************************************************)
EXTENDS HttpEdge, FiniteSetTheorems, TLAPS

(* A request that is being served.                                         *)
Flying == [pc : {"limit", "lookup", "handle", "reply"}, operation : Operations,
           settled : BOOLEAN, keyed : BOOLEAN, status : Statuses]

(* The requests the gauge counts, and those the counter has counted.       *)
Counted  == {r \in Requests : InFlight(r) /\ ~ request[r].settled}
Finished == {r \in Requests : request[r] \in {Answered, Done}}
-----------------------------------------------------------------------------
(* Requests.                                                               *)

(* The statuses of the errors are statuses, and no error is a success.     *)
LEMMA ErrorStatuses ==
  \A e \in DOMAIN ErrorStatus :
     /\ ErrorStatus[e] \in Statuses
     /\ ErrorStatus[e] \in Nat \ {0}
     /\ ~ IsSuccess(ErrorStatus[e])
  BY DEF ErrorStatus, Statuses, IsSuccess

LEMMA ErrorNames ==
  DOMAIN ErrorStatus = {"ValidationError", "AuthenticationError", "NotFoundError",
                        "ConflictError", "RateLimitError", "InternalError"}
  BY DEF ErrorStatus

LEMMA Successes ==
  /\ {0, 200, 201} \subseteq Statuses
  /\ IsSuccess(200) /\ IsSuccess(201)
  BY DEF Statuses, IsSuccess

(* A request is at one of its places, or has its record.                   *)
LEMMA Places ==
  ASSUME TypeOK, NEW r \in Requests
  PROVE  /\ request[r] \in {New, Answered, Done, Aborted, Lost} \/ request[r] \in Flying
         /\ InFlight(r) <=> request[r] \in Flying
         /\ request[r].pc \in {"limit", "lookup", "handle", "reply"} => request[r] \in Flying
<1>1. request[r] \in {New, Answered, Done, Aborted, Lost} \/ request[r] \in Flying
  BY DEF TypeOK, Flying
<1>2. ASSUME request[r] \in Flying PROVE request[r] \notin {New, Answered, Done, Aborted, Lost}
  BY <1>2 DEF Flying, New, Answered, Done, Aborted, Lost
<1>3. ASSUME request[r] \in {New, Answered, Done, Aborted, Lost}
      PROVE  request[r].pc \notin {"limit", "lookup", "handle", "reply"}
  BY <1>3 DEF New, Answered, Done, Aborted, Lost
<1> QED
  BY <1>1, <1>2, <1>3 DEF InFlight

(* What one request does to the two sets.                                  *)
LEMMA OneMoves ==
  ASSUME TypeOK, NEW r \in Requests, NEW v \in Flying,
         request' = [request EXCEPT ![r] = v]
  PROVE  /\ request' \in [Requests -> {New, Answered, Done, Aborted, Lost} \cup Flying]
         /\ request[r] \in Flying /\ v.settled = request[r].settled
              => Counted' = Counted /\ Finished' = Finished
         /\ request[r] \in Flying /\ v.settled /\ ~ request[r].settled
              => Counted' = Counted \ {r} /\ r \in Counted /\ Finished' = Finished
         /\ request[r] = New /\ ~ v.settled
              => Counted' = Counted \cup {r} /\ r \notin Counted /\ Finished' = Finished
<1>1. request \in [Requests -> {New, Answered, Done, Aborted, Lost} \cup Flying]
  BY DEF TypeOK, Flying
<1>2. request'[r] = v /\ \A q \in Requests \ {r} : request'[q] = request[q]
  BY <1>1
<1>3. request'[r] \notin {New, Answered, Done, Aborted, Lost}
  BY <1>2 DEF Flying, New, Answered, Done, Aborted, Lost
<1>4. \A q \in Requests : q \in Counted' <=> request'[q] \notin {New, Answered, Done, Aborted, Lost} /\ ~ request'[q].settled
  BY DEF Counted, InFlight
<1>5. \A q \in Requests : q \in Counted <=> request[q] \notin {New, Answered, Done, Aborted, Lost} /\ ~ request[q].settled
  BY DEF Counted, InFlight
<1>6. Counted \subseteq Requests /\ Counted' \subseteq Requests
  BY DEF Counted
<1>7. request[r] \in Flying => request[r] \notin {New, Answered, Done, Aborted, Lost}
  BY Places DEF InFlight
<1>8. New \notin {Answered, Done}
  BY DEF New, Answered, Done
<1>9. request[r] \notin {Answered, Done} => Finished' = Finished
  BY <1>2, <1>3 DEF Finished
<1>10. request' \in [Requests -> {New, Answered, Done, Aborted, Lost} \cup Flying]
  BY <1>1
<1>11. request[r] \in Flying /\ v.settled = request[r].settled => Counted' = Counted
  BY <1>2, <1>3, <1>4, <1>5, <1>6, <1>7
<1>12. request[r] \in Flying /\ v.settled /\ ~ request[r].settled
         => Counted' = Counted \ {r} /\ r \in Counted
  BY <1>2, <1>3, <1>4, <1>5, <1>6, <1>7
<1>13. request[r] = New /\ ~ v.settled => Counted' = Counted \cup {r} /\ r \notin Counted
  BY <1>2, <1>3, <1>4, <1>5, <1>6
<1> QED
  BY <1>7, <1>8, <1>9, <1>10, <1>11, <1>12, <1>13

LEMMA OneEnds ==
  ASSUME TypeOK, NEW r \in Requests, request[r] \in Flying, NEW v \in {Answered, Aborted},
         request' = [request EXCEPT ![r] = v]
  PROVE  /\ request' \in [Requests -> {New, Answered, Done, Aborted, Lost} \cup Flying]
         /\ Counted' = Counted \ {r}
         /\ v = Aborted => Finished' = Finished
         /\ v = Answered => Finished' = Finished \cup {r} /\ r \notin Finished
<1>1. request \in [Requests -> {New, Answered, Done, Aborted, Lost} \cup Flying]
  BY DEF TypeOK, Flying
<1>2. request'[r] = v /\ \A q \in Requests \ {r} : request'[q] = request[q]
  BY <1>1
<1>3. request[r] \notin {New, Answered, Done, Aborted, Lost}
  BY Places DEF InFlight
<1>4. Aborted \notin {Answered, Done}
  BY DEF Aborted, Answered, Done
<1>5. Counted' = Counted \ {r}
  BY <1>2 DEF Counted, InFlight
<1>6. v = Aborted => Finished' = Finished
  BY <1>2, <1>3, <1>4 DEF Finished
<1>7. v = Answered => Finished' = Finished \cup {r} /\ r \notin Finished
  BY <1>2, <1>3 DEF Finished
<1> QED
  BY <1>1, <1>5, <1>6, <1>7

(* The sets are finite, so that adding and removing one counts one.        *)
LEMMA Counting ==
  /\ IsFiniteSet(Counted) /\ IsFiniteSet(Finished)
  /\ Cardinality(Counted) \in Nat /\ Cardinality(Finished) \in Nat
  /\ \A r : Cardinality(Counted \ {r})
              = IF r \in Counted THEN Cardinality(Counted) - 1 ELSE Cardinality(Counted)
  /\ \A r : r \notin Counted => Cardinality(Counted \cup {r}) = Cardinality(Counted) + 1
  /\ \A r : r \notin Finished => Cardinality(Finished \cup {r}) = Cardinality(Finished) + 1
<1>1. IsFiniteSet(Counted) /\ IsFiniteSet(Finished)
  BY EdgeAssumption, FS_Subset DEF Counted, Finished
<1> QED
  BY <1>1, FS_CardinalityType, FS_AddElement, FS_RemoveElement
-----------------------------------------------------------------------------
(* What the middlewares and the handlers do to the request they serve: it  *)
(* stays in flight, and its operation and its metrics are left alone.      *)
Works(r, v) ==
  /\ request[r] \in Flying /\ v \in Flying
  /\ request' = [request EXCEPT ![r] = v]
  /\ v.settled = request[r].settled /\ v.operation = request[r].operation

LEMMA GoesWorks ==
  ASSUME TypeOK, NEW r \in Requests, request[r] \in Flying,
         NEW pc \in {"limit", "lookup", "handle", "reply"}, Goes(r, pc)
  PROVE  \E v : Works(r, v) /\ v.pc = pc /\ v.status = request[r].status
<1> DEFINE v == [request[r] EXCEPT !.pc = pc]
<1>1. v \in Flying /\ v.pc = pc /\ v.settled = request[r].settled
      /\ v.operation = request[r].operation /\ v.status = request[r].status
  BY DEF Flying
<1>2. request' = [request EXCEPT ![r] = v]
  BY DEF Goes
<1> QED
  BY <1>1, <1>2 DEF Works

LEMMA RepliesWorks ==
  ASSUME TypeOK, NEW r \in Requests, request[r] \in Flying,
         NEW status \in Statuses, Replies(r, status)
  PROVE  \E v : Works(r, v) /\ v.pc = "reply" /\ v.status = status
<1> DEFINE v == [[request[r] EXCEPT !.pc = "reply"] EXCEPT !.status = status]
<1>1. v \in Flying /\ v.pc = "reply" /\ v.settled = request[r].settled
      /\ v.operation = request[r].operation /\ v.status = status
  BY DEF Flying
<1>2. request' = [request EXCEPT ![r] = v]
  BY DEF Replies, TypeOK
<1> QED
  BY <1>1, <1>2 DEF Works

(* A request in flight has an operation, whose stored status is a status.  *)
LEMMA OperationTypes ==
  ASSUME TypeOK, NEW r \in Requests, request[r] \in Flying
  PROVE  /\ request[r].operation \in Operations
         /\ cache[request[r].operation] \in Statuses
         /\ request[r].operation.op = "create" => request[r].operation.key \in Keys
<1>1. request[r].operation \in Operations
  BY DEF Flying
<1>2. cache[request[r].operation] \in {NoEntry} \cup Statuses
  BY <1>1 DEF TypeOK
<1>3. NoEntry \in Statuses
  BY DEF NoEntry, Statuses
<1> QED
  BY <1>1, <1>2, <1>3 DEF Operations, Mutations

LEMMA LimiterWorks ==
  ASSUME TypeOK, NEW r \in Requests, Limiter(r) \/ LimiterFails(r)
  PROVE  \E v : Works(r, v) /\ (v.pc = "reply" => ~ IsSuccess(v.status))
<1>1. request[r] \in Flying
  BY Places DEF Limiter, LimiterFails
<1>2. AfterLimiter(r) \in {"lookup", "handle"}
  BY DEF AfterLimiter
<1>3. CASE Goes(r, AfterLimiter(r))
  BY <1>1, <1>2, <1>3, GoesWorks
<1>4. CASE Fails(r, "RateLimitError")
  BY <1>1, <1>4, RepliesWorks, ErrorStatuses, ErrorNames DEF Fails
<1> QED
  BY <1>3, <1>4 DEF Limiter, LimiterFails

LEMMA LookupWorks ==
  ASSUME TypeOK, NEW r \in Requests, LookupMisses(r) \/ LookupFails(r)
  PROVE  \E v : Works(r, v) /\ v.pc = "handle"
<1>1. request[r] \in Flying
  BY Places DEF LookupMisses, LookupFails
<1>2. CASE LookupFails(r)
  BY <1>1, <1>2, GoesWorks DEF LookupFails
<1>3. CASE LookupMisses(r)
  <2> DEFINE v == [[request[r] EXCEPT !.pc = "handle"] EXCEPT !.keyed = TRUE]
  <2>1. v \in Flying /\ v.pc = "handle" /\ v.settled = request[r].settled
        /\ v.operation = request[r].operation
    BY <1>1 DEF Flying
  <2>2. request' = [request EXCEPT ![r] = v]
    BY <1>3 DEF LookupMisses, TypeOK
  <2> QED
    BY <1>1, <2>1, <2>2 DEF Works
<1> QED
  BY <1>2, <1>3

LEMMA ReplayWorks ==
  ASSUME TypeOK, NEW r \in Requests, Replay(r)
  PROVE  \E v : Works(r, v) /\ v.pc = "reply" /\ v.status = cache[request[r].operation]
<1>1. request[r] \in Flying
  BY Places DEF Replay
<1> QED
  BY <1>1, RepliesWorks, OperationTypes DEF Replay

(* A handler answers with a status, a success only when it has done its    *)
(* work, and what it has stored is its answer.                             *)
LEMMA HandlerWorks ==
  ASSUME TypeOK, NEW r \in Requests, Handler(r)
  PROVE  \E v : /\ Works(r, v) /\ v.pc = "reply" /\ v.status \in Statuses
                /\ IsSuccess(v.status) => Happened(v.operation)'
                /\ \/ storing' = storing
                   \/ /\ storing' = storing \cup {<<r, v.operation, v.status>>}
                      /\ IsSuccess(v.status)
                /\ placed \subseteq placed' /\ placed' \subseteq Keys
                /\ \/ target' = target
                   \/ target = "CREATED" /\ target' = "CANCELLED"
                /\ UNCHANGED <<process, redis>>
<1>1. request[r] \in Flying
  BY Places DEF Handler
<1>2. /\ request[r].operation \in Operations
      /\ request[r].operation.op = "create" => request[r].operation.key \in Keys
  BY <1>1, OperationTypes
<1>3. ASSUME NEW status \in Statuses, Responds(r, status)
      PROVE  \E v : /\ Works(r, v) /\ v.pc = "reply" /\ v.status = status
                    /\ \/ storing' = storing
                       \/ /\ storing' = storing \cup {<<r, v.operation, status>>}
                          /\ IsSuccess(status)
                    /\ UNCHANGED <<process, redis>>
  <2>1. PICK v : Works(r, v) /\ v.pc = "reply" /\ v.status = status
    BY <1>1, <1>3, RepliesWorks DEF Responds
  <2>2. v.operation = request[r].operation
    BY <2>1 DEF Works
  <2> QED
    BY <1>3, <2>1, <2>2 DEF Responds, Stores
<1>4. placed \subseteq Keys
  BY DEF TypeOK
<1>5. CASE Create(r)
  <2> DEFINE status == IF request[r].operation.key \in placed THEN 200 ELSE 201
  <2>1. status \in Statuses
    BY Successes
  <2>2. PICK v : /\ Works(r, v) /\ v.pc = "reply" /\ v.status = status
                 /\ \/ storing' = storing
                    \/ /\ storing' = storing \cup {<<r, v.operation, status>>}
                       /\ IsSuccess(status)
                 /\ UNCHANGED <<process, redis>>
    BY <1>3, <1>5, <2>1 DEF Create
  <2>3. v.operation = request[r].operation
    BY <2>2 DEF Works
  <2>4. Happened(v.operation)'
    BY <1>5, <2>3 DEF Create, Happened
  <2> QED
    BY <1>2, <1>4, <1>5, <2>1, <2>2, <2>4 DEF Create
<1>6. CASE Cancel(r)
  <2>1. CASE target = "CREATED"
    <3>1. PICK v : /\ Works(r, v) /\ v.pc = "reply" /\ v.status = 200
                   /\ \/ storing' = storing
                      \/ /\ storing' = storing \cup {<<r, v.operation, 200>>}
                         /\ IsSuccess(200)
                   /\ UNCHANGED <<process, redis>>
      BY <1>3, <1>6, <2>1, Successes DEF Cancel
    <3>2. v.operation = request[r].operation
      BY <3>1 DEF Works
    <3>3. Happened(v.operation)'
      BY <1>6, <2>1, <3>2 DEF Cancel, Happened
    <3> QED
      BY <1>4, <1>6, <2>1, <3>1, <3>3, Successes DEF Cancel
  <2>2. CASE target # "CREATED"
    <3> DEFINE status == ErrorStatus["ConflictError"]
    <3>1. status \in Statuses /\ ~ IsSuccess(status)
      BY ErrorStatuses, ErrorNames
    <3>2. Responds(r, status) /\ UNCHANGED orders
      BY <1>6, <2>2 DEF Cancel, orders
    <3> HIDE DEF status
    <3>3. PICK v : /\ Works(r, v) /\ v.pc = "reply" /\ v.status = status
                   /\ \/ storing' = storing
                      \/ /\ storing' = storing \cup {<<r, v.operation, status>>}
                         /\ IsSuccess(status)
                   /\ UNCHANGED <<process, redis>>
      BY <1>3, <3>1, <3>2
    <3> QED
      BY <1>4, <3>1, <3>2, <3>3 DEF orders
  <2> QED
    BY <2>1, <2>2
<1>7. CASE Read(r)
  <2>1. PICK v : /\ Works(r, v) /\ v.pc = "reply" /\ v.status = 200
                 /\ \/ storing' = storing
                    \/ /\ storing' = storing \cup {<<r, v.operation, 200>>}
                       /\ IsSuccess(200)
                 /\ UNCHANGED <<process, redis>>
    BY <1>3, <1>7, Successes DEF Read
  <2>2. v.operation = request[r].operation
    BY <2>1 DEF Works
  <2>3. Happened(v.operation)'
    BY <1>7, <2>2 DEF Read, Happened
  <2> QED
    BY <1>4, <1>7, <2>1, <2>3, Successes DEF Read, orders
<1>8. CASE Refuse(r)
  <2>1. PICK status \in Statuses :
          /\ ~ IsSuccess(status) /\ Responds(r, status) /\ UNCHANGED orders
    BY <1>8, ErrorStatuses, ErrorNames DEF Refuse
  <2>2. PICK v : /\ Works(r, v) /\ v.pc = "reply" /\ v.status = status
                 /\ \/ storing' = storing
                    \/ /\ storing' = storing \cup {<<r, v.operation, status>>}
                       /\ IsSuccess(status)
                 /\ UNCHANGED <<process, redis>>
    BY <1>3, <2>1
  <2> QED
    BY <1>4, <2>1, <2>2 DEF orders
<1> QED
  BY <1>5, <1>6, <1>7, <1>8 DEF Handler
-----------------------------------------------------------------------------
(* Successes.                                                              *)

(* What has happened stays so.                                             *)
LEMMA HappenedStays ==
  ASSUME TypeOK, Next
  PROVE  \A o \in Operations : Happened(o) => Happened(o)'
<1>1. placed \subseteq placed'
  <2>1. ASSUME NEW r \in Requests, Handler(r) PROVE placed \subseteq placed'
    BY <2>1, HandlerWorks
  <2> QED
    BY <2>1 DEF Next, Serve, Middleware, Finish, Abort, Close, OnClose, Arrive, Stored, Forgotten, StoreFails,
                Crash, Dies, OrderMoves, Tick, orders, Limiter, LimiterFails, Replay,
                LookupMisses, LookupFails
<1>2. target = "CANCELLED" => target' = "CANCELLED"
  <2>1. ASSUME NEW r \in Requests, Handler(r) PROVE target = "CANCELLED" => target' = "CANCELLED"
    BY <2>1, HandlerWorks
  <2> QED
    BY <2>1 DEF Next, Serve, Middleware, Finish, Abort, Close, OnClose, Arrive, Stored, Forgotten, StoreFails,
                Crash, Dies, OrderMoves, Tick, orders, Limiter, LimiterFails, Replay,
                LookupMisses, LookupFails
<1> QED
  BY <1>1, <1>2 DEF Happened, Operations, Mutations

(* The three parts of SuccessIsTrue: answers, cache, stores under way.     *)
Answers == \A r \in Requests :
  request[r].pc = "reply" /\ IsSuccess(request[r].status) => Happened(request[r].operation)
Replays == \A o \in Operations : cache[o] # NoEntry => IsSuccess(cache[o]) /\ Happened(o)
Storing == \A s \in storing : IsSuccess(s[3]) /\ Happened(s[2])

LEMMA AnswersOf ==
  ASSUME \A q \in Requests : \A o :
           /\ request'[q].pc = "reply" /\ IsSuccess(request'[q].status)
           /\ o = request'[q].operation
           => Happened(o)'
  PROVE  Answers'
  BY DEF Answers, IsSuccess, Happened

(* The answers stay true when the request that moves has no false one.     *)
LEMMA AnswersKept ==
  ASSUME TypeOK, Next, Answers, NEW r \in Requests, NEW v,
         Works(r, v), v.pc = "reply" /\ IsSuccess(v.status) => Happened(v.operation)'
  PROVE  Answers'
<1> SUFFICES ASSUME NEW q \in Requests, NEW o, o = request'[q].operation,
                    request'[q].pc = "reply", IsSuccess(request'[q].status)
             PROVE  Happened(o)'
  BY AnswersOf
<1>1. CASE q = r
  <2>1. request'[q] = v
    BY <1>1 DEF Works, TypeOK
  <2> QED
    BY <2>1
<1>2. CASE q # r
  <2>1. request'[q] = request[q]
    BY <1>2 DEF Works, TypeOK
  <2>2. o \in Operations
    BY <2>1, Places DEF Flying
  <2>3. Happened(o)
    BY <2>1 DEF Answers
  <2> QED
    BY <2>1, <2>2, <2>3, HappenedStays
<1> QED
  BY <1>1, <1>2

LEMMA NextSuccess ==
  ASSUME TypeOK, SuccessIsTrue, [Next]_vars
  PROVE  SuccessIsTrue'
<1>1. Answers /\ Replays /\ Storing
  BY DEF SuccessIsTrue, Answers, Replays, Storing
<1>2. \A s \in storing : s[2] \in Operations
  BY DEF TypeOK
<1>3. CASE UNCHANGED vars
  <2>1. UNCHANGED <<request, storing, cache, placed, target>>
    BY <1>3 DEF vars, redis, orders
  <2> QED
    BY <1>1, <2>1 DEF SuccessIsTrue, Answers, Replays, Storing, Happened
<1>4. CASE Next
  <2> USE <1>4
  <2>0. \A o \in Operations : Happened(o) => Happened(o)'
    BY HappenedStays
  <2>1. UNCHANGED cache => Replays'
    BY <1>1, <2>0 DEF Replays
  <2>2. UNCHANGED storing => Storing'
    BY <1>1, <1>2, <2>0 DEF Storing
  <2>3. UNCHANGED request => Answers'
    <3> SUFFICES ASSUME UNCHANGED request, NEW q \in Requests, NEW o,
                        request'[q].pc = "reply", IsSuccess(request'[q].status),
                        o = request'[q].operation
                 PROVE  Happened(o)'
      BY AnswersOf
    <3>1. o \in Operations
      BY Places DEF Flying
    <3>2. Happened(o)
      BY <1>1 DEF Answers
    <3> QED
      BY <2>0, <3>1, <3>2
  <2>4. ASSUME NEW r \in Requests, Middleware(r) PROVE Answers' /\ Replays' /\ Storing'
    <3>1. UNCHANGED <<cache, storing>>
      BY <2>4 DEF Middleware, Limiter, LimiterFails, Replay, LookupMisses, LookupFails, redis
    <3>2. PICK v : Works(r, v) /\ (v.pc = "reply" /\ IsSuccess(v.status) => Happened(v.operation)')
      <4>1. CASE Replay(r)
        <5>1. PICK v : Works(r, v) /\ v.pc = "reply" /\ v.status = cache[request[r].operation]
          BY <4>1, ReplayWorks
        <5>2. v.operation = request[r].operation /\ request[r].operation \in Operations
          BY <5>1, OperationTypes DEF Works
        <5>3. Happened(v.operation)'
          BY <1>1, <2>0, <4>1, <5>2 DEF Replay, Replays
        <5> QED
          BY <5>1, <5>3
      <4>2. CASE Limiter(r) \/ LimiterFails(r)
        BY <4>2, LimiterWorks
      <4>3. CASE LookupMisses(r) \/ LookupFails(r)
        <5>1. PICK v : Works(r, v) /\ v.pc = "handle"
          BY <4>3, LookupWorks
        <5> QED
          BY <5>1
      <4> QED
        BY <2>4, <4>1, <4>2, <4>3 DEF Middleware
    <3>3. Answers'
      BY <1>1, <3>2, AnswersKept
    <3> QED
      BY <2>1, <2>2, <3>1, <3>3
  <2>5. ASSUME NEW r \in Requests, Handler(r) PROVE Answers' /\ Replays' /\ Storing'
    <3>1. PICK v : /\ Works(r, v) /\ v.pc = "reply" /\ v.status \in Statuses
                   /\ IsSuccess(v.status) => Happened(v.operation)'
                   /\ \/ storing' = storing
                      \/ /\ storing' = storing \cup {<<r, v.operation, v.status>>}
                         /\ IsSuccess(v.status)
                   /\ UNCHANGED <<process, redis>>
      BY <2>5, HandlerWorks
    <3>2. Answers'
      BY <1>1, <3>1, AnswersKept
    <3>3. UNCHANGED cache
      BY <3>1 DEF redis
    <3>4. Storing'
      BY <1>1, <1>2, <2>0, <3>1 DEF Storing
    <3> QED
      BY <2>1, <3>2, <3>3, <3>4
  <2>6. ASSUME NEW r \in Requests, Finish(r) \/ Abort(r) \/ Close(r) \/ \E o \in Operations : Arrive(r, o)
        PROVE  Answers' /\ Replays' /\ Storing'
    <3>1. UNCHANGED <<cache, storing>>
      BY <2>6 DEF Finish, Abort, Close, OnClose, Arrive, redis
    <3>2. CASE Finish(r) \/ Close(r)
      <4>1. PICK v \in {Answered, Done, Aborted} : request' = [request EXCEPT ![r] = v]
        BY <3>2 DEF Finish, Close
      <4>2. v.pc # "reply"
        BY DEF Answered, Done, Aborted
      <4>3. \A q \in Requests : request'[q] = request[q] \/ request'[q] = v
        BY <4>1 DEF TypeOK
      <4>4. ASSUME NEW q \in Requests, NEW o, o = request'[q].operation,
                   request'[q].pc = "reply", IsSuccess(request'[q].status)
            PROVE  Happened(o)'
        <5>1. request'[q] = request[q]
          BY <4>2, <4>3, <4>4
        <5>2. o \in Operations
          BY <4>4, <5>1, Places DEF Flying
        <5>3. Happened(o)
          BY <1>1, <4>4, <5>1 DEF Answers
        <5> QED
          BY <2>0, <5>2, <5>3
      <4>5. Answers'
        BY <4>4, AnswersOf
      <4> QED
        BY <2>1, <2>2, <3>1, <4>5
    <3>3. CASE Abort(r)
      <4> DEFINE v == [request[r] EXCEPT !.settled = TRUE]
      <4>1. request[r] \in Flying
        BY <3>3, Places DEF Abort
      <4>2. v.pc = request[r].pc /\ v.status = request[r].status
            /\ v.operation = request[r].operation
        BY <4>1 DEF Flying
      <4>3. request' = [request EXCEPT ![r] = v]
        BY <3>3 DEF Abort
      <4> HIDE DEF v
      <4>4. \A q \in Requests : /\ request'[q].pc = request[q].pc
                                /\ request'[q].status = request[q].status
                                /\ request'[q].operation = request[q].operation
        BY <4>2, <4>3 DEF TypeOK
      <4>5. ASSUME NEW q \in Requests, NEW o, o = request'[q].operation,
                   request'[q].pc = "reply", IsSuccess(request'[q].status)
            PROVE  Happened(o)'
        <5>1. o \in Operations
          BY <4>4, <4>5, Places DEF Flying
        <5>2. Happened(o)
          BY <1>1, <4>4, <4>5 DEF Answers
        <5> QED
          BY <2>0, <5>1, <5>2
      <4>6. Answers'
        BY <4>5, AnswersOf
      <4> QED
        BY <2>1, <2>2, <3>1, <4>6
    <3>4. ASSUME NEW operation \in Operations, Arrive(r, operation) PROVE Answers' /\ Replays' /\ Storing'
      <4>0. PICK pc \in {"limit", "reply"} :
              request' = [request EXCEPT ![r] =
                [pc |-> pc, operation |-> operation, settled |-> FALSE, keyed |-> FALSE,
                 status |-> IF pc = "reply" THEN ErrorStatus["AuthenticationError"] ELSE 0]]
        BY <3>4 DEF Arrive
      <4> DEFINE v == [pc |-> pc, operation |-> operation, settled |-> FALSE, keyed |-> FALSE,
                       status |-> IF pc = "reply" THEN ErrorStatus["AuthenticationError"] ELSE 0]
      <4>1. request' = [request EXCEPT ![r] = v] /\ (v.pc = "reply" => ~ IsSuccess(v.status))
        BY <4>0, ErrorStatuses, ErrorNames
      <4> HIDE DEF v
      <4>2. \A q \in Requests : request'[q] = request[q] \/ request'[q] = v
        BY <4>1 DEF TypeOK
      <4>3. ASSUME NEW q \in Requests, NEW o, o = request'[q].operation,
                   request'[q].pc = "reply", IsSuccess(request'[q].status)
            PROVE  Happened(o)'
        <5>1. request'[q] = request[q]
          BY <4>1, <4>2, <4>3
        <5>2. o \in Operations
          BY <4>3, <5>1, Places DEF Flying
        <5>3. Happened(o)
          BY <1>1, <4>3, <5>1 DEF Answers
        <5> QED
          BY <2>0, <5>2, <5>3
      <4>4. Answers'
        BY <4>3, AnswersOf
      <4> QED
        BY <2>1, <2>2, <3>1, <4>4
    <3> QED
      BY <2>6, <3>2, <3>3, <3>4
  <2>7. ASSUME NEW s \in storing, Stored(s) PROVE Answers' /\ Replays' /\ Storing'
    <3>1. UNCHANGED request /\ storing' \subseteq storing
      BY <2>7 DEF Stored
    <3>2. Storing'
      BY <1>1, <1>2, <2>0, <3>1 DEF Storing
    <3>3. s[2] \in Operations /\ IsSuccess(s[3]) /\ Happened(s[2])'
      BY <1>1, <1>2, <2>0 DEF Storing
    <3>4. \A o \in Operations : cache'[o] = IF o = s[2] THEN s[3] ELSE cache[o]
      BY <2>7 DEF Stored, TypeOK
    <3>5. Replays'
      BY <1>1, <2>0, <3>3, <3>4 DEF Replays
    <3> QED
      BY <2>3, <3>1, <3>2, <3>5
  <2>8. ASSUME NEW o \in Operations, Forgotten(o) PROVE Answers' /\ Replays' /\ Storing'
    <3>1. UNCHANGED <<request, storing>>
      BY <2>8 DEF Forgotten
    <3>2. \A p \in Operations : cache'[p] = IF p = o THEN NoEntry ELSE cache[p]
      BY <2>8 DEF Forgotten, TypeOK
    <3>3. Replays'
      BY <1>1, <2>0, <3>2 DEF Replays
    <3> QED
      BY <2>2, <2>3, <3>1, <3>3
  <2>9. ASSUME Dies PROVE Answers' /\ Replays' /\ Storing'
    <3>1. UNCHANGED cache /\ storing' = {}
      BY <2>9 DEF Dies, redis
    <3>2. \A q \in Requests : request'[q] \in {New, Lost}
      BY <2>9 DEF Dies
    <3>3. Answers'
      BY <3>2 DEF Answers, New, Lost
    <3> QED
      BY <2>1, <3>1, <3>3 DEF Storing
  <2>10. ASSUME OrderMoves \/ Tick PROVE Answers' /\ Replays' /\ Storing'
    <3>1. UNCHANGED <<request, storing, cache>>
      BY <2>10 DEF OrderMoves, Tick, redis
    <3> QED
      BY <2>1, <2>2, <2>3, <3>1
  <2>11. Answers' /\ Replays' /\ Storing'
    BY <1>4, <2>4, <2>5, <2>6, <2>7, <2>8, <2>9, <2>10 DEF Next, Serve, StoreFails, Crash
  <2> QED
    BY <2>11 DEF SuccessIsTrue, Answers, Replays, Storing
<1> QED
  BY <1>3, <1>4
-----------------------------------------------------------------------------
(* The metrics.                                                            *)

(* What a step does to the two sets and to the metrics.                    *)
Quiet == Counted' = Counted /\ Finished' = Finished /\ UNCHANGED process

Opens == \E r : /\ Counted' = Counted \cup {r} /\ r \notin Counted /\ Finished' = Finished
                /\ active' = active + 1 /\ UNCHANGED <<total, latency>>

Leaves == \E r : /\ Counted' = Counted \ {r} /\ r \in Counted /\ Finished' = Finished
                 /\ active' = active - 1 /\ UNCHANGED <<total, latency>>

Closes == \E r : /\ Counted' = Counted \ {r} /\ r \in Counted
                 /\ Finished' = Finished \cup {r} /\ r \notin Finished
                 /\ active' = active - 1 /\ total' = total + 1
                 /\ \E seconds \in Nat : Observe(seconds)

Restarts == /\ Counted' = {} /\ Finished' = {}
            /\ active' = 0 /\ total' = 0 /\ latency' = ZeroLatency

LEMMA WorksQuietly ==
  ASSUME TypeOK, NEW r \in Requests, NEW v, Works(r, v), UNCHANGED process
  PROVE  Quiet
  BY OneMoves DEF Works, Quiet

LEMMA SameRequests ==
  ASSUME UNCHANGED <<request, process>>
  PROVE  Quiet
  BY DEF Quiet, Counted, Finished, InFlight

LEMMA StepsOfMetrics ==
  ASSUME TypeOK, Next
  PROVE  Quiet \/ Opens \/ Leaves \/ Closes \/ Restarts
<1>1. ASSUME NEW r \in Requests, Middleware(r) PROVE Quiet
  <2>1. UNCHANGED process
    BY <1>1 DEF Middleware, Limiter, LimiterFails, Replay, LookupMisses, LookupFails
  <2>2. \E v : Works(r, v)
    BY <1>1, LimiterWorks, ReplayWorks, LookupWorks DEF Middleware
  <2> QED
    BY <2>1, <2>2, WorksQuietly
<1>2. ASSUME NEW r \in Requests, Handler(r) PROVE Quiet
  BY <1>2, HandlerWorks, WorksQuietly
<1>3. ASSUME NEW r \in Requests, Finish(r) PROVE Quiet \/ Closes
  <2>1. request[r] \in Flying
    BY <1>3, Places DEF Finish
  <2>2. InFlight(r)
    BY <2>1, Places
  <2>3. CASE request[r].settled
    <3>1. request' = [request EXCEPT ![r] = Aborted] /\ UNCHANGED process
      BY <1>3, <2>3 DEF Finish, process
    <3>2. Counted' = Counted \ {r} /\ Finished' = Finished
      BY <2>1, <3>1, OneEnds
    <3>3. r \notin Counted
      BY <2>3 DEF Counted
    <3> QED
      BY <3>1, <3>2, <3>3 DEF Quiet
  <2>4. CASE ~ request[r].settled
    <3>1. /\ request' = [request EXCEPT ![r] = Answered]
          /\ active' = active - 1 /\ total' = total + 1
          /\ \E seconds \in Buckets \cup {0} : Observe(seconds + 1)
      BY <1>3, <2>4 DEF Finish
    <3>2. /\ Counted' = Counted \ {r}
          /\ Finished' = Finished \cup {r} /\ r \notin Finished
      BY <2>1, <3>1, OneEnds
    <3>3. r \in Counted
      BY <2>2, <2>4 DEF Counted
    <3>4. \E seconds \in Nat : Observe(seconds)
      <4>1. PICK seconds \in Buckets \cup {0} : Observe(seconds + 1)
        BY <3>1
      <4>2. seconds + 1 \in Nat
        BY EdgeAssumption
      <4> QED
        BY <4>1, <4>2
    <3> QED
      BY <3>1, <3>2, <3>3, <3>4 DEF Closes
  <2> QED
    BY <2>3, <2>4
<1>4. ASSUME NEW r \in Requests, Abort(r) PROVE Leaves
  <2>1. request[r] \in Flying /\ ~ request[r].settled
    BY <1>4, Places DEF Abort
  <2>0. active' = active - 1 /\ UNCHANGED <<total, latency>>
    BY <1>4 DEF Abort, OnClose
  <2> DEFINE v == [request[r] EXCEPT !.settled = TRUE]
  <2>2. v \in Flying /\ v.settled
    BY <2>1 DEF Flying
  <2>3. request' = [request EXCEPT ![r] = v]
    BY <1>4 DEF Abort
  <2> HIDE DEF v
  <2>4. Counted' = Counted \ {r} /\ r \in Counted /\ Finished' = Finished
    BY <2>1, <2>2, <2>3, OneMoves
  <2> QED
    BY <2>0, <2>4 DEF Leaves
<1>8. ASSUME NEW r \in Requests, Close(r) PROVE Quiet
  <2>1. request[r] = Answered /\ request' = [request EXCEPT ![r] = Done]
    BY <1>8 DEF Close
  <2>2. UNCHANGED process
    BY <1>8, <2>1 DEF Close, OnClose, Answered, process
  <2>3. request'[r] = Done /\ \A q \in Requests \ {r} : request'[q] = request[q]
    BY <2>1 DEF TypeOK
  <2>4. Counted' = Counted
    BY <2>1, <2>3 DEF Counted, InFlight
  <2>5. Finished' = Finished
    BY <2>1, <2>3 DEF Finished
  <2> QED
    BY <2>2, <2>4, <2>5 DEF Quiet
<1>5. ASSUME NEW r \in Requests, NEW o \in Operations, Arrive(r, o) PROVE Opens
  <2>1. PICK pc \in {"limit", "reply"} :
          request' = [request EXCEPT ![r] =
            [pc |-> pc, operation |-> o, settled |-> FALSE, keyed |-> FALSE,
             status |-> IF pc = "reply" THEN ErrorStatus["AuthenticationError"] ELSE 0]]
    BY <1>5 DEF Arrive
  <2> DEFINE v == [pc |-> pc, operation |-> o, settled |-> FALSE, keyed |-> FALSE,
                   status |-> IF pc = "reply" THEN ErrorStatus["AuthenticationError"] ELSE 0]
  <2>2. v \in Flying /\ ~ v.settled
    BY ErrorStatuses, ErrorNames, Successes DEF Flying
  <2>3. request' = [request EXCEPT ![r] = v]
    BY <2>1
  <2> HIDE DEF v
  <2>4. Counted' = Counted \cup {r} /\ r \notin Counted /\ Finished' = Finished
    BY <1>5, <2>2, <2>3, OneMoves DEF Arrive
  <2> QED
    BY <1>5, <2>4 DEF Opens, Arrive
<1>6. ASSUME Dies PROVE Restarts
  <2>1. \A q \in Requests : request'[q] \in {New, Lost}
    BY <1>6 DEF Dies
  <2>2. Counted' = {}
    BY <2>1 DEF Counted, InFlight
  <2>3. {New, Lost} \cap {Answered, Done} = {}
    BY DEF New, Lost, Answered, Done
  <2>4. Finished' = {}
    BY <2>1, <2>3 DEF Finished
  <2> QED
    BY <1>6, <2>2, <2>4 DEF Restarts, Dies
<1>7. ASSUME \/ \E s \in storing : Stored(s)
             \/ \E o \in Operations : Forgotten(o)
             \/ OrderMoves \/ Tick
      PROVE  Quiet
  <2>1. UNCHANGED <<request, process>>
    BY <1>7 DEF Stored, Forgotten, OrderMoves, Tick
  <2> QED
    BY <2>1, SameRequests
<1> QED
  BY <1>1, <1>2, <1>3, <1>4, <1>5, <1>6, <1>7, <1>8 DEF Next, Serve, StoreFails, Crash

(* The gauge counts the one set and the counter the other; the histogram   *)
(* is cumulative.                                                          *)
Gauges    == active = Cardinality(Counted) /\ total = Cardinality(Finished)
Histogram == /\ latency.count = total
             /\ \A a, b \in Buckets : a <= b =>
                  latency.bucket[a] <= latency.bucket[b] /\ latency.bucket[b] <= latency.count

LEMMA MetricsParts == MetricsAgree <=> Gauges /\ Histogram
  BY DEF MetricsAgree, Gauges, Histogram, Counted, Finished

LEMMA NextGauges ==
  ASSUME Gauges, Quiet \/ Opens \/ Leaves \/ Closes \/ Restarts
  PROVE  Gauges'
<1>1. CASE Quiet
  BY <1>1 DEF Gauges, Quiet, process
<1>2. CASE Opens
  <2>1. PICK r : /\ Counted' = Counted \cup {r} /\ r \notin Counted /\ Finished' = Finished
                 /\ active' = active + 1 /\ UNCHANGED <<total, latency>>
    BY <1>2 DEF Opens
  <2>2. Cardinality(Counted') = Cardinality(Counted \cup {r})
    BY <2>1, Zenon
  <2>3. Cardinality(Finished') = Cardinality(Finished)
    BY <2>1, Zenon
  <2> QED
    BY <2>1, <2>2, <2>3, Counting DEF Gauges
<1>3. CASE Leaves
  <2>1. PICK r : /\ Counted' = Counted \ {r} /\ r \in Counted /\ Finished' = Finished
                 /\ active' = active - 1 /\ UNCHANGED <<total, latency>>
    BY <1>3 DEF Leaves
  <2>2. Cardinality(Counted') = Cardinality(Counted \ {r})
    BY <2>1, Zenon
  <2>3. Cardinality(Finished') = Cardinality(Finished)
    BY <2>1, Zenon
  <2> QED
    BY <2>1, <2>2, <2>3, Counting DEF Gauges
<1>4. CASE Closes
  <2>1. PICK r : /\ Counted' = Counted \ {r} /\ r \in Counted
                 /\ Finished' = Finished \cup {r} /\ r \notin Finished
                 /\ active' = active - 1 /\ total' = total + 1
    BY <1>4 DEF Closes
  <2>2. Cardinality(Counted') = Cardinality(Counted \ {r})
    BY <2>1, Zenon
  <2>3. Cardinality(Finished') = Cardinality(Finished \cup {r})
    BY <2>1, Zenon
  <2> QED
    BY <2>1, <2>2, <2>3, Counting DEF Gauges
<1>5. CASE Restarts
  <2>1. Cardinality(Counted') = Cardinality({}) /\ Cardinality(Finished') = Cardinality({})
    BY <1>5, Zenon DEF Restarts
  <2>2. active' = 0 /\ total' = 0
    BY <1>5 DEF Restarts
  <2> QED
    BY <2>1, <2>2, FS_EmptySet DEF Gauges
<1> QED
  BY <1>1, <1>2, <1>3, <1>4, <1>5

(* A bucket with a larger bound counts what a smaller one counts.          *)
LEMMA NextHistogram ==
  ASSUME TypeOK, Gauges, Histogram, Quiet \/ Opens \/ Leaves \/ Closes \/ Restarts
  PROVE  /\ Histogram'
         /\ latency'.bucket \in [Buckets -> Nat] /\ latency'.count \in Nat
<1>0. latency.bucket \in [Buckets -> Nat] /\ latency.count \in Nat
  BY DEF TypeOK
<1>1. CASE Quiet \/ Opens \/ Leaves
  <2>1. UNCHANGED <<total, latency>>
    BY <1>1 DEF Quiet, Opens, Leaves, process
  <2> QED
    BY <1>0, <2>1 DEF Histogram
<1>2. CASE Closes
  <2>1. PICK seconds \in Nat : Observe(seconds)
    BY <1>2 DEF Closes
  <2>2. total' = total + 1
    BY <1>2 DEF Closes
  <2>3. /\ latency'.count = latency.count + 1
        /\ latency'.bucket = [b \in Buckets |-> latency.bucket[b] + IF seconds <= b THEN 1 ELSE 0]
    BY <2>1 DEF Observe
  <2>4. ASSUME NEW b \in Buckets
        PROVE  latency'.bucket[b] = latency.bucket[b] + (IF seconds <= b THEN 1 ELSE 0)
    BY <2>3
  <2>5. ASSUME NEW a \in Buckets, NEW b \in Buckets, a <= b
        PROVE  latency'.bucket[a] <= latency'.bucket[b] /\ latency'.bucket[b] <= latency'.count
    <3>1. a \in Nat /\ b \in Nat
      BY EdgeAssumption
    <3>2. /\ latency.bucket[a] \in Nat /\ latency.bucket[b] \in Nat
          /\ latency.bucket[a] <= latency.bucket[b] /\ latency.bucket[b] <= latency.count
      BY <1>0, <2>5 DEF Histogram
    <3>3. seconds <= a => seconds <= b
      BY <2>5, <3>1
    <3> QED
      BY <1>0, <2>3, <2>4, <3>2, <3>3
  <2>6. latency'.count = total'
    BY <2>2, <2>3 DEF Histogram
  <2>7. latency'.bucket \in [Buckets -> Nat] /\ latency'.count \in Nat
    BY <1>0, <2>3
  <2> QED
    BY <2>5, <2>6, <2>7 DEF Histogram
<1>3. CASE Restarts
  <2>1. latency' = ZeroLatency /\ total' = 0
    BY <1>3 DEF Restarts
  <2> QED
    BY <2>1 DEF Histogram, ZeroLatency
<1> QED
  BY <1>1, <1>2, <1>3
-----------------------------------------------------------------------------
(* Types.                                                                  *)

Place == {New, Answered, Done, Aborted, Lost} \cup Flying

TypeRest ==
  /\ storing \in SUBSET (Requests \X Operations \X Statuses)
  /\ cache \in [Operations -> {NoEntry} \cup Statuses]
  /\ {hits, admitted} \subseteq SUBSET ((0..MaxClock) \X Requests)
  /\ clock \in 0..MaxClock
  /\ placed \subseteq Keys
  /\ target \in {"CREATED", "PAYMENT_PENDING", "CANCELLED"}

LEMMA TypeParts ==
  TypeOK <=> /\ request \in [Requests -> Place]
             /\ {active, total, latency.count} \subseteq Nat
             /\ latency.bucket \in [Buckets -> Nat]
             /\ TypeRest
  BY DEF TypeOK, TypeRest, Place, Flying

LEMMA NextRequest ==
  ASSUME TypeOK, Next
  PROVE  request' \in [Requests -> Place]
<1>0. request \in [Requests -> Place]
  BY TypeParts
<1>1. ASSUME NEW r \in Requests, NEW v, Works(r, v)
      PROVE  request' \in [Requests -> Place]
  BY <1>1, OneMoves DEF Works, Place
<1>2. ASSUME NEW r \in Requests, Middleware(r)
      PROVE  request' \in [Requests -> Place]
  BY <1>1, <1>2, LimiterWorks, ReplayWorks, LookupWorks DEF Middleware
<1>3. ASSUME NEW r \in Requests, Handler(r)
      PROVE  request' \in [Requests -> Place]
  BY <1>1, <1>3, HandlerWorks
<1>4. ASSUME NEW r \in Requests, Finish(r) \/ Close(r)
      PROVE  request' \in [Requests -> Place]
  BY <1>0, <1>4 DEF Finish, Close, Place
<1>5. ASSUME NEW r \in Requests, Abort(r)
      PROVE  request' \in [Requests -> Place]
  <2>1. request[r] \in Flying
    BY <1>5, Places DEF Abort
  <2>2. [request[r] EXCEPT !.settled = TRUE] \in Flying
    BY <2>1 DEF Flying
  <2> QED
    BY <1>0, <1>5, <2>2 DEF Abort, Place
<1>6. ASSUME NEW r \in Requests, NEW o \in Operations, Arrive(r, o)
      PROVE  request' \in [Requests -> Place]
  <2>1. PICK pc \in {"limit", "reply"} :
          request' = [request EXCEPT ![r] =
            [pc |-> pc, operation |-> o, settled |-> FALSE, keyed |-> FALSE,
             status |-> IF pc = "reply" THEN ErrorStatus["AuthenticationError"] ELSE 0]]
    BY <1>6 DEF Arrive
  <2>2. [pc |-> pc, operation |-> o, settled |-> FALSE, keyed |-> FALSE,
         status |-> IF pc = "reply" THEN ErrorStatus["AuthenticationError"] ELSE 0] \in Flying
    BY ErrorStatuses, ErrorNames, Successes DEF Flying
  <2> QED
    BY <1>0, <2>1, <2>2 DEF Place
<1>7. Dies => request' \in [Requests -> Place]
  BY DEF Dies, Place
<1>8. ASSUME \/ \E s \in storing : Stored(s)
             \/ \E o \in Operations : Forgotten(o)
             \/ OrderMoves \/ Tick
      PROVE  request' \in [Requests -> Place]
  BY <1>0, <1>8 DEF Stored, Forgotten, OrderMoves, Tick
<1> QED
  BY <1>2, <1>3, <1>4, <1>5, <1>6, <1>7, <1>8 DEF Next, Serve, StoreFails, Crash

LEMMA NextRest ==
  ASSUME TypeOK, Next
  PROVE  TypeRest'
<1>0. TypeRest
  BY TypeParts
<1>1. UNCHANGED <<storing, redis, orders>> => TypeRest'
  BY <1>0 DEF TypeRest, redis, orders
<1>2. ASSUME NEW r \in Requests, Limiter(r) PROVE TypeRest'
  <2>1. /\ UNCHANGED <<storing, cache, clock, placed, target>>
        /\ hits' = Trimmed(hits) \cup {<<clock, r>>}
        /\ admitted' \subseteq admitted \cup {<<clock, r>>}
    BY <1>2 DEF Limiter, orders
  <2>2. <<clock, r>> \in (0..MaxClock) \X Requests
    BY <1>0 DEF TypeRest
  <2>3. hits' \in SUBSET ((0..MaxClock) \X Requests)
        /\ admitted' \in SUBSET ((0..MaxClock) \X Requests)
    BY <1>0, <2>1, <2>2 DEF TypeRest, Trimmed
  <2> QED
    BY <1>0, <2>1, <2>3 DEF TypeRest
<1>3. ASSUME NEW r \in Requests, LimiterFails(r) \/ Replay(r) \/ LookupMisses(r) \/ LookupFails(r)
      PROVE  TypeRest'
  BY <1>1, <1>3 DEF LimiterFails, Replay, LookupMisses, LookupFails
<1>4. ASSUME NEW r \in Requests, Handler(r) PROVE TypeRest'
  <2>1. PICK v : /\ Works(r, v) /\ v.pc = "reply" /\ v.status \in Statuses
                 /\ \/ storing' = storing
                    \/ /\ storing' = storing \cup {<<r, v.operation, v.status>>}
                       /\ IsSuccess(v.status)
                 /\ placed' \subseteq Keys
                 /\ \/ target' = target
                    \/ target = "CREATED" /\ target' = "CANCELLED"
                 /\ UNCHANGED <<process, redis>>
    BY <1>4, HandlerWorks
  <2>2. v.operation \in Operations
    BY <2>1 DEF Works, Flying
  <2>3. storing' \in SUBSET (Requests \X Operations \X Statuses)
    BY <1>0, <2>1, <2>2 DEF TypeRest
  <2> QED
    BY <1>0, <2>1, <2>3 DEF TypeRest, redis
<1>5. ASSUME NEW r \in Requests, Finish(r) \/ Abort(r) \/ Close(r) \/ \E o \in Operations : Arrive(r, o)
      PROVE  TypeRest'
  BY <1>1, <1>5 DEF Finish, Abort, Close, OnClose, Arrive
<1>6. ASSUME NEW s \in storing, Stored(s) PROVE TypeRest'
  <2>1. s[2] \in Operations /\ s[3] \in Statuses
    BY <1>0 DEF TypeRest
  <2> QED
    BY <1>0, <1>6, <2>1 DEF TypeRest, Stored, orders
<1>7. ASSUME NEW o \in Operations, Forgotten(o) PROVE TypeRest'
  BY <1>0, <1>7 DEF TypeRest, Forgotten, orders
<1>8. Dies => TypeRest'
  BY <1>0 DEF TypeRest, Dies, redis, orders
<1>9. OrderMoves => TypeRest'
  BY <1>0 DEF TypeRest, OrderMoves, redis
<1>10. Tick => TypeRest'
  BY <1>0, EdgeAssumption DEF TypeRest, Tick, orders
<1> QED
  BY <1>2, <1>3, <1>4, <1>5, <1>6, <1>7, <1>8, <1>9, <1>10
  DEF Next, Serve, Middleware, StoreFails, Crash
-----------------------------------------------------------------------------
(* The limiter.                                                            *)

(* The members a window holds, of those let through.                       *)
Within(start) == {h \in admitted : h[1] \in start..(start + Window - 1)}

LEMMA HitTypes ==
  ASSUME TypeOK
  PROVE  /\ \A h \in hits \cup admitted : h[1] \in Nat
         /\ clock \in Nat
         /\ IsFiniteSet(hits)
<1>1. hits \subseteq (0..MaxClock) \X Requests /\ admitted \subseteq (0..MaxClock) \X Requests
  BY DEF TypeOK
<1>2. MaxClock \in Nat
  BY EdgeAssumption
<1>3. IsFiniteSet(0..MaxClock)
  BY <1>2, FS_Interval
<1>4. IsFiniteSet((0..MaxClock) \X Requests)
  BY <1>3, FS_Product, EdgeAssumption
<1>5. IsFiniteSet(hits)
  BY <1>1, <1>4, FS_Subset
<1>6. clock \in Nat
  BY <1>2 DEF TypeOK
<1> QED
  BY <1>1, <1>2, <1>5, <1>6

(* A request is let through only when no more than Limit are in the set,   *)
(* which holds all that were let through since any window with it began.   *)
LEMMA NextLimit ==
  ASSUME TypeOK, TypeRest', HitsSound, WindowLimit, [Next]_vars
  PROVE  HitsSound' /\ WindowLimit'
<1>0. Window \in Nat /\ Window > 0 /\ Limit \in Nat /\ MaxClock \in Nat
  BY EdgeAssumption
<1>1. ASSUME UNCHANGED <<hits, admitted>>, clock' = clock \/ clock' = clock + 1
      PROVE  HitsSound' /\ WindowLimit'
  <2>1. HitsSound'
    BY <1>0, <1>1, HitTypes DEF HitsSound
  <2>2. WindowLimit'
    BY <1>1 DEF WindowLimit
  <2> QED
    BY <2>1, <2>2
<1>2. ASSUME NEW r \in Requests, Limiter(r)
      PROVE  HitsSound' /\ WindowLimit'
  <2>1. /\ UNCHANGED clock
        /\ hits' = Trimmed(hits) \cup {<<clock, r>>}
    BY <1>2 DEF Limiter
  <2>2. <<clock, r>>[1] = clock
    OBVIOUS
  <2>3. admitted' = admitted \/ admitted' = admitted \cup {<<clock, r>>}
    BY <1>2 DEF Limiter
  <2>4. HitsSound'
    BY <1>0, <2>1, <2>2, <2>3, HitTypes DEF HitsSound, Trimmed
  <2>5. CASE admitted' = admitted
    BY <2>4, <2>5 DEF WindowLimit
  <2>6. CASE /\ admitted' = admitted \cup {<<clock, r>>}
             /\ Cardinality(hits') <= Limit
    <3>1. SUFFICES ASSUME NEW start \in 0..MaxClock
                   PROVE  Cardinality(Within(start)') <= Limit
      BY <2>4 DEF WindowLimit, Within
    <3>2. CASE clock \in start..(start + Window - 1)
      <4>1. ASSUME NEW h \in Within(start)' PROVE h \in hits'
        <5>1. h[1] \in start..(start + Window - 1) /\ h \in admitted'
          BY DEF Within
        <5>2. h[1] \in Nat /\ clock \in Nat /\ start \in Nat
          BY <1>0, <2>2, <2>6, <5>1, HitTypes
        <5>3. h[1] > clock - Window
          BY <1>0, <3>2, <5>1, <5>2
        <5> QED
          BY <2>1, <2>4, <5>1, <5>3 DEF HitsSound
      <4>2. Within(start)' \subseteq hits'
        BY <4>1
      <4>3. IsFiniteSet(hits')
        <5>1. Trimmed(hits) \subseteq hits
          BY DEF Trimmed
        <5>2. IsFiniteSet(Trimmed(hits))
          BY <5>1, HitTypes, FS_Subset
        <5>3. IsFiniteSet(Trimmed(hits) \cup {<<clock, r>>})
          BY <5>2, FS_AddElement
        <5> QED
          BY <2>1, <5>3, Zenon
      <4>4. Cardinality(Within(start)') <= Cardinality(hits')
            /\ Cardinality(Within(start)') \in Nat /\ Cardinality(hits') \in Nat
        BY <4>2, <4>3, FS_Subset, FS_CardinalityType
      <4> QED
        BY <1>0, <2>6, <4>4
    <3>3. CASE clock \notin start..(start + Window - 1)
      <4>1. Within(start)' = Within(start)
        BY <2>2, <2>6, <3>3 DEF Within
      <4>2. Cardinality(Within(start)') = Cardinality(Within(start))
        BY <4>1, Zenon
      <4>3. Cardinality(Within(start)) <= Limit
        BY DEF WindowLimit, Within
      <4> QED
        BY <4>2, <4>3
    <3> QED
      BY <3>2, <3>3
  <2> QED
    BY <1>2, <2>5, <2>6 DEF Limiter, Allowed
<1>3. ASSUME NEW r \in Requests, Handler(r)
      PROVE  UNCHANGED <<hits, admitted>> /\ clock' = clock
  BY <1>3, HandlerWorks DEF redis
<1>4. CASE UNCHANGED vars
  BY <1>1, <1>4 DEF vars, redis
<1>5. ASSUME NEW r \in Requests, Serve(r) \/ Abort(r) \/ Close(r) \/ \E o \in Operations : Arrive(r, o)
      PROVE  HitsSound' /\ WindowLimit'
  BY <1>1, <1>2, <1>3, <1>5
  DEF Serve, Middleware, LimiterFails, Replay, LookupMisses, LookupFails, Finish, Abort, Close, OnClose, Arrive, redis
<1>6. ASSUME \/ \E s \in storing : Stored(s)
             \/ \E o \in Operations : Forgotten(o)
             \/ Dies \/ OrderMoves \/ Tick
      PROVE  HitsSound' /\ WindowLimit'
  BY <1>1, <1>6 DEF Stored, Forgotten, Dies, OrderMoves, Tick, redis
<1> QED
  BY <1>4, <1>5, <1>6 DEF Next, StoreFails, Crash
-----------------------------------------------------------------------------
(* The specification.                                                      *)

IInv == TypeOK /\ SuccessIsTrue /\ MetricsAgree /\ HitsSound /\ WindowLimit

LEMMA InitInv == Init => IInv
<1> SUFFICES ASSUME Init PROVE IInv
  OBVIOUS
<1> USE DEF Init
<1>0. MaxClock \in Nat /\ Limit \in Nat
  BY EdgeAssumption
<1>1. request \in [Requests -> Place]
  BY DEF Place
<1>2. TypeRest
  BY <1>0 DEF TypeRest
<1>3. /\ {active, total, latency.count} \subseteq Nat
      /\ latency.bucket \in [Buckets -> Nat]
  BY DEF ZeroLatency
<1>4. TypeOK
  BY <1>1, <1>2, <1>3, TypeParts
<1>5. SuccessIsTrue
  BY DEF SuccessIsTrue, New
<1>6. New \notin {Answered, Done}
  BY DEF New, Answered, Done
<1>7. Counted = {} /\ Finished = {}
  BY <1>6 DEF Counted, Finished, InFlight
<1>8. Cardinality(Counted) = Cardinality({}) /\ Cardinality(Finished) = Cardinality({})
  BY <1>7, Zenon
<1>9. Gauges
  BY <1>8, FS_EmptySet DEF Gauges
<1>10. Histogram
  BY DEF Histogram, ZeroLatency
<1>11. MetricsAgree
  BY <1>9, <1>10, MetricsParts
<1>12. HitsSound
  BY DEF HitsSound
<1>13. WindowLimit
  <2>1. SUFFICES ASSUME NEW start \in 0..MaxClock PROVE Cardinality(Within(start)) <= Limit
    BY DEF WindowLimit, Within
  <2>2. Within(start) = {}
    BY DEF Within
  <2>3. Cardinality(Within(start)) = Cardinality({})
    BY <2>2, Zenon
  <2> QED
    BY <1>0, <2>3, FS_EmptySet
<1> QED
  BY <1>4, <1>5, <1>11, <1>12, <1>13 DEF IInv

LEMMA NextInv == IInv /\ [Next]_vars => IInv'
<1> SUFFICES ASSUME IInv, [Next]_vars PROVE IInv'
  OBVIOUS
<1>1. TypeOK /\ SuccessIsTrue /\ Gauges /\ Histogram /\ HitsSound /\ WindowLimit
  BY MetricsParts DEF IInv
<1>2. CASE UNCHANGED vars
  <2>1. UNCHANGED <<request, storing, active, total, latency, cache, hits, admitted, clock,
                    placed, target>>
    BY <1>2 DEF vars, process, redis, orders
  <2>2. TypeOK'
    BY <1>1, <2>1 DEF TypeOK
  <2>3. SuccessIsTrue' /\ HitsSound' /\ WindowLimit'
    BY <1>1, <2>1 DEF SuccessIsTrue, Happened, HitsSound, WindowLimit
  <2>4. MetricsAgree'
    BY <2>1 DEF IInv, MetricsAgree, InFlight
  <2> QED
    BY <2>2, <2>3, <2>4 DEF IInv
<1>3. CASE Next
  <2>1. Quiet \/ Opens \/ Leaves \/ Closes \/ Restarts
    BY <1>1, <1>3, StepsOfMetrics
  <2>2. Gauges'
    BY <1>1, <2>1, NextGauges
  <2>3. Histogram' /\ latency'.bucket \in [Buckets -> Nat] /\ latency'.count \in Nat
    BY <1>1, <2>1, NextHistogram
  <2>4. active' \in Nat /\ total' \in Nat
    <3>1. Counted' \subseteq Requests /\ Finished' \subseteq Requests
      BY DEF Counted, Finished
    <3>2. IsFiniteSet(Counted') /\ IsFiniteSet(Finished')
      BY <3>1, FS_Subset, EdgeAssumption
    <3> QED
      BY <2>2, <3>2, FS_CardinalityType DEF Gauges
  <2>5. request' \in [Requests -> Place]
    BY <1>1, <1>3, NextRequest
  <2>6. TypeRest'
    BY <1>1, <1>3, NextRest
  <2>7. TypeOK'
    BY <2>3, <2>4, <2>5, <2>6 DEF TypeOK, TypeRest, Place, Flying
  <2>8. MetricsAgree'
    BY <2>2, <2>3 DEF MetricsAgree, Gauges, Histogram, Counted, Finished
  <2>9. SuccessIsTrue'
    BY <1>1, NextSuccess
  <2>10. HitsSound' /\ WindowLimit'
    BY <1>1, <2>6, NextLimit
  <2> QED
    BY <2>7, <2>8, <2>9, <2>10 DEF IInv
<1> QED
  BY <1>2, <1>3

(* The inductive invariant: types, answers, metrics and the limiter's set. *)
THEOREM Invariance == Spec => []IInv
  BY InitInv, NextInv, PTL DEF Spec

(* Every request, entry and counter keeps its type; in particular neither  *)
(* gauge nor counter ever goes below zero.                                 *)
THEOREM TypeCorrect == Spec => []TypeOK
<1>1. IInv => TypeOK
  BY DEF IInv
<1> QED
  BY <1>1, Invariance, PTL

(* No client is told of a success that is none, from a handler or from the *)
(* idempotency cache.                                                      *)
THEOREM SuccessesAreTrue == Spec => []SuccessIsTrue
<1>1. IInv => SuccessIsTrue
  BY DEF IInv
<1> QED
  BY <1>1, Invariance, PTL

(* Gauge, counter and histogram agree with the requests.                   *)
THEOREM MetricsCorrect == Spec => []MetricsAgree
<1>1. IInv => MetricsAgree
  BY DEF IInv
<1> QED
  BY <1>1, Invariance, PTL

(* No window lets more than Limit requests through, wherever it begins.    *)
THEOREM LimitHolds == Spec => []WindowLimit
<1>1. IInv => WindowLimit
  BY DEF IInv
<1> QED
  BY <1>1, Invariance, PTL

(* A request is rejected only when somebody was there within the window.   *)
THEOREM RetryIsHonoured == Spec => RetryAfterHonoured
<1> DEFINE Quiescent(r) == request[r].pc = "limit" /\ \A h \in hits : h[1] + Window <= clock
<1>1. ASSUME IInv, [Next]_vars, NEW r \in Requests, Quiescent(r)
      PROVE  request'[r].pc # "reply"
  <2>0. TypeOK
    BY <1>1 DEF IInv
  <2>1. request[r] \in Flying
    BY <1>1, <2>0, Places
  <2>2. ASSUME NEW q \in Requests, NEW v, Works(q, v), q = r => v.pc # "reply"
        PROVE  request'[r].pc # "reply"
    BY <1>1, <2>0, <2>2 DEF Works, TypeOK
  <2>3. ASSUME NEW q \in Requests, Limiter(q) \/ LimiterFails(q)
        PROVE  request'[r].pc # "reply"
    <3>1. CASE q # r
      BY <2>0, <2>2, <2>3, <3>1, LimiterWorks
    <3>2. CASE q = r
      <4>1. AfterLimiter(r) \in {"lookup", "handle"}
        BY DEF AfterLimiter
      <4>2. ~ Fails(r, "RateLimitError") \/ Goes(r, AfterLimiter(r))
        <5>1. SUFFICES ASSUME Limiter(r) PROVE Goes(r, AfterLimiter(r))
          BY <2>3, <3>2 DEF LimiterFails
        <5>2. Trimmed(hits) = {}
          <6>1. Window \in Nat
            BY EdgeAssumption
          <6> QED
            BY <1>1, <2>0, <6>1, HitTypes DEF Trimmed
        <5>3. hits' = {<<clock, r>>}
          BY <5>1, <5>2 DEF Limiter
        <5>4. Cardinality(hits') = Cardinality({<<clock, r>>})
          BY <5>3, Zenon
        <5>5. Cardinality({<<clock, r>>}) = 1
          BY FS_Singleton
        <5>6. Cardinality(hits') <= Limit
          BY <5>4, <5>5, EdgeAssumption
        <5> QED
          BY <5>1, <5>6 DEF Limiter, Allowed
      <4>3. Goes(r, AfterLimiter(r))
        BY <2>3, <3>2, <4>2 DEF Limiter, LimiterFails
      <4> QED
        BY <2>0, <2>1, <2>2, <4>1, <4>3, GoesWorks
    <3> QED
      BY <3>1, <3>2
  <2>4. ASSUME NEW q \in Requests, Replay(q) \/ LookupMisses(q) \/ LookupFails(q) \/ Handler(q)
        PROVE  request'[r].pc # "reply"
    <3>1. q # r
      BY <1>1, <2>4 DEF Replay, LookupMisses, LookupFails, Handler
    <3>2. \E v : Works(q, v)
      BY <2>0, <2>4, ReplayWorks, LookupWorks, HandlerWorks
    <3> QED
      BY <2>2, <3>1, <3>2
  <2>5. ASSUME NEW q \in Requests, Finish(q) \/ Abort(q) \/ Close(q) \/ \E o \in Operations : Arrive(q, o)
        PROVE  request'[r].pc # "reply"
    <3>1. CASE Finish(q) \/ Close(q)
      <4>1. request[q].pc \in {"reply", "answered"}
        BY <3>1 DEF Finish, Close, Answered
      <4>2. q # r
        BY <1>1, <4>1
      <4>3. request'[r] = request[r]
        BY <2>0, <3>1, <4>2 DEF Finish, Close, TypeOK
      <4> QED
        BY <1>1, <4>3
    <3>2. CASE Abort(q)
      <4>1. request'[r].pc = request[r].pc
        BY <2>0, <2>1, <3>2 DEF Abort, TypeOK, Flying
      <4> QED
        BY <1>1, <4>1
    <3>3. ASSUME NEW o \in Operations, Arrive(q, o) PROVE request'[r].pc # "reply"
      <4>1. q # r
        BY <1>1, <3>3 DEF Arrive, New
      <4>2. request'[r] = request[r]
        BY <2>0, <3>3, <4>1 DEF Arrive, TypeOK
      <4> QED
        BY <1>1, <4>2
    <3> QED
      BY <2>5, <3>1, <3>2, <3>3
  <2>6. ASSUME Dies PROVE request'[r].pc # "reply"
    BY <2>6 DEF Dies, New, Lost
  <2>7. UNCHANGED request => request'[r].pc # "reply"
    BY <1>1
  <2>8. ASSUME \/ \E s \in storing : Stored(s)
               \/ \E o \in Operations : Forgotten(o)
               \/ OrderMoves \/ Tick \/ UNCHANGED vars
        PROVE  UNCHANGED request
    BY <2>8 DEF Stored, Forgotten, OrderMoves, Tick, vars
  <2> QED
    BY <1>1, <2>3, <2>4, <2>5, <2>6, <2>7, <2>8 DEF Next, Serve, Middleware, StoreFails, Crash
<1>2. IInv /\ [Next]_vars
        => [\A r \in Requests :
              /\ request[r].pc = "limit"
              /\ \A h \in hits : h[1] + Window <= clock
              => request'[r].pc # "reply"]_vars
  BY <1>1
<1> QED
  BY <1>2, Invariance, PTL DEF Spec, RetryAfterHonoured
=============================================================================
