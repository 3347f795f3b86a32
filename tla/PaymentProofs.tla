--------------------------- MODULE PaymentProofs ---------------------------
(***************************************************************************)
(* Proofs about the payment service, for any sets of orders, keys, refund  *)
(* keys and workers.  The inductive invariant is IInv of Payment.  At the  *)
(* end, about the circuit breaker that the service's charges go through.   *)
(***************************************************************************)
EXTENDS Payment, CircuitBreaker, SequenceTheorems, FiniteSetTheorems, TLAPS

(* The statuses, and the chains of transitions the operations make.        *)
LEMMA StatusNames ==
  /\ Statuses = {"PENDING", "PROCESSING", "COMPLETED", "FAILED", "REFUND_PENDING", "REFUNDED"}
  /\ Absent \notin Statuses
  BY DEF Statuses, Transitions, Absent

(* Joining short sequences.                                                *)
LEMMA JoinOnes ==
  ASSUME NEW S, NEW a \in S, NEW b \in S
  PROVE  <<a>> \o <<b>> = <<a, b>>
<1> DEFINE s == <<a>> \o <<b>>
           t == <<a, b>>
<1>1. s \in Seq(S) /\ Len(s) = 2 /\ s[1] = a /\ s[2] = b
  BY ConcatProperties, <<a>> \in Seq(S), <<b>> \in Seq(S)
<1>2. t \in Seq(S) /\ Len(t) = 2 /\ t[1] = a /\ t[2] = b
  OBVIOUS
<1> HIDE DEF s, t
<1>3. \A i \in 1..Len(s) : s[i] = t[i]
  BY <1>1, <1>2
<1>4. s = t
  BY <1>1, <1>2, <1>3, SeqEqual
<1> QED
  BY <1>4 DEF s, t

LEMMA JoinTwos ==
  ASSUME NEW S, NEW a \in S, NEW b \in S, NEW c \in S, NEW d \in S
  PROVE  <<a, b>> \o <<c, d>> = <<a, b, c, d>>
<1> DEFINE s == <<a, b>> \o <<c, d>>
           t == <<a, b, c, d>>
<1>1. s \in Seq(S) /\ Len(s) = 4 /\ s[1] = a /\ s[2] = b /\ s[3] = c /\ s[4] = d
  BY ConcatProperties, <<a, b>> \in Seq(S), <<c, d>> \in Seq(S)
<1>2. t \in Seq(S) /\ Len(t) = 4 /\ t[1] = a /\ t[2] = b /\ t[3] = c /\ t[4] = d
  OBVIOUS
<1> HIDE DEF s, t
<1>3. \A i \in 1..Len(s) : s[i] = t[i]
  BY <1>1, <1>2
<1>4. s = t
  BY <1>1, <1>2, <1>3, SeqEqual
<1> QED
  BY <1>4 DEF s, t

LEMMA JoinNone ==
  ASSUME NEW S, NEW a \in S
  PROVE  <<>> \o <<a>> = <<a>>
  BY ConcatEmptySeq, <<a>> \in Seq(S)

(* The fields a task has, by what the worker is doing.                     *)
LEMMA TaskFields ==
  ASSUME NEW t \in Tasks
  PROVE  /\ t.pc \in {"idle", "save", "charge", "charged", "answer", "write",
                     "refund", "refunded", "record"}
         /\ t.pc # "idle" => t.order \in Orders
         /\ t.pc \in {"save", "charge", "charged", "answer"} => t.key \in Keys
         /\ t.pc \in {"refund", "refunded", "record"} => t.key \in RefundKeys
         /\ t.pc \in {"refund", "refunded"} => t.seen = 3
         /\ t.pc = "idle" => t = Idle
  BY DEF Tasks, Idle

(* A worker that does nothing is in a legal state.                         *)
LEMMA IdleIsTask ==
  /\ Idle \in Tasks /\ Idle.pc = "idle"
  /\ Fits(Idle)
  /\ \A o : ~ ToCharge(Idle, o) /\ ~ ToRecord(Idle, o)
  BY DEF Tasks, Idle, Fits, ToCharge, ToRecord
-----------------------------------------------------------------------------
(* The invariant holds of the empty tables.                                *)
LEMMA InitIInv == Init => IInv
<1> SUFFICES ASSUME Init PROVE IInv
  OBVIOUS
<1>1. TypeOK
  BY IdleIsTask DEF Init, TypeOK
<1>2. ASSUME NEW o \in Orders PROVE Story(o)
  BY DEF Init, Story
<1>3. ASSUME NEW w \in Workers
      PROVE Fits(task[w]) /\ \A o : ~ ToCharge(task[w], o) /\ ~ ToRecord(task[w], o)
  <2>1. task[w] = Idle
    BY DEF Init
  <2> QED
    BY <2>1, IdleIsTask
<1>4. KeysDiffer /\ AnswersAgree
  BY DEF Init, KeysDiffer, AnswersAgree
<1> QED
  BY <1>1, <1>2, <1>3, <1>4 DEF IInv, Alone
-----------------------------------------------------------------------------
(* What status and version say of each other.                              *)
LEMMA StoryFacts ==
  ASSUME IInv, NEW o \in Orders
  PROVE  /\ status[o] = Absent <=> version[o] = 0
         /\ status[o] = "PENDING" <=> version[o] = 1
         /\ status[o] = "PROCESSING" <=> version[o] = 2
         /\ status[o] \in {"COMPLETED", "FAILED"} <=> version[o] = 3
         /\ status[o] = "REFUNDED" <=> version[o] = 5
         /\ status[o] \in {Absent, "PENDING"} => charges[o] = 0
         /\ status[o] \in {"COMPLETED", "REFUNDED"} => charges[o] = 1
         /\ charges[o] \in {0, 1}
         /\ timeline[o] =
              CASE status[o] \in {Absent, "PENDING"} -> <<>>
                [] status[o] = "PROCESSING" -> <<"PROCESSING">>
                [] status[o] = "COMPLETED" -> <<"PROCESSING", "COMPLETED">>
                [] status[o] = "FAILED" -> <<"PROCESSING", "FAILED">>
                [] status[o] = "REFUNDED" ->
                     <<"PROCESSING", "COMPLETED", "REFUND_PENDING", "REFUNDED">>
         /\ status[o] \in
              {Absent, "PENDING", "PROCESSING", "COMPLETED", "FAILED", "REFUNDED"}
<1>1. Story(o)
  BY DEF IInv
<1> QED
  BY <1>1 DEF Story, Absent

(* What a step of worker w does to the tasks.                              *)
LEMMA TasksAfter ==
  ASSUME IInv, NEW w \in Workers, Becomes(w, task'[w]), task'[w] \in Tasks
  PROVE  /\ task' \in [Workers -> Tasks]
         /\ \A v \in Workers : v # w => task'[v] = task[v]
  BY DEF Becomes, IInv, TypeOK

(* Workers stay alone if the one that moves takes over nothing new, or     *)
(* takes over what no other worker has.                                    *)
LEMMA StillAlone ==
  ASSUME IInv, NEW w \in Workers, Becomes(w, task'[w]), task'[w] \in Tasks,
         \A o \in Orders, v \in Workers \ {w} :
           /\ ToCharge(task'[w], o) => ToCharge(task[w], o) \/ ~ ToCharge(task[v], o)
           /\ ToRecord(task'[w], o) => ToRecord(task[w], o) \/ ~ ToRecord(task[v], o)
  PROVE  Alone'
<1> SUFFICES ASSUME NEW o \in Orders, NEW u \in Workers, NEW v \in Workers
             PROVE /\ ToCharge(task'[u], o) /\ ToCharge(task'[v], o) => u = v
                   /\ ToRecord(task'[u], o) /\ ToRecord(task'[v], o) => u = v
  BY DEF Alone, ToCharge, ToRecord
<1>1. \A x \in Workers : x # w => task'[x] = task[x]
  BY TasksAfter
<1>2. /\ ToCharge(task[u], o) /\ ToCharge(task[v], o) => u = v
      /\ ToRecord(task[u], o) /\ ToRecord(task[v], o) => u = v
  BY DEF IInv, Alone
<1>3. CASE u = w /\ v # w
  BY <1>1, <1>2, <1>3
<1>4. CASE u # w /\ v = w
  BY <1>1, <1>2, <1>4
<1>5. CASE u # w /\ v # w
  BY <1>1, <1>2, <1>5
<1> QED
  BY <1>3, <1>4, <1>5

(* A step that only gives one worker another task, and may let it answer.  *)
LEMMA Retask ==
  ASSUME IInv, NEW w \in Workers,
         Becomes(w, task'[w]), task'[w] \in Tasks, Fits(task'[w]),
         \A o \in Orders : ToCharge(task'[w], o) => ToCharge(task[w], o),
         \A o \in Orders : ToRecord(task'[w], o) => ToRecord(task[w], o),
         answers' \in [Keys -> SUBSET Orders],
         \A k \in Keys : \A o \in answers'[k] : keyOf[o] = k,
         UNCHANGED <<row, keyOf, refunds, gateway>>
  PROVE  IInv'
<1> USE DEF row, gateway
<1>1. TypeOK'
  BY TasksAfter DEF IInv, TypeOK
<1>2. ASSUME NEW o \in Orders PROVE Story(o)'
  BY DEF IInv, Story
<1>3. ASSUME NEW v \in Workers PROVE Fits(task[v])'
  <2>1. Fits(task'[v])
    BY TasksAfter DEF IInv
  <2> QED
    BY <2>1 DEF Fits
<1>4. Alone'
  BY StillAlone
<1>5. KeysDiffer' /\ AnswersAgree'
  BY DEF IInv, KeysDiffer, AnswersAgree
<1> QED
  BY <1>1, <1>2, <1>3, <1>4, <1>5 DEF IInv

(* What the step of a worker makes of its own task.                        *)
LEMMA NewTask ==
  ASSUME IInv, NEW w \in Workers, NEW t, Becomes(w, t)
  PROVE  task'[w] = t /\ Becomes(w, task'[w])
  BY DEF IInv, TypeOK, Becomes

(* A worker that gives up leaves the tables as they are.                   *)
LEMMA DropIInv ==
  ASSUME IInv, NEW w \in Workers, Becomes(w, Idle),
         UNCHANGED <<row, keyOf, refunds, gateway, answers>>
  PROVE  IInv'
<1>1. task'[w] = Idle /\ Becomes(w, task'[w])
  BY NewTask, IdleIsTask
<1>2. answers' \in [Keys -> SUBSET Orders] /\ \A k \in Keys : \A o \in answers'[k] : keyOf[o] = k
  BY DEF IInv, TypeOK, AnswersAgree
<1>3. UNCHANGED <<row, keyOf, refunds, gateway>>
  OBVIOUS
<1> QED
  BY <1>1, <1>2, <1>3, IdleIsTask, Retask

(* Looking a key up, and answering with a payment.                         *)
LEMMA AnswerIInv ==
  ASSUME IInv, NEW w \in Workers,
         Answer(w) \/ \E k \in Keys, o \in Orders : Finds(w, k, o)
  PROVE  IInv'
<1>1. CASE Answer(w)
  <2>1. task[w] \in Tasks /\ Fits(task[w])
    BY DEF IInv, TypeOK
  <2>2. task[w].order \in Orders /\ task[w].key \in Keys /\ keyOf[task[w].order] = task[w].key
    BY <1>1, <2>1, TaskFields DEF Answer, At, Fits
  <2>3. /\ answers' \in [Keys -> SUBSET Orders]
        /\ \A k \in Keys : \A o \in answers'[k] : keyOf[o] = k
    BY <1>1, <2>2 DEF Answer, IInv, TypeOK, AnswersAgree
  <2>4. task'[w] = Idle /\ Becomes(w, task'[w])
    BY <1>1, NewTask, IdleIsTask DEF Answer
  <2>5. UNCHANGED <<row, keyOf, refunds, gateway>>
    BY <1>1 DEF Answer
  <2> QED
    BY <2>3, <2>4, <2>5, IdleIsTask, Retask
<1>2. ASSUME NEW k \in Keys, NEW o \in Orders, Finds(w, k, o) PROVE IInv'
  <2>1. /\ answers' \in [Keys -> SUBSET Orders]
        /\ \A j \in Keys : \A p \in answers'[j] : keyOf[p] = j
    BY <1>2 DEF Finds, IInv, TypeOK, AnswersAgree
  <2>2. task'[w] = task[w] /\ Becomes(w, task'[w]) /\ task[w] \in Tasks /\ Fits(task[w])
    BY <1>2 DEF Finds, Becomes, IInv, TypeOK
  <2>3. UNCHANGED <<row, keyOf, refunds, gateway>>
    BY <1>2 DEF Finds
  <2> QED
    BY <2>1, <2>2, <2>3, Retask
<1> QED
  BY <1>1, <1>2

(* The steps that begin an operation, and those that prepare a write.      *)
LEMMA PrepareIInv ==
  ASSUME IInv, NEW w \in Workers,
         \/ \E k \in Keys, o \in Orders : Misses(w, k, o)
         \/ \E o \in Orders, to \in {"COMPLETED", "FAILED"} : Webhook(w, o, to)
         \/ \E k \in RefundKeys, o \in Orders : RefundBegins(w, k, o)
         \/ ChargeEnds(w)
         \/ RefundConfirmed(w)
  PROVE  IInv'
<1> DEFINE t == task'[w]
           Good == /\ Becomes(w, t) /\ t \in Tasks /\ Fits(t)
                   /\ \A o \in Orders : ~ ToCharge(t, o) /\ ~ ToRecord(t, o)
                   /\ UNCHANGED <<row, keyOf, refunds, gateway, answers>>
<1> SUFFICES Good
  <2>1. /\ answers \in [Keys -> SUBSET Orders]
        /\ \A k \in Keys : \A o \in answers[k] : keyOf[o] = k
    BY DEF IInv, TypeOK, AnswersAgree
  <2> QED
    BY <2>1, Retask
<1>1. /\ task[w] \in Tasks /\ Fits(task[w])
      /\ \A o \in Orders : Story(o) /\ keyOf[o] \in Keys \cup {NoKey}
      /\ \A o \in Orders : version[o] \in 0..5 /\ charges[o] \in Nat
  BY DEF IInv, TypeOK
<1>2. ASSUME NEW k \in Keys, NEW o \in Orders, Misses(w, k, o) PROVE Good
  <2>1. t = [pc |-> "save", order |-> o, key |-> k] /\ Becomes(w, t)
    BY <1>2, NewTask DEF Misses
  <2>2. UNCHANGED <<row, keyOf, refunds, gateway, answers>>
    BY <1>2 DEF Misses
  <2> HIDE DEF t
  <2>3. t \in Tasks /\ t.pc = "save"
    BY <2>1 DEF Tasks
  <2> QED
    BY <2>1, <2>2, <2>3 DEF Fits, ToCharge, ToRecord
<1>3. ASSUME NEW o \in Orders, NEW to \in {"COMPLETED", "FAILED"}, Webhook(w, o, to)
      PROVE Good
  <2>1. version[o] = 2 /\ status[o] = "PROCESSING" /\ (to = "COMPLETED" => charges[o] = 1)
    BY <1>1, <1>3, StoryFacts DEF Webhook
  <2>2. /\ t = [pc |-> "write", order |-> o, seen |-> 2, from |-> "PROCESSING",
                path |-> <<to>>, next |-> Idle]
        /\ Becomes(w, t)
    BY <1>3, <2>1, NewTask DEF Webhook, Prepare
  <2>3. UNCHANGED <<row, keyOf, refunds, gateway, answers>>
    BY <1>3 DEF Webhook
  <2> HIDE DEF t
  <2>4. t \in Tasks
    BY <2>2, StatusNames DEF Tasks
  <2>5. Fits(t)
    BY <2>1, <2>2 DEF Fits
  <2> QED
    BY <2>2, <2>3, <2>4, <2>5 DEF ToCharge, ToRecord
<1>4. ASSUME NEW k \in RefundKeys, NEW o \in Orders, RefundBegins(w, k, o) PROVE Good
  <2>1. version[o] = 3 /\ status[o] = "COMPLETED"
    BY <1>1, <1>4, StoryFacts, StatusNames DEF RefundBegins
  <2>2. t = [pc |-> "refund", order |-> o, key |-> k, seen |-> 3] /\ Becomes(w, t)
    BY <1>4, <2>1, NewTask DEF RefundBegins, RefundOf
  <2>3. UNCHANGED <<row, keyOf, refunds, gateway, answers>>
    BY <1>4 DEF RefundBegins, RefundOf
  <2> HIDE DEF t
  <2>4. t \in Tasks
    BY <2>2 DEF Tasks
  <2>5. Fits(t)
    BY <2>1, <2>2 DEF Fits
  <2> QED
    BY <2>2, <2>3, <2>4, <2>5 DEF ToCharge, ToRecord
<1>5. CASE ChargeEnds(w)
  <2>1. PICK o, k, to : /\ o = task[w].order /\ k = task[w].key
                        /\ to \in {"COMPLETED", "FAILED"}
                        /\ to = "COMPLETED" => At(w, "charged")
                        /\ Prepare(w, o, 2, "PROCESSING", <<to>>,
                                   [pc |-> "answer", order |-> o, key |-> k])
    BY <1>5 DEF ChargeEnds
  <2>2. o \in Orders /\ k \in Keys /\ keyOf[o] = k /\ version[o] >= 2
    BY <1>1, <1>5, <2>1, TaskFields DEF ChargeEnds, At, Fits
  <2>3. to = "COMPLETED" => charges[o] = 1
    BY <1>1, <2>1 DEF At, Fits
  <2>4. /\ t = [pc |-> "write", order |-> o, seen |-> 2, from |-> "PROCESSING",
                path |-> <<to>>, next |-> [pc |-> "answer", order |-> o, key |-> k]]
        /\ Becomes(w, t)
    BY <2>1, NewTask DEF Prepare
  <2>5. UNCHANGED <<row, keyOf, refunds, gateway, answers>>
    BY <1>5 DEF ChargeEnds
  <2> HIDE DEF t
  <2>6. t \in Tasks
    BY <2>1, <2>2, <2>4, StatusNames DEF Tasks
  <2>7. Fits(t)
    BY <2>1, <2>2, <2>3, <2>4 DEF Fits
  <2> QED
    BY <2>4, <2>5, <2>6, <2>7 DEF ToCharge, ToRecord
<1>6. CASE RefundConfirmed(w)
  <2>1. PICK o, k : /\ o = task[w].order /\ k = task[w].key
                    /\ Prepare(w, o, 3, "COMPLETED", <<"REFUND_PENDING", "REFUNDED">>,
                               [pc |-> "record", order |-> o, key |-> k])
    BY <1>1, <1>6, TaskFields DEF RefundConfirmed, At
  <2>2. /\ o \in Orders /\ k \in RefundKeys /\ k \in paidBack[o]
        /\ status[o] \in {"COMPLETED", "REFUNDED"}
    BY <1>1, <1>6, <2>1, TaskFields DEF RefundConfirmed, At, Fits
  <2>3. /\ t = [pc |-> "write", order |-> o, seen |-> 3, from |-> "COMPLETED",
                path |-> <<"REFUND_PENDING", "REFUNDED">>,
                next |-> [pc |-> "record", order |-> o, key |-> k]]
        /\ Becomes(w, t)
    BY <2>1, NewTask DEF Prepare
  <2>4. UNCHANGED <<row, keyOf, refunds, gateway, answers>>
    BY <1>6 DEF RefundConfirmed
  <2> HIDE DEF t
  <2>5. t \in Tasks
    BY <2>2, <2>3, StatusNames DEF Tasks
  <2>6. Fits(t)
    BY <2>2, <2>3 DEF Fits
  <2> QED
    BY <2>3, <2>4, <2>5, <2>6 DEF ToCharge, ToRecord
<1> QED
  BY <1>2, <1>3, <1>4, <1>5, <1>6
-----------------------------------------------------------------------------
(* The gateway charges: only one worker was to, and it had not charged.    *)
LEMMA ChargeIInv ==
  ASSUME IInv, NEW w \in Workers, Charge(w)
  PROVE  IInv'
<1>1. PICK o, k : o = task[w].order /\ k = task[w].key
  OBVIOUS
<1>2. task[w] \in Tasks /\ Fits(task[w]) /\ task[w].pc = "charge"
  BY DEF IInv, TypeOK, Charge, At
<1>3. /\ o \in Orders /\ k \in Keys /\ keyOf[o] = k
      /\ version[o] >= 2 /\ charges[o] = 0
  BY <1>1, <1>2, TaskFields DEF Fits
<1>4. /\ charges' = [charges EXCEPT ![o] = 1]
      /\ UNCHANGED <<status, version, timeline, keyOf, refunds, paidBack, answers>>
  BY <1>1, <1>3 DEF Charge, row
<1>5. task'[w] = [pc |-> "charged", order |-> o, key |-> k] /\ Becomes(w, task'[w])
  BY <1>1, NewTask DEF Charge
<1>6. task'[w] \in Tasks /\ task'[w].pc = "charged"
  BY <1>3, <1>5 DEF Tasks
<1>7. charges \in [Orders -> Nat] /\ charges'[o] = 1
      /\ \A p \in Orders : p # o => charges'[p] = charges[p]
  BY <1>3, <1>4 DEF IInv, TypeOK
<1>8. TypeOK'
  BY <1>4, <1>5, <1>6, TasksAfter DEF IInv, TypeOK
<1>9. ASSUME NEW p \in Orders PROVE Story(p)'
  <2>1. Story(p) /\ (p = o => status[p] \in {"PROCESSING", "FAILED"})
    BY <1>3, StoryFacts, StatusNames DEF IInv
  <2> QED
    BY <1>4, <1>7, <2>1 DEF Story, Absent
<1>10. ASSUME NEW v \in Workers PROVE Fits(task[v])'
  <2>1. CASE v = w
    BY <1>3, <1>4, <1>5, <1>7, <2>1 DEF Fits
  <2>2. CASE v # w
    <3>1. task'[v] = task[v] /\ Fits(task[v]) /\ task[v] \in Tasks
      BY <1>5, <1>6, <2>2, TasksAfter DEF IInv, TypeOK
    <3>2. ToCharge(task[w], o) /\ ~ ToCharge(task[v], o)
      BY <1>1, <1>2, <1>3, <2>2 DEF IInv, Alone, ToCharge
    <3>3. task[v].pc # "idle" => task[v].order \in Orders
      BY <3>1, TaskFields
    <3>4. task[v].order # o => Fits(task[v])'
      <4>1. CASE task[v].pc = "idle"
        BY <3>1, <4>1 DEF Fits
      <4>2. CASE task[v].pc # "idle" /\ task[v].order # o
        <5>1. charges'[task[v].order] = charges[task[v].order]
          BY <1>7, <3>3, <4>2
        <5> QED
          BY <1>4, <3>1, <5>1, Zenon DEF Fits
      <4> QED
        BY <4>1, <4>2
    <3>5. task[v].order = o => Fits(task[v])'
      <4>1. task[v].order = o =>
              /\ task[v].pc \notin {"charge", "charged"}
              /\ task[v].pc = "write" => task[v].from # "PENDING"
        BY <1>3, <3>1, <3>2 DEF Fits, ToCharge
      <4> QED
        BY <1>4, <1>7, <3>1, <4>1, Zenon DEF Fits
    <3> QED
      BY <3>4, <3>5
  <2> QED
    BY <2>1, <2>2
<1>11. Alone'
  BY <1>5, <1>6, StillAlone DEF ToCharge, ToRecord
<1>12. KeysDiffer' /\ AnswersAgree'
  BY <1>4 DEF IInv, KeysDiffer, AnswersAgree
<1> QED
  BY <1>8, <1>9, <1>10, <1>11, <1>12 DEF IInv

(* The gateway pays back, for a payment that was charged.                  *)
LEMMA PaysBackIInv ==
  ASSUME IInv, NEW w \in Workers, PaysBack(w)
  PROVE  IInv'
<1>1. PICK o, k : o = task[w].order /\ k = task[w].key
  OBVIOUS
<1>2. task[w] \in Tasks /\ Fits(task[w]) /\ task[w].pc = "refund"
  BY DEF IInv, TypeOK, PaysBack, At
<1>3. /\ o \in Orders /\ k \in RefundKeys /\ task[w].seen = 3
      /\ status[o] \in {"COMPLETED", "REFUNDED"}
  BY <1>1, <1>2, TaskFields DEF Fits
<1>4. /\ paidBack' = [paidBack EXCEPT ![o] = @ \cup {k}]
      /\ UNCHANGED <<status, version, timeline, keyOf, refunds, charges, answers>>
  BY <1>1 DEF PaysBack, row
<1>5. /\ task'[w] = [pc |-> "refunded", order |-> o, key |-> k, seen |-> 3]
      /\ Becomes(w, task'[w])
  BY <1>1, <1>3, NewTask DEF PaysBack
<1>6. task'[w] \in Tasks /\ task'[w].pc = "refunded"
  BY <1>3, <1>5 DEF Tasks
<1>7. /\ paidBack'[o] = paidBack[o] \cup {k}
      /\ \A p \in Orders : p # o => paidBack'[p] = paidBack[p]
  BY <1>3, <1>4 DEF IInv, TypeOK
<1>8. TypeOK'
  BY <1>3, <1>4, <1>5, <1>6, TasksAfter DEF IInv, TypeOK
<1>9. ASSUME NEW p \in Orders PROVE Story(p)'
  <2>1. Story(p)
    BY DEF IInv
  <2> QED
    BY <1>3, <1>4, <1>7, <2>1 DEF Story
<1>10. ASSUME NEW v \in Workers PROVE Fits(task[v])'
  <2>1. CASE v = w
    BY <1>3, <1>4, <1>5, <1>7, <2>1 DEF Fits
  <2>2. CASE v # w
    <3>1. task'[v] = task[v] /\ Fits(task[v]) /\ task[v] \in Tasks
      BY <1>5, <1>6, <2>2, TasksAfter DEF IInv, TypeOK
    <3>2. \A p \in Orders : paidBack[p] \subseteq paidBack'[p]
      BY <1>7
    <3>3. CASE task[v].pc = "idle"
      BY <3>1, <3>3 DEF Fits
    <3>4. CASE task[v].pc # "idle"
      <4>1. paidBack[task[v].order] \subseteq paidBack'[task[v].order]
        BY <3>1, <3>2, <3>4, TaskFields
      <4>2. /\ UNCHANGED <<status, version, keyOf, refunds, charges>>
            /\ \A l \in paidBack[task[v].order] : l \in paidBack'[task[v].order]
        BY <1>4, <4>1
      <4> QED
        BY <3>1, <4>2, Zenon DEF Fits
    <3> QED
      BY <3>3, <3>4
  <2> QED
    BY <2>1, <2>2
<1>11. Alone'
  BY <1>5, <1>6, StillAlone DEF ToCharge, ToRecord
<1>12. KeysDiffer' /\ AnswersAgree'
  BY <1>4 DEF IInv, KeysDiffer, AnswersAgree
<1> QED
  BY <1>8, <1>9, <1>10, <1>11, <1>12 DEF IInv

(* The one worker that refunded a payment records its refund.              *)
LEMMA RecordRefundIInv ==
  ASSUME IInv, NEW w \in Workers, RecordRefund(w)
  PROVE  IInv'
<1>1. PICK o, k : o = task[w].order /\ k = task[w].key
  OBVIOUS
<1>2. task[w] \in Tasks /\ Fits(task[w]) /\ task[w].pc = "record"
  BY DEF IInv, TypeOK, RecordRefund, At
<1>3. /\ o \in Orders /\ k \in RefundKeys /\ k \in paidBack[o]
      /\ status[o] = "REFUNDED" /\ refunds[o] = {}
  BY <1>1, <1>2, TaskFields DEF Fits
<1>4. /\ refunds' = [refunds EXCEPT ![o] = {k}]
      /\ UNCHANGED <<status, version, timeline, keyOf, charges, paidBack, answers>>
  BY <1>1, <1>3 DEF RecordRefund, row, gateway
<1>5. task'[w] = Idle /\ Becomes(w, task'[w])
  BY NewTask, IdleIsTask DEF RecordRefund
<1>6. /\ refunds'[o] = {k}
      /\ \A p \in Orders : p # o => refunds'[p] = refunds[p]
  BY <1>3, <1>4 DEF IInv, TypeOK
<1>7. TypeOK'
  BY <1>3, <1>4, <1>5, IdleIsTask, TasksAfter DEF IInv, TypeOK
<1>8. ASSUME NEW p \in Orders PROVE Story(p)'
  <2>1. Story(p)
    BY DEF IInv
  <2> QED
    BY <1>3, <1>4, <1>6, <2>1 DEF Story
<1>9. ASSUME NEW v \in Workers PROVE Fits(task[v])'
  <2>1. CASE v = w
    BY <1>5, <2>1 DEF Fits, Idle
  <2>2. CASE v # w
    <3>1. task'[v] = task[v] /\ Fits(task[v]) /\ task[v] \in Tasks
      BY <1>5, <2>2, IdleIsTask, TasksAfter DEF IInv, TypeOK
    <3>2. ToRecord(task[w], o) /\ ~ ToRecord(task[v], o)
      BY <1>1, <1>2, <1>3, <2>2 DEF IInv, Alone, ToRecord
    <3> QED
      BY <1>4, <1>6, <3>1, <3>2, TaskFields DEF Fits, ToRecord
  <2> QED
    BY <2>1, <2>2
<1>10. Alone'
  BY <1>5, IdleIsTask, StillAlone
<1>11. KeysDiffer' /\ AnswersAgree'
  BY <1>4 DEF IInv, KeysDiffer, AnswersAgree
<1> QED
  BY <1>7, <1>8, <1>9, <1>10, <1>11 DEF IInv

(* The insert of a payment, for an order that has none.                    *)
LEMMA SaveIInv ==
  ASSUME IInv, NEW w \in Workers, Save(w)
  PROVE  IInv'
<1>1. PICK o, k : o = task[w].order /\ k = task[w].key
  OBVIOUS
<1>2. task[w] \in Tasks /\ task[w].pc = "save"
  BY DEF IInv, TypeOK, Save, InsertPayment, At
<1>3. /\ o \in Orders /\ k \in Keys
      /\ status[o] = Absent /\ version[o] = 0 /\ keyOf[o] = NoKey
      /\ charges[o] = 0 /\ timeline[o] = <<>> /\ paidBack[o] = {} /\ refunds[o] = {}
      /\ \A p \in Orders : keyOf[p] # k
  <2>1. o \in Orders /\ k \in Keys
    BY <1>1, <1>2, TaskFields
  <2>2. status[o] = Absent /\ \A p \in Orders : keyOf[p] # k
    BY <1>1 DEF Save, KeyIsFree
  <2>3. Story(o)
    BY <2>1 DEF IInv
  <2> QED
    BY <2>1, <2>2, <2>3 DEF Story, Absent
<1>4. /\ status' = [status EXCEPT ![o] = "PENDING"]
      /\ version' = [version EXCEPT ![o] = 1]
      /\ keyOf' = [keyOf EXCEPT ![o] = k]
      /\ UNCHANGED <<timeline, refunds, charges, paidBack, answers>>
  BY <1>1 DEF Save, InsertPayment, gateway
<1>5. /\ task'[w] = [pc |-> "write", order |-> o, seen |-> 1, from |-> "PENDING",
                     path |-> <<"PROCESSING">>,
                     next |-> [pc |-> "charge", order |-> o, key |-> k]]
      /\ Becomes(w, task'[w])
  BY <1>1, NewTask DEF Save, InsertPayment, Prepare
<1>6. task'[w] \in Tasks
  BY <1>3, <1>5, StatusNames DEF Tasks
<1>7. /\ status'[o] = "PENDING" /\ version'[o] = 1 /\ keyOf'[o] = k
      /\ \A p \in Orders : p # o => /\ status'[p] = status[p]
                                    /\ version'[p] = version[p]
                                    /\ keyOf'[p] = keyOf[p]
  BY <1>3, <1>4 DEF IInv, TypeOK
<1>8. TypeOK'
  BY <1>3, <1>4, <1>5, <1>6, StatusNames, TasksAfter DEF IInv, TypeOK
<1>9. ASSUME NEW p \in Orders PROVE Story(p)'
  <2>1. Story(p)
    BY DEF IInv
  <2>2. CASE p = o
    BY <1>3, <1>4, <1>7, <2>2, PaymentAssumption DEF Story, Absent
  <2>3. CASE p # o
    BY <1>4, <1>7, <2>1, <2>3 DEF Story
  <2> QED
    BY <2>2, <2>3
<1>10. ASSUME NEW v \in Workers PROVE v # w => Fits(task[v]) /\ task'[v] = task[v]
                                               /\ task[v] \in Tasks
  BY <1>5, <1>6, TasksAfter DEF IInv, TypeOK
<1>11. ASSUME NEW v \in Workers, v # w, task[v].order = o
       PROVE  task[v].pc \in {"idle", "save"}
  <2>1. Fits(task[v]) /\ task[v] \in Tasks
    BY <1>10, <1>11
  <2>2. task[v].pc \notin {"charge", "charged", "answer"}
    BY <1>3, <1>11, <2>1, TaskFields, PaymentAssumption DEF Fits
  <2>3. task[v].pc \notin {"refund", "refunded", "record"}
    BY <1>3, <1>11, <2>1 DEF Fits, Absent
  <2>4. task[v].pc # "write"
    BY <1>3, <1>11, <2>1 DEF Fits, Absent
  <2> QED
    BY <2>1, <2>2, <2>3, <2>4, TaskFields
<1>12. ASSUME NEW v \in Workers PROVE Fits(task[v])'
  <2>1. CASE v = w
    BY <1>3, <1>4, <1>5, <1>7, <2>1 DEF Fits, Absent
  <2>2. CASE v # w /\ task[v].order = o
    BY <1>10, <1>11, <2>2 DEF Fits
  <2>3. CASE v # w /\ task[v].order # o
    <3>1. CASE task[v].pc = "idle"
      BY <1>10, <2>3, <3>1 DEF Fits
    <3>2. CASE task[v].order \in Orders
      <4>1. /\ status'[task[v].order] = status[task[v].order]
            /\ version'[task[v].order] = version[task[v].order]
            /\ keyOf'[task[v].order] = keyOf[task[v].order]
        BY <1>7, <2>3, <3>2
      <4>2. Fits(task[v]) /\ task'[v] = task[v]
        BY <1>10, <2>3
      <4> QED
        BY <1>4, <4>1, <4>2 DEF Fits
    <3> QED
      BY <1>10, <2>3, <3>1, <3>2, TaskFields
  <2> QED
    BY <2>1, <2>2, <2>3
<1>13. Alone'
  <2>1. ASSUME NEW v \in Workers, v # w PROVE ~ ToCharge(task[v], o)
    BY <1>11, <2>1 DEF ToCharge
  <2>2. \A p \in Orders : ToCharge(task'[w], p) => p = o
    BY <1>5 DEF ToCharge
  <2>3. \A p \in Orders : ~ ToRecord(task'[w], p)
    BY <1>5 DEF ToRecord
  <2> QED
    BY <1>5, <1>6, <2>1, <2>2, <2>3, StillAlone
<1>14. KeysDiffer'
  BY <1>3, <1>7 DEF IInv, KeysDiffer
<1>15. AnswersAgree'
  BY <1>3, <1>4, <1>7, PaymentAssumption DEF IInv, TypeOK, AnswersAgree
<1> QED
  BY <1>8, <1>9, <1>12, <1>13, <1>14, <1>15 DEF IInv

(* The three forms of an update: it begins a charge, settles a payment, or *)
(* ends a refund.                                                          *)
Charges(w, o, path) ==
  /\ status[o] = "PENDING" /\ status'[o] = "PROCESSING"
  /\ version'[o] = 2 /\ charges[o] = 0 /\ path = <<"PROCESSING">>
  /\ task'[w] = [pc |-> "charge", order |-> o, key |-> keyOf[o]]
  /\ task[w].from = "PENDING"

Settles(w, o, path) ==
  /\ status[o] = "PROCESSING" /\ version'[o] = 3
  /\ \/ status'[o] = "COMPLETED" /\ charges[o] = 1 /\ path = <<"COMPLETED">>
     \/ status'[o] = "FAILED" /\ path = <<"FAILED">>
  /\ \/ task'[w] = Idle
     \/ task'[w] = [pc |-> "answer", order |-> o, key |-> keyOf[o]]

Refunds(w, o, path) ==
  /\ status[o] = "COMPLETED" /\ status'[o] = "REFUNDED"
  /\ version'[o] = 5 /\ path = <<"REFUND_PENDING", "REFUNDED">>
  /\ \E k \in paidBack[o] : task'[w] = [pc |-> "record", order |-> o, key |-> k]

Updated(w, o, path) ==
  /\ o \in Orders /\ o = task[w].order /\ task[w].pc = "write"
  /\ timeline'[o] = timeline[o] \o path
  /\ status' = [status EXCEPT ![o] = status'[o]]
  /\ version' = [version EXCEPT ![o] = version'[o]]
  /\ timeline' = [timeline EXCEPT ![o] = timeline'[o]]
  /\ Becomes(w, task'[w])
  /\ UNCHANGED <<keyOf, refunds, charges, paidBack, answers>>

(* What an update that finds its version does.                             *)
LEMMA UpdateDoes ==
  ASSUME IInv, NEW w \in Workers, Update(w), NEW o, NEW path,
         o = task[w].order, path = task[w].path
  PROVE  /\ Updated(w, o, path)
         /\ Charges(w, o, path) \/ Settles(w, o, path) \/ Refunds(w, o, path)
<1>1. task[w] \in Tasks /\ Fits(task[w]) /\ task[w].pc = "write"
  BY DEF IInv, TypeOK, Update, WritePayment, At
<1>2. o \in Orders /\ version[o] = task[w].seen
  BY <1>1, TaskFields DEF Update
<1>3. /\ status' = [status EXCEPT ![o] = path[Len(path)]]
      /\ version' = [version EXCEPT ![o] = version[o] + Len(path)]
      /\ timeline' = [timeline EXCEPT ![o] = @ \o path]
      /\ Becomes(w, task[w].next)
      /\ UNCHANGED <<keyOf, refunds, charges, paidBack, answers>>
  BY <1>2 DEF Update, WritePayment, gateway
<1>4. /\ status'[o] = path[Len(path)]
      /\ version'[o] = version[o] + Len(path)
      /\ timeline'[o] = timeline[o] \o path
  BY <1>2, <1>3 DEF IInv, TypeOK
<1>5. /\ status' = [status EXCEPT ![o] = status'[o]]
      /\ version' = [version EXCEPT ![o] = version'[o]]
      /\ timeline' = [timeline EXCEPT ![o] = timeline'[o]]
      /\ task'[w] = task[w].next /\ Becomes(w, task'[w])
  BY <1>3, <1>4 DEF Becomes, IInv, TypeOK
<1>6. \/ /\ version[o] = 1 /\ task[w].from = "PENDING" /\ path = <<"PROCESSING">>
         /\ task'[w] = [pc |-> "charge", order |-> o, key |-> keyOf[o]]
         /\ charges[o] = 0
      \/ /\ version[o] = 2
         /\ path \in {<<"COMPLETED">>, <<"FAILED">>}
         /\ path = <<"COMPLETED">> => charges[o] = 1
         /\ \/ task'[w] = Idle
            \/ task'[w] = [pc |-> "answer", order |-> o, key |-> keyOf[o]]
      \/ /\ version[o] = 3 /\ path = <<"REFUND_PENDING", "REFUNDED">>
         /\ \E k \in paidBack[o] : task'[w] = [pc |-> "record", order |-> o, key |-> k]
         /\ status[o] \in {"COMPLETED", "REFUNDED"}
  <2> DEFINE t == task[w]
             Then(pc, k) == [pc |-> pc, order |-> o, key |-> k]
  <2>1. \/ /\ t.seen = 1 /\ t.from = "PENDING" /\ path = <<"PROCESSING">>
           /\ t.next = Then("charge", keyOf[o]) /\ charges[o] = 0
        \/ /\ t.seen = 2 /\ path \in {<<"COMPLETED">>, <<"FAILED">>}
           /\ path = <<"COMPLETED">> => charges[o] = 1
           /\ t.next = Idle \/ t.next = Then("answer", keyOf[o])
        \/ /\ t.seen = 3 /\ path = <<"REFUND_PENDING", "REFUNDED">>
           /\ \E k \in paidBack[o] : t.next = Then("record", k)
           /\ status[o] \in {"COMPLETED", "REFUNDED"}
    BY <1>1, Zenon DEF Fits
  <2>2. t.seen = version[o] /\ t.next = task'[w]
    BY <1>2, <1>5
  <2> HIDE DEF t
  <2> QED
    BY <2>1, <2>2 DEF t
<1>7. /\ version[o] = 1 => status[o] = "PENDING"
      /\ version[o] = 2 => status[o] = "PROCESSING"
      /\ status[o] = "REFUNDED" => version[o] = 5
  BY <1>2, StoryFacts
<1>8. /\ path = <<"PROCESSING">> => Len(path) = 1 /\ path[Len(path)] = "PROCESSING"
      /\ path = <<"COMPLETED">> => Len(path) = 1 /\ path[Len(path)] = "COMPLETED"
      /\ path = <<"FAILED">> => Len(path) = 1 /\ path[Len(path)] = "FAILED"
      /\ path = <<"REFUND_PENDING", "REFUNDED">> =>
           Len(path) = 2 /\ path[Len(path)] = "REFUNDED"
  <2>1. ASSUME NEW a PROVE path = <<a>> => Len(path) = 1 /\ path[Len(path)] = a
    OBVIOUS
  <2>2. ASSUME NEW a, NEW b
        PROVE path = <<a, b>> => Len(path) = 2 /\ path[Len(path)] = b
    OBVIOUS
  <2>3. path = <<"PROCESSING">> => Len(path) = 1 /\ path[Len(path)] = "PROCESSING"
    BY <2>1
  <2>4. path = <<"COMPLETED">> => Len(path) = 1 /\ path[Len(path)] = "COMPLETED"
    BY <2>1
  <2>5. path = <<"FAILED">> => Len(path) = 1 /\ path[Len(path)] = "FAILED"
    BY <2>1
  <2>6. path = <<"REFUND_PENDING", "REFUNDED">> =>
          Len(path) = 2 /\ path[Len(path)] = "REFUNDED"
    BY <2>2
  <2> QED
    BY <2>3, <2>4, <2>5, <2>6, Zenon
<1> QED
  <2>1. Charges(w, o, path) \/ Settles(w, o, path) \/ Refunds(w, o, path)
    <3>1. CASE version[o] = 1 /\ path = <<"PROCESSING">>
      <4>1. status'[o] = "PROCESSING" /\ version'[o] = 2
        BY <1>4, <1>8, <3>1
      <4> QED
        BY <1>6, <1>7, <3>1, <4>1 DEF Charges
    <3>2. CASE version[o] = 2 /\ path \in {<<"COMPLETED">>, <<"FAILED">>}
      <4>1. version'[o] = 3
        <5>1. Len(path) = 1
          BY <1>8, <3>2
        <5> QED
          BY <5>1, <1>4, <3>2
      <4>2. /\ path = <<"COMPLETED">> => charges[o] = 1
            /\ \/ task'[w] = Idle
               \/ task'[w] = [pc |-> "answer", order |-> o, key |-> keyOf[o]]
        BY <1>6, <3>2
      <4>3. \/ status'[o] = "COMPLETED" /\ path = <<"COMPLETED">>
            \/ status'[o] = "FAILED" /\ path = <<"FAILED">>
        <5>1. CASE path = <<"COMPLETED">>
          <6>1. path[Len(path)] = "COMPLETED"
            BY <5>1, <1>8, Zenon
          <6>2. status'[o] = "COMPLETED"
            BY <6>1, <1>4
          <6> QED
            BY <5>1, <6>2
        <5>2. CASE path = <<"FAILED">>
          <6>1. path[Len(path)] = "FAILED"
            BY <5>2, <1>8, Zenon
          <6>2. status'[o] = "FAILED"
            BY <6>1, <1>4
          <6> QED
            BY <5>2, <6>2
        <5> QED
          BY <5>1, <5>2, <3>2, Zenon
      <4>4. status[o] = "PROCESSING"
        BY <1>7, <3>2
      <4>5. \/ status'[o] = "COMPLETED" /\ charges[o] = 1 /\ path = <<"COMPLETED">>
            \/ status'[o] = "FAILED" /\ path = <<"FAILED">>
        BY <4>2, <4>3, Zenon
      <4>6. Settles(w, o, path)
        BY <4>1, <4>2, <4>4, <4>5, Zenon DEF Settles
      <4> QED
        BY <4>6
    <3>3. CASE version[o] = 3 /\ path = <<"REFUND_PENDING", "REFUNDED">>
      <4>1. status'[o] = "REFUNDED" /\ version'[o] = 5
        BY <1>4, <1>8, <3>3
      <4>2. /\ \E k \in paidBack[o] : task'[w] = [pc |-> "record", order |-> o, key |-> k]
            /\ status[o] \in {"COMPLETED", "REFUNDED"}
        BY <1>6, <3>3
      <4>3. status[o] = "COMPLETED"
        BY <1>7, <3>3, <4>2
      <4>4. Refunds(w, o, path)
        BY <3>3, <4>1, <4>2, <4>3, Zenon DEF Refunds
      <4> QED
        BY <4>4
    <3> QED
      BY <1>6, <3>1, <3>2, <3>3
  <2>2. Updated(w, o, path)
    BY <1>1, <1>2, <1>3, <1>4, <1>5 DEF Updated
  <2> QED
    BY <2>1, <2>2

(* The write of an update, in each of its forms.                           *)
LEMMA UpdateIInv ==
  ASSUME IInv, NEW w \in Workers, Update(w)
  PROVE  IInv'
<1>1. PICK o, path : o = task[w].order /\ path = task[w].path
  OBVIOUS
<1>2. Updated(w, o, path) /\ (Charges(w, o, path) \/ Settles(w, o, path) \/ Refunds(w, o, path))
  BY <1>1, UpdateDoes
<1> USE DEF Charges, Settles, Refunds
<1>3. /\ o \in Orders /\ task[w].pc = "write" /\ (Charges(w, o, path) \/ Settles(w, o, path) \/ Refunds(w, o, path))
      /\ timeline'[o] = timeline[o] \o path
      /\ status' = [status EXCEPT ![o] = status'[o]]
      /\ version' = [version EXCEPT ![o] = version'[o]]
      /\ timeline' = [timeline EXCEPT ![o] = timeline'[o]]
      /\ Becomes(w, task'[w])
      /\ UNCHANGED <<keyOf, refunds, charges, paidBack, answers>>
  BY <1>2 DEF Updated
<1>4. \A p \in Orders : p # o => /\ status'[p] = status[p]
                                 /\ version'[p] = version[p]
                                 /\ timeline'[p] = timeline[p]
  BY <1>3 DEF IInv, TypeOK
<1>5. Story(o) /\ keyOf[o] \in Keys
  <2>1. Story(o) /\ keyOf[o] \in Keys \cup {NoKey} /\ status[o] # Absent
    BY <1>3 DEF IInv, TypeOK, Absent
  <2> QED
    BY <2>1 DEF Story
<1>6. timeline'[o] =
        CASE Charges(w, o, path) -> <<"PROCESSING">>
          [] Settles(w, o, path) -> <<"PROCESSING", status'[o]>>
          [] Refunds(w, o, path) -> <<"PROCESSING", "COMPLETED", "REFUND_PENDING", "REFUNDED">>
  <2>1. CASE Charges(w, o, path)
    <3>1. timeline[o] = <<>>
      BY <1>3, <2>1, StoryFacts
    <3> QED
      BY <1>3, <2>1, <3>1, JoinNone
  <2>2. CASE Settles(w, o, path)
    <3>1. timeline[o] = <<"PROCESSING">> /\ path = <<status'[o]>>
      BY <1>3, <2>2, StoryFacts, StatusNames
    <3>2. PICK x : x = status'[o]
      OBVIOUS
    <3>3. <<"PROCESSING">> \o <<x>> = <<"PROCESSING", x>>
      <4>1. "PROCESSING" \in {"PROCESSING", x} /\ x \in {"PROCESSING", x}
        OBVIOUS
      <4> QED
        BY <4>1, JoinOnes
    <3> QED
      BY <1>3, <2>2, <3>1, <3>2, <3>3
  <2>3. CASE Refunds(w, o, path)
    <3>1. timeline[o] = <<"PROCESSING", "COMPLETED">>
      BY <1>3, <2>3, StoryFacts, StatusNames
    <3>2. <<"PROCESSING", "COMPLETED">> \o <<"REFUND_PENDING", "REFUNDED">> =
            <<"PROCESSING", "COMPLETED", "REFUND_PENDING", "REFUNDED">>
      BY JoinTwos, StatusNames
    <3> QED
      BY <1>3, <2>3, <3>1, <3>2
  <2> QED
    BY <1>3, <2>1, <2>2, <2>3
<1>7. Story(o)'
  <2>1. CASE Charges(w, o, path)
    BY <1>3, <1>5, <1>6, <2>1, PaymentAssumption DEF Story, Absent
  <2>2. CASE Settles(w, o, path)
    BY <1>3, <1>5, <1>6, <2>2, PaymentAssumption DEF Story, Absent
  <2>3. CASE Refunds(w, o, path)
    BY <1>3, <1>5, <1>6, <2>3, PaymentAssumption DEF Story, Absent
  <2> QED
    BY <1>3, <2>1, <2>2, <2>3
<1>8. \A p \in Orders : Story(p)'
  <2>1. ASSUME NEW p \in Orders, p # o PROVE Story(p)'
    <3>1. Story(p)
      BY DEF IInv
    <3> QED
      BY <1>3, <1>4, <2>1, <3>1 DEF Story
  <2> QED
    BY <1>7, <2>1
<1>9. task'[w] \in Tasks
  <2>1. paidBack[o] \subseteq RefundKeys
    BY <1>3 DEF IInv, TypeOK
  <2>2. CASE Charges(w, o, path)
    BY <1>3, <1>5, <2>2 DEF Tasks
  <2>3. CASE Settles(w, o, path)
    BY <1>3, <1>5, <2>3, IdleIsTask DEF Tasks
  <2>4. CASE Refunds(w, o, path)
    BY <1>3, <2>1, <2>4 DEF Tasks
  <2> QED
    BY <1>3, <2>2, <2>3, <2>4
<1>10. TypeOK'
  <2>1. /\ status'[o] \in Statuses /\ version'[o] \in 0..5
        /\ timeline'[o] \in Seq(Statuses) /\ Len(timeline'[o]) <= 4
    <3>1. CASE Charges(w, o, path)
      BY <1>6, <3>1, StatusNames
    <3>2. CASE Settles(w, o, path)
      <4>1. PICK x \in Statuses : x = status'[o]
        BY <3>2, StatusNames
      <4>2. <<"PROCESSING", x>> \in Seq(Statuses) /\ Len(<<"PROCESSING", x>>) = 2
        BY StatusNames
      <4> QED
        BY <1>6, <3>2, <4>1, <4>2
    <3>3. CASE Refunds(w, o, path)
      <4>1. PICK t : t = timeline'[o]
        OBVIOUS
      <4>2. t = <<"PROCESSING", "COMPLETED", "REFUND_PENDING", "REFUNDED">>
        BY <1>6, <3>3, <4>1
      <4>3. t \in Seq(Statuses) /\ Len(t) = 4
        BY <4>2, StatusNames
      <4> QED
        BY <3>3, <4>1, <4>3, StatusNames
    <3> QED
      BY <1>3, <3>1, <3>2, <3>3
  <2> QED
    <3>1. TypeOK
      BY DEF IInv
    <3>2. /\ status' \in [Orders -> Statuses \cup {Absent}]
          /\ version' \in [Orders -> 0..5]
          /\ timeline' \in [Orders -> Seq(Statuses)]
      <4> HIDE DEF Charges, Settles, Refunds
      <4> QED
        BY <1>3, <2>1, <3>1 DEF TypeOK
    <3>3. \A p \in Orders : Len(timeline'[p]) <= 4
      BY <1>4, <2>1, <3>1 DEF TypeOK
    <3>4. task' \in [Workers -> Tasks]
      BY <1>3, <1>9, TasksAfter
    <3> QED
      BY <1>3, <3>1, <3>2, <3>3, <3>4 DEF TypeOK
<1>11. Fits(task[w])'
  <2>1. CASE Charges(w, o, path)
    BY <1>3, <2>1 DEF Fits
  <2>2. CASE Settles(w, o, path)
    BY <1>3, <2>2 DEF Fits, Idle
  <2>3. CASE Refunds(w, o, path)
    BY <1>3, <1>5, <2>3 DEF Fits, Story
  <2> QED
    BY <1>3, <2>1, <2>2, <2>3
<1>12. ASSUME NEW v \in Workers, v # w PROVE Fits(task[v])'
  <2>1. task'[v] = task[v] /\ Fits(task[v]) /\ task[v] \in Tasks
    BY <1>3, <1>9, <1>12, TasksAfter DEF IInv, TypeOK
  <2>2. ASSUME NEW p \in Orders
        PROVE  /\ version'[p] >= 2 \/ version'[p] = version[p]
               /\ status[p] # Absent => status'[p] # Absent
               /\ status[p] \in {"COMPLETED", "REFUNDED"} =>
                    status'[p] \in {"COMPLETED", "REFUNDED"}
               /\ status[p] = "REFUNDED" => status'[p] = "REFUNDED"
    BY <1>3, <1>4 DEF Absent
  <2>3. CASE task[v].pc = "idle"
    BY <2>1, <2>3 DEF Fits
  <2>4. CASE task[v].pc # "idle"
    <3>1. task[v].order \in Orders
      BY <2>1, <2>4, TaskFields
    <3>2. UNCHANGED <<keyOf, charges, paidBack, refunds>>
      BY <1>3
    <3> HIDE DEF Charges, Settles, Refunds
    <3> QED
      BY <2>1, <2>2, <3>1, <3>2 DEF Fits
  <2> QED
    BY <2>3, <2>4
<1>13. Alone'
  <2>0. /\ Charges(w, o, path) => task'[w].pc = "charge" /\ task'[w].order = o
        /\ Settles(w, o, path) => task'[w].pc \in {"idle", "answer"}
        /\ Refunds(w, o, path) => task'[w].pc = "record" /\ task'[w].order = o
    <3>1. Charges(w, o, path) => task'[w].pc = "charge" /\ task'[w].order = o
      OBVIOUS
    <3>2. Settles(w, o, path) => task'[w].pc \in {"idle", "answer"}
      BY IdleIsTask
    <3>3. Refunds(w, o, path) => task'[w].pc = "record" /\ task'[w].order = o
      OBVIOUS
    <3> QED
      BY <3>1, <3>2, <3>3
  <2>1. \A p \in Orders : ToCharge(task'[w], p) => ToCharge(task[w], p)
    BY <1>1, <1>3, <2>0 DEF ToCharge
  <2>2. ASSUME NEW p \in Orders, NEW v \in Workers, ToRecord(task'[w], p)
        PROVE  ~ ToRecord(task[v], p)
    <3>1. p = o /\ status[o] = "COMPLETED"
      BY <1>3, <2>0, <2>2 DEF ToRecord
    <3>2. Fits(task[v])
      BY DEF IInv
    <3>3. ToRecord(task[v], o) => status[o] = "REFUNDED"
      <4> HIDE DEF Charges, Settles, Refunds
      <4> QED
        BY <3>2 DEF Fits, ToRecord
    <3> QED
      BY <3>1, <3>3
  <2> QED
    BY <1>3, <1>9, <2>1, <2>2, StillAlone
<1>14. KeysDiffer' /\ AnswersAgree'
  BY <1>3 DEF IInv, KeysDiffer, AnswersAgree
<1> QED
  BY <1>8, <1>10, <1>11, <1>12, <1>13, <1>14 DEF IInv
-----------------------------------------------------------------------------
(* Every step preserves the invariant.                                     *)
LEMMA NextIInv == IInv /\ [Next]_vars => IInv'
<1> SUFFICES ASSUME IInv, [Next]_vars PROVE IInv'
  OBVIOUS
<1>1. ASSUME NEW w \in Workers, Request(w) PROVE IInv'
  BY <1>1, AnswerIInv, PrepareIInv DEF Request
<1>2. ASSUME NEW w \in Workers, Proceed(w) PROVE IInv'
  <2>1. CASE Save(w)
    BY <2>1, SaveIInv
  <2>2. CASE SaveViolatesUnique(w) \/ Conflict(w) \/ RefundFails(w)
    BY <2>2, DropIInv DEF SaveViolatesUnique, Conflict, RefundFails
  <2>3. CASE Update(w)
    BY <2>3, UpdateIInv
  <2>4. CASE Charge(w)
    BY <2>4, ChargeIInv
  <2>5. CASE ChargeEnds(w) \/ RefundConfirmed(w)
    BY <2>5, PrepareIInv
  <2>6. CASE Answer(w)
    BY <2>6, AnswerIInv
  <2>7. CASE PaysBack(w)
    BY <2>7, PaysBackIInv
  <2>8. CASE RecordRefund(w)
    BY <2>8, RecordRefundIInv
  <2> QED
    BY <1>2, <2>1, <2>2, <2>3, <2>4, <2>5, <2>6, <2>7, <2>8 DEF Proceed
<1>3. ASSUME NEW w \in Workers, Crash(w) PROVE IInv'
  BY <1>3, DropIInv DEF Crash
<1>4. CASE UNCHANGED vars
  <2>1. TypeOK'
    BY <1>4 DEF IInv, TypeOK, vars
  <2>2. (\A o \in Orders : Story(o))'
    BY <1>4 DEF IInv, Story, vars
  <2>3. (\A w \in Workers : Fits(task[w]))'
    BY <1>4 DEF IInv, Fits, vars
  <2>4. Alone'
    BY <1>4 DEF IInv, Alone, ToCharge, ToRecord, vars
  <2>5. KeysDiffer' /\ AnswersAgree'
    BY <1>4 DEF IInv, KeysDiffer, AnswersAgree, vars
  <2> QED
    BY <2>1, <2>2, <2>3, <2>4, <2>5 DEF IInv
<1> QED
  BY <1>1, <1>2, <1>3, <1>4 DEF Next

(* The inductive invariant holds in every reachable state.                 *)
THEOREM Invariance == Spec => []IInv
  BY InitIInv, NextIInv, PTL DEF Spec

(* Every reachable state of the payment service is well typed.             *)
THEOREM TypeCorrect == Spec => []TypeOK
<1>1. IInv => TypeOK
  BY DEF IInv
<1> QED
  BY <1>1, Invariance, PTL

(* KnexPaymentRepository.update: a write whose version matches was decided *)
(* on the present status.                                                  *)
THEOREM LockingSound == Spec => []SeenCurrent
<1>1. ASSUME IInv, NEW w \in Workers, At(w, "write"), version[task[w].order] = task[w].seen
      PROVE  status[task[w].order] = task[w].from
  <2>1. task[w] \in Tasks /\ Fits(task[w]) /\ task[w].pc = "write"
    BY <1>1 DEF IInv, TypeOK, At
  <2>2. task[w].order \in Orders
    BY <2>1, TaskFields
  <2> QED
    BY <1>1, <2>1, <2>2, StoryFacts DEF Fits
<1>2. IInv => SeenCurrent
  BY <1>1 DEF SeenCurrent
<1> QED
  BY <1>2, Invariance, PTL

(* The events of a payment replay to its status, by allowed transitions,   *)
(* and its version counts them.                                            *)
THEOREM TimelineCorrect == Spec => []TimelineReplays
<1>1. /\ Allowed("PENDING", <<>>)
      /\ Allowed("PENDING", <<"PROCESSING">>)
      /\ Allowed("PENDING", <<"PROCESSING", "COMPLETED">>)
      /\ Allowed("PENDING", <<"PROCESSING", "FAILED">>)
      /\ Allowed("PENDING", <<"PROCESSING", "COMPLETED", "REFUND_PENDING", "REFUNDED">>)
  BY DEF Allowed, Transitions
<1>2. ASSUME IInv, NEW o \in Orders, status[o] # Absent
      PROVE  /\ Allowed("PENDING", timeline[o])
             /\ status[o] = IF timeline[o] = <<>> THEN "PENDING"
                            ELSE timeline[o][Len(timeline[o])]
             /\ version[o] = 1 + Len(timeline[o])
  <2>1. PICK t : t = timeline[o]
    OBVIOUS
  <2>2. CASE status[o] = "PENDING"
    <3>1. t = <<>>
      BY <1>2, <2>1, <2>2, StoryFacts
    <3> QED
      BY <1>1, <1>2, <2>1, <2>2, <3>1, StoryFacts
  <2>3. CASE status[o] = "PROCESSING"
    <3>1. t = <<"PROCESSING">>
      BY <1>2, <2>1, <2>3, StoryFacts DEF Absent
    <3>2. t # <<>> /\ Len(t) = 1 /\ t[1] = "PROCESSING"
      BY <3>1
    <3> QED
      BY <1>1, <1>2, <2>1, <2>3, <3>1, <3>2, StoryFacts
  <2>4. CASE status[o] = "COMPLETED"
    <3>1. t = <<"PROCESSING", "COMPLETED">>
      BY <1>2, <2>1, <2>4, StoryFacts DEF Absent
    <3>2. t # <<>> /\ Len(t) = 2 /\ t[2] = "COMPLETED"
      BY <3>1
    <3> QED
      BY <1>1, <1>2, <2>1, <2>4, <3>1, <3>2, StoryFacts
  <2>5. CASE status[o] = "FAILED"
    <3>1. t = <<"PROCESSING", "FAILED">>
      BY <1>2, <2>1, <2>5, StoryFacts DEF Absent
    <3>2. t # <<>> /\ Len(t) = 2 /\ t[2] = "FAILED"
      BY <3>1
    <3> QED
      BY <1>1, <1>2, <2>1, <2>5, <3>1, <3>2, StoryFacts
  <2>6. CASE status[o] = "REFUNDED"
    <3>1. t = <<"PROCESSING", "COMPLETED", "REFUND_PENDING", "REFUNDED">>
      BY <1>2, <2>1, <2>6, StoryFacts DEF Absent
    <3>2. t # <<>> /\ Len(t) = 4 /\ t[4] = "REFUNDED"
      BY <3>1
    <3> QED
      BY <1>1, <1>2, <2>1, <2>6, <3>1, <3>2, StoryFacts
  <2> QED
    BY <1>2, <2>2, <2>3, <2>4, <2>5, <2>6, StoryFacts
<1>3. IInv => TimelineReplays
  BY <1>2 DEF TimelineReplays
<1> QED
  BY <1>3, Invariance, PTL

(* No order is charged twice, whatever keys and paths it is paid by.       *)
THEOREM NeverChargedTwice == Spec => []ChargedOnce
<1>1. IInv => ChargedOnce
  BY StoryFacts DEF ChargedOnce
<1> QED
  BY <1>1, Invariance, PTL

(* All answers to an idempotency key name one payment.                     *)
THEOREM PaymentIdempotent == Spec => []OnePaymentPerKey
<1>1. IInv => OnePaymentPerKey
  BY PaymentAssumption DEF IInv, TypeOK, KeysDiffer, AnswersAgree, OnePaymentPerKey
<1> QED
  BY <1>1, Invariance, PTL

(* COMPLETED and REFUNDED payments were charged, REFUNDED ones paid back.  *)
THEOREM StatusIsBacked == Spec => []MoneyBacksStatus
<1>1. ASSUME IInv, NEW o \in Orders
      PROVE  /\ status[o] \in {"COMPLETED", "REFUNDED"} \/ paidBack[o] # {} => charges[o] = 1
             /\ status[o] = "REFUNDED" => paidBack[o] # {}
  <2>1. Story(o)
    BY <1>1 DEF IInv
  <2> QED
    BY <2>1 DEF Story, Absent
<1>2. IInv => MoneyBacksStatus
  BY <1>1 DEF MoneyBacksStatus
<1> QED
  BY <1>2, Invariance, PTL

(* Of any number of racing refunds one is recorded.                        *)
THEOREM RefundsRecordedOnce == Spec => []RefundRecordedOnce
<1>1. IInv => RefundRecordedOnce
  BY DEF IInv, Story, RefundRecordedOnce
<1> QED
  BY <1>1, Invariance, PTL

(* A payment only moves forward, and no answer or webhook moves a payment  *)
(* that is settled.                                                        *)
THEOREM OnlyForward == Spec => StatusMoves
<1> DEFINE Moves == {<<Absent, "PENDING">>, <<"PENDING", "PROCESSING">>,
                     <<"PROCESSING", "COMPLETED">>, <<"PROCESSING", "FAILED">>,
                     <<"COMPLETED", "REFUNDED">>}
           Step == \A o \in Orders :
                     status'[o] # status[o] => <<status[o], status'[o]>> \in Moves
<1>1. ASSUME IInv, Next PROVE Step
  <2>1. PICK w \in Workers : Request(w) \/ Proceed(w) \/ Crash(w)
    BY <1>1 DEF Next
  <2>2. CASE Save(w)
    <3>1. PICK p : p = task[w].order
      OBVIOUS
    <3>2. status[p] = Absent /\ status' = [status EXCEPT ![p] = "PENDING"]
      BY <2>2, <3>1 DEF Save, InsertPayment
    <3> QED
      BY <1>1, <3>2 DEF IInv, TypeOK
  <2>3. CASE Update(w)
    <3>1. PICK p, path : p = task[w].order /\ path = task[w].path
      OBVIOUS
    <3>2. /\ Updated(w, p, path)
          /\ Charges(w, p, path) \/ Settles(w, p, path) \/ Refunds(w, p, path)
      BY <1>1, <2>3, <3>1, UpdateDoes
    <3>3. <<status[p], status'[p]>> \in Moves
      BY <3>2 DEF Charges, Settles, Refunds
    <3>4. \A o \in Orders : o # p => status'[o] = status[o]
      BY <1>1, <3>2 DEF Updated, IInv, TypeOK
    <3> QED
      BY <3>3, <3>4
  <2>4. CASE UNCHANGED status
    BY <2>4
  <2>5. Save(w) \/ Update(w) \/ UNCHANGED status
    BY <2>1 DEF Request, Proceed, Finds, Misses, Webhook, RefundBegins, RefundOf,
         SaveViolatesUnique, Conflict, Charge, ChargeEnds, Answer, PaysBack,
         RefundConfirmed, RefundFails, RecordRefund, Crash, row
  <2> QED
    BY <2>2, <2>3, <2>4, <2>5
<1>2. IInv /\ [Next]_vars => [Step]_vars
  BY <1>1
<1> QED
  BY <1>2, Invariance, PTL DEF Spec, StatusMoves
-----------------------------------------------------------------------------
(* The ledger of payments.                                                 *)

(* Where one status is written, one payment of the ledger moves.           *)
LEMMA StageMoves ==
  ASSUME IInv, NEW o \in Orders, NEW to,
         status' = [status EXCEPT ![o] = to]
  PROVE  LET Was == [p \in Orders |-> Stage(p)]
             Is  == [p \in Orders |-> Stage(p)']
         IN  /\ Is = [Was EXCEPT ![o] = CASE to = Absent    -> "none"
                                          [] to = "PENDING" -> "PROCESSING"
                                          [] OTHER          -> to]
             /\ Was[o] = Stage(o)
<1>1. \A p \in Orders : status'[p] = IF p = o THEN to ELSE status[p]
  BY DEF IInv, TypeOK
<1>2. \A p \in Orders \ {o} : Stage(p)' = Stage(p)
  BY <1>1 DEF Stage
<1>3. Stage(o)' = CASE to = Absent    -> "none"
                    [] to = "PENDING" -> "PROCESSING"
                    [] OTHER          -> to
  BY <1>1 DEF Stage
<1> QED
  BY <1>2, <1>3

(* The insert begins the payment.                                          *)
LEMMA SaveBegins ==
  ASSUME IInv, NEW w \in Workers, Save(w)
  PROVE  Ledger!Next
<1>1. PICK o : o = task[w].order
  OBVIOUS
<1>2. o \in Orders
  <2>1. task[w] \in Tasks /\ task[w].pc = "save"
    BY DEF IInv, TypeOK, Save, InsertPayment, At
  <2> QED
    BY <1>1, <2>1, TaskFields
<1>3. /\ status[o] = Absent /\ status' = [status EXCEPT ![o] = "PENDING"]
      /\ UNCHANGED <<charges, paidBack>>
  BY <1>1 DEF Save, InsertPayment, gateway
<1>4. Stage(o) = "none"
  BY <1>3 DEF Stage, Absent
<1>5. [p \in Orders |-> Stage(p)'] =
        [[p \in Orders |-> Stage(p)] EXCEPT ![o] = "PROCESSING"]
  <2>1. "PENDING" # Absent
    BY DEF Absent
  <2> QED
    BY <1>2, <1>3, <2>1, StageMoves
<1>6. Ledger!Begin(o)
  BY <1>2, <1>3, <1>4, <1>5 DEF Ledger!Begin
<1> QED
  BY <1>2, <1>6 DEF Ledger!Next

(* An update that finds its version settles the payment, or marks it       *)
(* refunded; that it is under way to the gateway the ledger does not tell. *)
LEMMA UpdateSettles ==
  ASSUME IInv, NEW w \in Workers, Update(w)
  PROVE  [Ledger!Next]_(Ledger!vars)
<1>1. PICK o, path : o = task[w].order /\ path = task[w].path
  OBVIOUS
<1>2. /\ Updated(w, o, path)
      /\ Charges(w, o, path) \/ Settles(w, o, path) \/ Refunds(w, o, path)
  BY <1>1, UpdateDoes
<1>3. o \in Orders /\ status' = [status EXCEPT ![o] = status'[o]]
  BY <1>2 DEF Updated
<1>4. UNCHANGED <<charges, paidBack>>
  BY DEF Update, WritePayment, gateway
<1> DEFINE Was == [p \in Orders |-> Stage(p)]
           Is  == [p \in Orders |-> Stage(p)']
<1>5. /\ Is = [Was EXCEPT ![o] = CASE status'[o] = Absent    -> "none"
                                   [] status'[o] = "PENDING" -> "PROCESSING"
                                   [] OTHER                  -> status'[o]]
      /\ Was[o] = Stage(o)
  BY <1>3, StageMoves
<1>6. CASE Charges(w, o, path)
  <2>1. status[o] = "PENDING" /\ status'[o] = "PROCESSING"
    BY <1>6 DEF Charges
  <2>2. Was[o] = "PROCESSING"
    BY <1>3, <2>1 DEF Stage, Absent
  <2>3. Is = [Was EXCEPT ![o] = "PROCESSING"]
    BY <1>5, <2>1 DEF Absent
  <2> HIDE DEF Was
  <2>4. Is = Was
    BY <2>2, <2>3 DEF Was
  <2> QED
    BY <1>4, <2>4 DEF Ledger!vars, Was
<1>7. CASE Settles(w, o, path)
  <2>1. status[o] = "PROCESSING" /\ status'[o] \in {"COMPLETED", "FAILED"}
        /\ (status'[o] = "COMPLETED" => charges[o] = 1)
    BY <1>7 DEF Settles
  <2>2. Was[o] = "PROCESSING" /\ Is = [Was EXCEPT ![o] = status'[o]]
    BY <1>3, <1>5, <2>1 DEF Stage, Absent
  <2>3. Ledger!Settle(o)
    BY <1>4, <2>1, <2>2 DEF Ledger!Settle
  <2> QED
    BY <1>3, <2>3 DEF Ledger!Next
<1>8. CASE Refunds(w, o, path)
  <2>1. status[o] = "COMPLETED" /\ status'[o] = "REFUNDED" /\ paidBack[o] # {}
    BY <1>8 DEF Refunds
  <2>2. Was[o] = "COMPLETED" /\ Is = [Was EXCEPT ![o] = "REFUNDED"]
    BY <1>3, <1>5, <2>1 DEF Stage, Absent
  <2>3. Ledger!Refund(o)
    BY <1>4, <2>1, <2>2 DEF Ledger!Refund
  <2> QED
    BY <1>3, <2>3 DEF Ledger!Next
<1> QED
  BY <1>2, <1>6, <1>7, <1>8

(* The gateway charges for a payment that is under way, or that a webhook  *)
(* has called a failure, once.                                             *)
LEMMA ChargeCharges ==
  ASSUME IInv, NEW w \in Workers, Charge(w)
  PROVE  Ledger!Next
<1>1. PICK o : o = task[w].order
  OBVIOUS
<1>2. o \in Orders /\ version[o] >= 2 /\ charges[o] = 0
  <2>1. task[w] \in Tasks /\ Fits(task[w]) /\ task[w].pc = "charge"
    BY DEF IInv, TypeOK, Charge, At
  <2> QED
    BY <1>1, <2>1, TaskFields DEF Fits
<1>3. charges' = [charges EXCEPT ![o] = 1] /\ UNCHANGED <<status, paidBack>>
  BY <1>1, <1>2 DEF Charge, row, IInv, TypeOK
<1>4. status[o] \in {"PROCESSING", "FAILED"}
  BY <1>2, StoryFacts
<1>5. Stage(o) \in {"PROCESSING", "FAILED"}
  BY <1>4 DEF Stage, Absent
<1>6. \A p \in Orders : Stage(p)' = Stage(p)
  BY <1>3 DEF Stage
<1>7. Ledger!Charge(o)
  BY <1>2, <1>3, <1>5, <1>6 DEF Ledger!Charge
<1> QED
  BY <1>2, <1>7 DEF Ledger!Next

(* It pays back what was completed.                                        *)
LEMMA PaysBackPaid ==
  ASSUME IInv, NEW w \in Workers, PaysBack(w)
  PROVE  Ledger!Next
<1>1. PICK o, k : o = task[w].order /\ k = task[w].key
  OBVIOUS
<1>2. o \in Orders /\ k \in RefundKeys /\ status[o] \in {"COMPLETED", "REFUNDED"}
  <2>1. task[w] \in Tasks /\ Fits(task[w]) /\ task[w].pc = "refund"
    BY DEF IInv, TypeOK, PaysBack, At
  <2> QED
    BY <1>1, <2>1, TaskFields DEF Fits
<1>3. /\ paidBack' = [paidBack EXCEPT ![o] = @ \cup {k}]
      /\ UNCHANGED <<status, charges>>
  BY <1>1 DEF PaysBack, row
<1>4. Stage(o) \in {"COMPLETED", "REFUNDED"}
  BY <1>2 DEF Stage, Absent
<1>5. \A p \in Orders : Stage(p)' = Stage(p)
  BY <1>3 DEF Stage
<1>6. Ledger!PayBack(o, k)
  BY <1>2, <1>3, <1>4, <1>5 DEF Ledger!PayBack
<1> QED
  BY <1>2, <1>6 DEF Ledger!Next

(* The service implements the ledger of payments: however charges,         *)
(* webhooks, refunds, conflicts and crashes interleave, an order's payment *)
(* is begun, charged and settled at most once, completed only if charged,  *)
(* and paid back only if completed.                                        *)
THEOREM Refinement == Spec => ImplementsLedger
<1>1. Init => Ledger!Init
  BY DEF Init, Ledger!Init, Stage, Absent
<1>2. ASSUME IInv, NEW w \in Workers, Request(w) \/ Proceed(w) \/ Crash(w)
      PROVE  [Ledger!Next]_(Ledger!vars)
  <2>1. CASE Save(w)
    BY <1>2, <2>1, SaveBegins
  <2>2. CASE Update(w)
    BY <1>2, <2>2, UpdateSettles
  <2>3. CASE Charge(w)
    BY <1>2, <2>3, ChargeCharges
  <2>4. CASE PaysBack(w)
    BY <1>2, <2>4, PaysBackPaid
  <2>5. CASE UNCHANGED <<status, charges, paidBack>>
    BY <2>5 DEF Ledger!vars, Stage
  <2>6. \/ Save(w) \/ Update(w) \/ Charge(w) \/ PaysBack(w)
        \/ UNCHANGED <<status, charges, paidBack>>
    BY <1>2 DEF Request, Proceed, Finds, Misses, Webhook, RefundBegins, RefundOf,
         SaveViolatesUnique, Conflict, ChargeEnds, Answer, RefundConfirmed, RefundFails,
         RecordRefund, Crash, row, gateway
  <2> QED
    BY <2>1, <2>2, <2>3, <2>4, <2>5, <2>6
<1>3. UNCHANGED vars => UNCHANGED Ledger!vars
  BY DEF vars, Ledger!vars, Stage
<1>4. IInv /\ [Next]_vars => [Ledger!Next]_(Ledger!vars)
  BY <1>2, <1>3 DEF Next
<1> QED
  BY <1>1, <1>4, Invariance, PTL DEF Spec, Ledger!Spec, ImplementsLedger
-----------------------------------------------------------------------------
(* The way to the gateway: CircuitBreaker, for any number of calls in      *)
(* flight, any threshold, wait and number of attempts.  The breaker stands *)
(* beside the service's table: neither reads the other's state.            *)

(* A call of the gateway that is not idle.                                 *)
Trying == [pc : {"asking", "backoff"}, kind : Kinds, attempt : 1..MaxAttempts]

LEMMA BreakerConstants ==
  /\ FailureThreshold \in Nat \ {0} /\ ResetTimeout \in Nat \ {0}
  /\ MaxAttempts \in Nat \ {0} /\ IsFiniteSet(Calls)
  /\ Cardinality(Calls) \in Nat \ {0} /\ MaxLeak \in Nat
<1>1. /\ FailureThreshold \in Nat \ {0} /\ ResetTimeout \in Nat \ {0}
      /\ MaxAttempts \in Nat \ {0} /\ IsFiniteSet(Calls) /\ Calls # {}
  BY BreakerAssumption
<1>3. Cardinality(Calls) \in Nat /\ Cardinality(Calls) # 0
  BY <1>1, FS_CardinalityType, FS_EmptySet
<1>4. PICK m \in Nat, n \in Nat : m = Cardinality(Calls) - 1 /\ n = MaxAttempts - 1
  BY <1>1, <1>3
<1>5. m * n \in Nat
  OBVIOUS
<1> QED
  BY <1>1, <1>3, <1>4, <1>5 DEF MaxLeak

(* The attempts that the calls other than one may still make after their   *)
(* first: what MaxLeak counts.                                             *)
LEMMA OthersAttempts ==
  ASSUME NEW c \in Calls
  PROVE  /\ IsFiniteSet((Calls \ {c}) \X (2..MaxAttempts))
         /\ Cardinality((Calls \ {c}) \X (2..MaxAttempts)) = MaxLeak
<1>1. IsFiniteSet(Calls) /\ MaxAttempts \in Nat \ {0}
  BY BreakerConstants
<1>2. /\ IsFiniteSet(Calls \ {c})
      /\ Cardinality(Calls \ {c}) = Cardinality(Calls) - 1
  BY <1>1, FS_RemoveElement
<1>3. IsFiniteSet(2..MaxAttempts) /\ Cardinality(2..MaxAttempts) = MaxAttempts - 1
  <2>1. /\ IsFiniteSet(2..MaxAttempts)
        /\ Cardinality(2..MaxAttempts) = IF 2 > MaxAttempts THEN 0 ELSE MaxAttempts - 2 + 1
    BY <1>1, FS_Interval, 2 \in Int, MaxAttempts \in Int, Zenon
  <2> QED
    BY <1>1, <2>1
<1> QED
  BY <1>2, <1>3, FS_Product DEF MaxLeak

LEMMA AttemptsFinite ==
  /\ IsFiniteSet(AttemptsLeft)
  /\ Cardinality(AttemptsLeft) \in Nat
<1>1. IsFiniteSet(Calls) /\ MaxAttempts \in Nat \ {0}
  BY BreakerConstants
<1>2. IsFiniteSet(1..MaxAttempts)
  BY <1>1, FS_Interval, 1 \in Int, MaxAttempts \in Int, Zenon
<1>3. IsFiniteSet(Calls \X (1..MaxAttempts))
  BY <1>1, <1>2, FS_Product, Zenon
<1>4. AttemptsLeft \subseteq Calls \X (1..MaxAttempts)
  BY DEF AttemptsLeft
<1> QED
  BY <1>3, <1>4, FS_Subset, FS_CardinalityType

(* What a call becomes, one at a time; whatever it becomes, the breaker's  *)
(* other fields being of their types, the types hold.                      *)
LEMMA CallBecomes ==
  ASSUME BreakerTypeOK, NEW c \in Calls, NEW v \in {NoCall} \cup Trying,
         call' = [call EXCEPT ![c] = v],
         state' \in CircuitState, failureCount' \in 0..FailureThreshold,
         wait' \in 0..ResetTimeout, down' \in BOOLEAN, leaked' \in Nat
  PROVE  /\ BreakerTypeOK'
         /\ \A d \in Calls : call'[d] = IF d = c THEN v ELSE call[d]
<1>1. call \in [Calls -> {NoCall} \cup Trying]
  BY DEF BreakerTypeOK, Trying
<1>2. call' \in [Calls -> {NoCall} \cup Trying]
  BY <1>1
<1>3. \A d \in Calls : call'[d] = IF d = c THEN v ELSE call[d]
  BY <1>1
<1> QED
  BY <1>2, <1>3 DEF BreakerTypeOK, Trying

(* A call that is not idle, and one that only pauses.                      *)
LEMMA TryingCall ==
  ASSUME BreakerTypeOK, NEW c \in Calls, call[c].pc \in {"asking", "backoff"}
  PROVE  call[c] \in Trying /\ call[c] # NoCall
  BY DEF BreakerTypeOK, NoCall, Trying

LEMMA NotBoth ==
  ASSUME NEW v \in Trying
  PROVE  v # NoCall /\ NoCall.pc = "idle" /\ v.pc \in {"asking", "backoff"}
  BY DEF NoCall, Trying

(* An open breaker stays within its bound when no attempt is added.        *)
LEMMA NothingAdded ==
  ASSUME BreakerTypeOK, LeakSound, BreakerTypeOK',
         AttemptsLeft' \subseteq AttemptsLeft,
         state' = "OPEN" => state = "OPEN", leaked' = leaked,
         \A c \in Calls : call'[c].pc = "backoff" => call'[c].attempt < MaxAttempts
  PROVE  LeakSound'
<1> DEFINE A == AttemptsLeft
           B == AttemptsLeft'
<1>1. IsFiniteSet(A) /\ Cardinality(A) \in Nat
  BY AttemptsFinite
<1>2. IsFiniteSet(B) /\ Cardinality(B) <= Cardinality(A) /\ Cardinality(B) \in Nat
  BY <1>1, FS_Subset, FS_CardinalityType
<1>3. MaxLeak \in Nat /\ leaked \in Nat
  BY BreakerConstants DEF BreakerTypeOK
<1>4. leaked <= MaxLeak /\ (state = "OPEN" => leaked + Cardinality(A) <= MaxLeak)
  BY DEF LeakSound, LeakBounded
<1>5. state' = "OPEN" => leaked' + Cardinality(B) <= MaxLeak
  <2> HIDE DEF A, B
  <2> QED
    BY <1>1, <1>2, <1>3, <1>4
<1>6. leaked' <= MaxLeak
  BY <1>4
<1>7. MaxLeak' = MaxLeak
  BY DEF MaxLeak
<1> QED
  BY <1>5, <1>6, <1>7 DEF LeakBounded, LeakSound

(* execute up to the gateway: nobody is let through while the breaker is   *)
(* open, except a probe, which half-opens it, and refunds.                 *)
LEMMA BeginKeeps ==
  ASSUME BreakerTypeOK, LeakSound,
         NEW c \in Calls, NEW kind \in Kinds, Begin(c, kind)
  PROVE  BreakerTypeOK' /\ LeakSound'
<1> DEFINE v == Asking(kind, 1)
<1>1. v \in Trying /\ v.pc = "asking" /\ v.kind = kind
  BY BreakerConstants DEF Asking, Trying
<1>2. /\ call[c] = NoCall /\ call' = [call EXCEPT ![c] = v]
      /\ UNCHANGED <<failureCount, wait, leaked, down>>
      /\ state' \in CircuitState
      /\ state' = "OPEN" => state = "OPEN" /\ kind # "charge"
  BY DEF Begin, BreakerTypeOK, CircuitState
<1> HIDE DEF v
<1>3. /\ BreakerTypeOK'
      /\ \A d \in Calls : call'[d] = IF d = c THEN v ELSE call[d]
  BY <1>1, <1>2, CallBecomes DEF BreakerTypeOK
<1>4. \A d \in Calls : call'[d].pc = "backoff" => call'[d].attempt < MaxAttempts
  BY <1>1, <1>3 DEF LeakSound, LeakBounded
<1>5. CASE kind # "charge"
  <2>1. AttemptsLeft' \subseteq AttemptsLeft
    BY <1>1, <1>3, <1>5 DEF AttemptsLeft
  <2> QED
    BY <2>1, <1>2, <1>3, <1>4, NothingAdded
<1>6. CASE state' # "OPEN"
  <2>1. leaked' <= MaxLeak
    BY <1>2 DEF LeakSound, LeakBounded
  <2> QED
    BY <2>1, <1>3, <1>4, <1>6
    DEF LeakBounded, LeakSound, MaxLeak
<1> QED
  BY <1>2, <1>5, <1>6

(* The end of a call: whatever it tells the breaker, one call fewer has    *)
(* attempts left; when the breaker opens, only the other calls have any.   *)
LEMMA ReturnsKeeps ==
  ASSUME BreakerTypeOK, LeakSound,
         NEW c \in Calls,
         Succeeds(c) \/ Declined(c) \/ FailsForGood(c)
  PROVE  BreakerTypeOK' /\ LeakSound'
<1>1. /\ call[c].pc = "asking" /\ call' = [call EXCEPT ![c] = NoCall]
      /\ down' = down
  BY DEF Succeeds, Declined, FailsForGood, Returns
<1>2. \/ UNCHANGED breaker
      \/ OnSuccess
      \/ OnCountedFailure
  BY DEF Succeeds, Declined, FailsForGood, Returns,
         OnFailure
<1>3. /\ failureCount \in 0..FailureThreshold /\ wait \in 0..ResetTimeout /\ leaked \in Nat
      /\ state \in CircuitState /\ down \in BOOLEAN
      /\ FailureThreshold \in Nat \ {0} /\ ResetTimeout \in Nat \ {0}
  BY BreakerConstants DEF BreakerTypeOK
<1>4. /\ failureCount' \in 0..FailureThreshold /\ wait' \in 0..ResetTimeout /\ leaked' \in Nat
      /\ state' \in CircuitState
      /\ \/ leaked' = leaked /\ (state' = "OPEN" => state = "OPEN")
         \/ leaked' = 0
  <2>1. CASE UNCHANGED breaker
    BY <1>3, <2>1 DEF breaker
  <2>2. CASE OnSuccess
    BY <1>3, <2>2 DEF OnSuccess, CircuitState
  <2>3. CASE OnCountedFailure
    <3>1. failureCount' \in 0..FailureThreshold
      BY <1>3, <2>3 DEF OnCountedFailure
    <3>2. \/ Open
          \/ UNCHANGED <<state, wait, leaked>>
      BY <2>3 DEF OnCountedFailure
    <3> QED
      BY <1>3, <3>1, <3>2 DEF Open, CircuitState
  <2> QED
    BY <1>2, <2>1, <2>2, <2>3
<1>5. /\ BreakerTypeOK'
      /\ \A d \in Calls : call'[d] = IF d = c THEN NoCall ELSE call[d]
  BY <1>1, <1>3, <1>4, CallBecomes
<1>6. NoCall.pc = "idle"
  BY DEF NoCall
<1>7. \A d \in Calls : call'[d].pc = "backoff" => call'[d].attempt < MaxAttempts
  BY <1>5, <1>6 DEF LeakSound, LeakBounded
<1>8. CASE leaked' = leaked /\ (state' = "OPEN" => state = "OPEN")
  <2>1. AttemptsLeft' \subseteq AttemptsLeft
    BY <1>5 DEF AttemptsLeft
  <2> QED
    BY <1>5, <1>7, <1>8, <2>1, NothingAdded
<1>9. CASE leaked' = 0
  <2> DEFINE B == AttemptsLeft'
             M == (Calls \ {c}) \X (2..MaxAttempts)
  <2>1. B \subseteq M
    <3>1. MaxAttempts \in Nat
      BY BreakerConstants
    <3>2. ASSUME NEW d \in Calls, NEW n \in 1..MaxAttempts, <<d, n>> \in B
          PROVE  d # c /\ n \in 2..MaxAttempts
      <4>1. /\ call'[d] # NoCall /\ call'[d].attempt < n
        BY <3>2 DEF AttemptsLeft
      <4>2. d # c /\ call[d] = call'[d]
        BY <1>5, <4>1
      <4>3. call[d].attempt \in 1..MaxAttempts
        BY <4>1, <4>2 DEF BreakerTypeOK
      <4> QED
        BY <3>1, <4>1, <4>2, <4>3
    <3>3. B \subseteq Calls \X (1..MaxAttempts)
      BY DEF AttemptsLeft
    <3> HIDE DEF B
    <3> QED
      BY <3>2, <3>3
  <2>2. IsFiniteSet(M) /\ Cardinality(M) = MaxLeak
    BY OthersAttempts
  <2>3. Cardinality(B) <= MaxLeak /\ Cardinality(B) \in Nat
    BY <2>1, <2>2, FS_Subset, FS_CardinalityType
  <2>4. leaked' <= MaxLeak /\ leaked' + Cardinality(B) <= MaxLeak
    <3> HIDE DEF B
    <3> QED
      BY <1>9, <2>3, BreakerConstants
  <2> QED
    BY <1>5, <1>7, <2>4
    DEF LeakBounded, LeakSound, MaxLeak
<1> QED
  BY <1>4, <1>5, <1>8, <1>9

(* A pause is entered only while attempts are left.                        *)
LEMMA BacksOffKeeps ==
  ASSUME BreakerTypeOK, LeakSound,
         NEW c \in Calls, BacksOff(c)
  PROVE  BreakerTypeOK' /\ LeakSound'
<1>1. /\ call[c] \in Trying /\ call[c].attempt < MaxAttempts
      /\ call' = [call EXCEPT ![c].pc = "backoff"]
      /\ UNCHANGED <<state, failureCount, wait, leaked, down>>
  BY TryingCall DEF BacksOff, breaker
<1> DEFINE v == [call[c] EXCEPT !.pc = "backoff"]
<1>2. /\ v \in Trying /\ v.kind = call[c].kind /\ v.attempt = call[c].attempt
      /\ call' = [call EXCEPT ![c] = v]
  BY <1>1 DEF Trying, BreakerTypeOK
<1> HIDE DEF v
<1>3. /\ BreakerTypeOK'
      /\ \A d \in Calls : call'[d] = IF d = c THEN v ELSE call[d]
  BY <1>1, <1>2, CallBecomes DEF BreakerTypeOK
<1>4. \A d \in Calls : call'[d].pc = "backoff" => call'[d].attempt < MaxAttempts
  BY <1>1, <1>2, <1>3 DEF LeakSound, LeakBounded
<1>5. AttemptsLeft' \subseteq AttemptsLeft
  BY <1>1, <1>2, <1>3, NotBoth DEF AttemptsLeft
<1> QED
  BY <1>1, <1>3, <1>4, <1>5, NothingAdded

(* A further attempt is one that was left: as much is leaked as is used up.*)
LEMMA TriesAgainKeeps ==
  ASSUME BreakerTypeOK, LeakSound,
         NEW c \in Calls, TriesAgain(c)
  PROVE  BreakerTypeOK' /\ LeakSound'
<1> DEFINE n == call[c].attempt
           v == Asking(call[c].kind, n + 1)
<1>1. /\ call[c] \in Trying /\ call[c].pc = "backoff"
      /\ call' = [call EXCEPT ![c] = v]
      /\ leaked' = leaked + IF state = "OPEN" /\ call[c].kind = "charge" THEN 1 ELSE 0
      /\ UNCHANGED <<state, failureCount, wait, down>>
  BY TryingCall DEF TriesAgain
<1>2. /\ n \in 1..MaxAttempts /\ n < MaxAttempts /\ MaxAttempts \in Nat
      /\ call[c].kind \in Kinds
  BY <1>1, BreakerConstants DEF LeakSound, Trying
<1>3. v \in Trying /\ v.pc = "asking" /\ v.kind = call[c].kind /\ v.attempt = n + 1
  BY <1>2 DEF Asking, Trying
<1>4. leaked \in Nat /\ leaked' \in Nat /\ MaxLeak \in Nat
  BY <1>1, BreakerConstants DEF BreakerTypeOK
<1> HIDE DEF n, v
<1>5. /\ BreakerTypeOK'
      /\ \A d \in Calls : call'[d] = IF d = c THEN v ELSE call[d]
  BY <1>1, <1>3, <1>4, CallBecomes DEF BreakerTypeOK
<1>6. \A d \in Calls : call'[d].pc = "backoff" => call'[d].attempt < MaxAttempts
  BY <1>3, <1>5 DEF LeakSound, LeakBounded
<1>7. AttemptsLeft' \subseteq AttemptsLeft
  <2>1. ASSUME NEW d \in Calls, NEW m \in 1..MaxAttempts, <<d, m>> \in AttemptsLeft'
        PROVE  <<d, m>> \in AttemptsLeft
    <3>1. /\ call'[d] # NoCall /\ call'[d].kind = "charge" /\ call'[d].attempt < m
      BY <2>1 DEF AttemptsLeft
    <3>2. CASE d = c
      <4>1. /\ call[c] # NoCall /\ call[c].kind = "charge" /\ call[c].attempt < m
        BY <1>1, <1>2, <1>3, <1>5, <3>1, <3>2, NotBoth DEF n
      <4> QED
        BY <3>2, <4>1 DEF AttemptsLeft
    <3>3. CASE d # c
      BY <1>5, <3>1, <3>3 DEF AttemptsLeft
    <3> QED
      BY <3>2, <3>3
  <2>2. AttemptsLeft' \subseteq Calls \X (1..MaxAttempts)
    BY DEF AttemptsLeft
  <2> QED
    BY <2>1, <2>2
<1>8. CASE leaked' = leaked
  BY <1>1, <1>5, <1>6, <1>7, <1>8, NothingAdded
<1>9. CASE state = "OPEN" /\ call[c].kind = "charge"
  <2> DEFINE A == AttemptsLeft
             B == AttemptsLeft'
             a == <<c, n + 1>>
  <2>1. a \in A
    BY <1>1, <1>2, <1>9, NotBoth DEF AttemptsLeft, n
  <2>2. a \notin B
    BY <1>3, <1>5, <1>2 DEF AttemptsLeft
  <2>3. IsFiniteSet(A) /\ Cardinality(A) \in Nat
    BY AttemptsFinite
  <2>4. leaked + Cardinality(A) <= MaxLeak
    BY <1>9 DEF LeakSound, LeakBounded
  <2>5. B \subseteq A
    BY <1>7
  <2> HIDE DEF A, B, a
  <2>6. IsFiniteSet(A \ {a}) /\ Cardinality(A \ {a}) = Cardinality(A) - 1
    BY <2>1, <2>3, FS_RemoveElement
  <2>7. B \subseteq A \ {a}
    BY <2>2, <2>5
  <2>8. /\ Cardinality(B) <= Cardinality(A \ {a}) /\ Cardinality(B) \in Nat
    BY <2>6, <2>7, FS_Subset, FS_CardinalityType
  <2>9. leaked' <= MaxLeak /\ leaked' + Cardinality(B) <= MaxLeak
    BY <1>1, <1>4, <1>9, <2>3, <2>4, <2>6, <2>8
  <2> QED
    BY <1>5, <1>6, <2>9 DEF LeakBounded, LeakSound, MaxLeak, B
<1> QED
  BY <1>1, <1>4, <1>5, <1>8, <1>9

LEMMA BreakerInitKeeps ==
  ASSUME BreakerInit
  PROVE  BreakerTypeOK /\ LeakSound
<1>1. BreakerTypeOK
  <2>1. 0 \in 0..FailureThreshold /\ 0 \in 0..ResetTimeout
    BY BreakerConstants
  <2> QED
    BY <2>1 DEF BreakerInit, BreakerTypeOK, CircuitState
<1>2. leaked <= MaxLeak
  BY BreakerConstants DEF BreakerInit
<1>3. \A c \in Calls : call[c].pc = "backoff" => call[c].attempt < MaxAttempts
  BY DEF BreakerInit, NoCall
<1> QED
  BY <1>1, <1>2, <1>3 DEF LeakSound, LeakBounded, BreakerInit

LEMMA BreakerNextKeeps ==
  ASSUME BreakerTypeOK, LeakSound,
         [BreakerNext]_breakerVars
  PROVE  BreakerTypeOK' /\ LeakSound'
<1>0. /\ \A c \in Calls : call[c].pc = "backoff" => call[c].attempt < MaxAttempts
  BY DEF LeakSound, LeakBounded
<1>1. ASSUME NEW c \in Calls, Answered(c) \/ TriesAgain(c)
      PROVE  BreakerTypeOK' /\ LeakSound'
  BY <1>1, ReturnsKeeps, BacksOffKeeps, TriesAgainKeeps DEF Answered
<1>2. CASE Tick \/ GatewayFailsOrRecovers \/ UNCHANGED breakerVars
  <2>1. UNCHANGED <<state, call, leaked>>
    BY <1>2 DEF Tick, GatewayFailsOrRecovers, breakerVars, breaker
  <2>2. wait' \in 0..ResetTimeout /\ failureCount' = failureCount /\ down' \in BOOLEAN
    <3>1. CASE Tick
      BY <3>1, BreakerConstants DEF Tick, BreakerTypeOK
    <3>2. CASE GatewayFailsOrRecovers
      BY <3>2 DEF GatewayFailsOrRecovers, breaker, BreakerTypeOK
    <3>3. CASE UNCHANGED breakerVars
      BY <3>3 DEF breakerVars, breaker, BreakerTypeOK
    <3> QED
      BY <1>2, <3>1, <3>2, <3>3
  <2>3. BreakerTypeOK'
    BY <2>1, <2>2 DEF BreakerTypeOK
  <2>4. AttemptsLeft' \subseteq AttemptsLeft
    BY <2>1 DEF AttemptsLeft
  <2> QED
    BY <1>0, <2>1, <2>3, <2>4, NothingAdded
<1>3. CASE Restart
  <2>1. BreakerTypeOK'
    BY <1>3, BreakerConstants DEF Restart, BreakerTypeOK, CircuitState
  <2>2. leaked' <= MaxLeak /\ state' # "OPEN"
    BY <1>3, BreakerConstants DEF Restart
  <2>3. \A c \in Calls : call'[c].pc = "backoff" => call'[c].attempt < MaxAttempts
    BY <1>3 DEF Restart, NoCall
  <2> QED
    BY <2>1, <2>2, <2>3
    DEF LeakBounded, LeakSound, MaxLeak
<1> QED
  BY <1>1, <1>2, <1>3, BeginKeeps DEF BreakerNext

(* The inductive invariant of the breaker: its types, and that what an     *)
(* open breaker has let through and what the charges in flight may still   *)
(* try add up to no more than the bound.                                   *)
THEOREM BreakerInvariance ==
  BreakerSpec => [](BreakerTypeOK /\ LeakSound)
<1>1. BreakerInit => BreakerTypeOK /\ LeakSound
  BY BreakerInitKeeps
<1>2. BreakerTypeOK /\ LeakSound /\ [BreakerNext]_breakerVars
        => BreakerTypeOK' /\ LeakSound'
  BY BreakerNextKeeps
<1> QED
  BY <1>1, <1>2, PTL DEF BreakerSpec

(* The types are right.                                                    *)
THEOREM BreakerTypes ==
  BreakerSpec => []BreakerTypeOK
  BY BreakerInvariance, PTL

(* However calls, retries, outages and restarts interleave, a breaker that *)
(* is open lets no more charges reach the gateway than the calls in flight *)
(* when it opened, less the one that opened it, may still retry.           *)
THEOREM BreakerRelieves ==
  BreakerSpec => []LeakBounded
<1>1. LeakSound => LeakBounded
  BY DEF LeakSound
<1> QED
  BY <1>1, BreakerInvariance, PTL

(* Only a transient failure opens the breaker, and there is one only while *)
(* the gateway is down: declined cards and successes, early or late, leave *)
(* it as it is or close it.                                                *)
THEOREM OutagesOpen == BreakerSpec => OnlyOutagesOpen
<1>1. ASSUME [BreakerNext]_breakerVars
      PROVE  state # "OPEN" /\ state' = "OPEN" => down
  <2>1. CASE \E c \in Calls : FailsForGood(c)
    BY <2>1 DEF FailsForGood
  <2>2. CASE \E c \in Calls : Succeeds(c) \/ Declined(c)
    BY <2>2 DEF Succeeds, Declined, Returns, OnSuccess,
       OnFailure, breaker
  <2>3. CASE \E c \in Calls : BacksOff(c) \/ TriesAgain(c)
    BY <2>3 DEF BacksOff, TriesAgain, breaker
  <2>4. CASE \E c \in Calls, kind \in Kinds : Begin(c, kind)
    BY <2>4 DEF Begin
  <2>5. CASE \/ Tick \/ GatewayFailsOrRecovers \/ Restart
             \/ UNCHANGED breakerVars
    BY <2>5 DEF Tick, GatewayFailsOrRecovers, Restart,
       breakerVars, breaker
  <2> QED
    BY <1>1, <2>1, <2>2, <2>3, <2>4, <2>5 DEF BreakerNext, Answered
<1> QED
  BY <1>1, PTL DEF BreakerSpec, OnlyOutagesOpen
=============================================================================
