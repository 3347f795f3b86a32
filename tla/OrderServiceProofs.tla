------------------------- MODULE OrderServiceProofs -------------------------
(***************************************************************************)
(* Proofs about the order service, for any sets of orders, keys and        *)
(* workers.  The inductive invariant is IInv of OrderService.              *)
(***************************************************************************)
EXTENDS OrderService, SequenceTheorems, TLAPS

(* What the transition table says of the chains a failure event or a       *)
(* customer takes: cancelling is not allowed straight from PAYMENT_PENDING *)
(* nor from a terminal status.                                             *)
LEMMA CancelWalks ==
  /\ ~ Walk("PAYMENT_PENDING", <<"CANCELLED">>)
  /\ ~ Walk("CONFIRMED", <<"CANCELLED">>)
  /\ ~ Walk("CANCELLED", <<"CANCELLED">>)
  BY DEF Walk, CanTransition, Transitions

(* Which names are statuses, and which of the stored ones are terminal.    *)
LEMMA StatusNames ==
  /\ {"CREATED", "PAYMENT_PENDING", "CONFIRMED", "CANCELLED"} \subseteq Statuses
  /\ Absent \notin Statuses
  /\ \A s \in {"CREATED", "PAYMENT_PENDING"} : ~ IsTerminal(s)
  BY DEF Statuses, Transitions, IsTerminal, Absent

(* Appending to a one-element sequence makes a pair.                       *)
LEMMA AppendPair ==
  ASSUME NEW S, NEW a \in S, NEW b \in S
  PROVE  Append(<<a>>, b) = <<a, b>>
<1> DEFINE s == Append(<<a>>, b)
           t == <<a, b>>
<1>1. s \in Seq(S) /\ Len(s) = 2 /\ s[1] = a /\ s[2] = b
  BY AppendProperties, <<a>> \in Seq(S)
<1>2. t \in Seq(S) /\ Len(t) = 2 /\ t[1] = a /\ t[2] = b
  OBVIOUS
<1> HIDE DEF s, t
<1>3. \A i \in 1..Len(s) : s[i] = t[i]
  BY <1>1, <1>2
<1>4. s = t
  BY <1>1, <1>2, <1>3, SeqEqual
<1> QED
  BY <1>4 DEF s, t

(* The fields a task has, by what the worker is doing.                     *)
LEMMA TaskFields ==
  ASSUME NEW t \in Task
  PROVE  /\ t.pc = "save" => t.key \in Keys
         /\ t.pc = "update" =>
              /\ t.order \in Orders /\ t.seen \in Nat
              /\ t.from \in Statuses /\ t.to \in Statuses /\ t.hops \in {1, 2}
              /\ t.event \in Events \cup {NoEvent} /\ t.step \in Steps \cup {NoStep}
         /\ t.pc = "record" => t.order \in Orders /\ t.step \in Steps
  BY DEF Task, Idle

(* A worker that does nothing is in a legal state.                         *)
LEMMA IdleIsTask == Idle \in Task /\ Idle.pc = "idle"
  BY DEF Task, Idle

-----------------------------------------------------------------------------
(* The invariant holds of the empty tables.                                *)
LEMMA InitIInv == Init => IInv
<1> SUFFICES ASSUME Init PROVE IInv
  OBVIOUS
<1>1. TypeOK
  BY DEF Init, TypeOK, Task, Idle
<1>2. PlansLegal /\ SnapshotCurrent
  BY DEF Init, PlansLegal, SnapshotCurrent, Idle
<1>3. FourStatuses /\ OutboxTellsStatus /\ VersionCountsHops
  BY DEF Init, FourStatuses, OutboxTellsStatus, VersionCountsHops, Absent
<1>4. KeysAgree
  BY DEF Init, KeysAgree
<1> QED
  BY <1>1, <1>2, <1>3, <1>4 DEF IInv

(* A step that leaves the four tables and the answers alone preserves what *)
(* the invariant says of them.                                             *)
LEMMA TablesUnchanged ==
  ASSUME IInv, UNCHANGED <<row, answers>>
  PROVE  FourStatuses' /\ OutboxTellsStatus' /\ VersionCountsHops' /\ KeysAgree'
  BY DEF IInv, row, FourStatuses, OutboxTellsStatus, VersionCountsHops, KeysAgree

(* A worker that becomes idle, or goes to a task without a snapshot,       *)
(* leaves the invariant as it is.                                          *)
LEMMA TaskDropped ==
  ASSUME IInv, NEW w \in Workers, NEW t \in Task, t.pc # "update",
         task' = [task EXCEPT ![w] = t],
         UNCHANGED <<row, answers>>,
         steps' \in [Orders -> [Steps -> Nat]]
  PROVE  IInv'
<1>1. TypeOK'
  BY DEF IInv, TypeOK, row
<1>2. PlansLegal' /\ SnapshotCurrent'
  BY DEF IInv, TypeOK, PlansLegal, SnapshotCurrent, row
<1> QED
  BY <1>1, <1>2, TablesUnchanged DEF IInv

(* Loading an order for one of the six legal plans.                        *)
LEMMA LoadIInv ==
  ASSUME IInv, NEW w \in Workers, NEW o \in Orders,
         NEW path, NEW event, NEW step,
         Load(w, o, path, event, step),
         [from |-> status[o], to |-> path[Len(path)], hops |-> Len(path),
          event |-> event, step |-> step] \in Plans
  PROVE  IInv'
<1> DEFINE t == Loaded(o, path, Len(path), event, step)
<1>1. t \in Task /\ t.pc = "update"
  <2>1. /\ status[o] \in Statuses /\ path[Len(path)] \in Statuses
        /\ Len(path) \in {1, 2}
        /\ event \in Events \cup {NoEvent} /\ step \in Steps \cup {NoStep}
    BY StatusNames DEF Plans, Events, Steps
  <2>2. version[o] \in Nat
    BY DEF IInv, TypeOK
  <2> QED
    BY <2>1, <2>2 DEF Loaded, Task
<1>2. task' = [task EXCEPT ![w] = t] /\ UNCHANGED <<row, steps, answers>>
  BY DEF Load
<1>3. TypeOK'
  BY <1>1, <1>2 DEF IInv, TypeOK, row
<1>4. PlansLegal'
  BY <1>2 DEF IInv, TypeOK, PlansLegal, Loaded
<1>5. SnapshotCurrent'
  BY <1>2 DEF IInv, TypeOK, SnapshotCurrent, Loaded, row
<1> QED
  BY <1>2, <1>3, <1>4, <1>5, TablesUnchanged DEF IInv

(* Each of the four event handlers and the customer's cancellation loads   *)
(* an order for a legal plan.                                              *)
LEMMA DeliverIInv ==
  ASSUME IInv, NEW w \in Workers, NEW o \in Orders, Deliver(w, o)
  PROVE  IInv'
<1>0. status[o] \in {Absent, "CREATED", "PAYMENT_PENDING", "CONFIRMED", "CANCELLED"}
  BY DEF IInv, FourStatuses
<1>1. CASE OnInventoryReserved(w, o)
  <2> DEFINE path == <<"INVENTORY_RESERVED", "PAYMENT_PENDING">>
  <2>1. path[Len(path)] = "PAYMENT_PENDING" /\ Len(path) = 2
    OBVIOUS
  <2> HIDE DEF path
  <2> QED
    BY <1>1, <2>1, LoadIInv DEF OnInventoryReserved, Plans, path
<1>2. CASE OnPaymentCompleted(w, o)
  BY <1>2, LoadIInv DEF OnPaymentCompleted, Plans
<1>3. CASE OnPaymentFailed(w, o)
  BY <1>0, <1>3, CancelWalks, LoadIInv DEF OnPaymentFailed, FailThenCancel, Plans, Load
<1>4. CASE OnInventoryFailed(w, o)
  BY <1>0, <1>4, CancelWalks, LoadIInv DEF OnInventoryFailed, FailThenCancel, Plans, Load
<1>5. CASE CustomerCancel(w, o)
  BY <1>0, <1>5, CancelWalks, LoadIInv DEF CustomerCancel, Plans, Load
<1> QED
  BY <1>1, <1>2, <1>3, <1>4, <1>5 DEF Deliver

(* The optimistic write: the row still has the version that was loaded, so *)
(* it has the status the plan started from.                                *)
LEMMA UpdateIInv ==
  ASSUME IInv, NEW w \in Workers, Update(w)
  PROVE  IInv'
<1> DEFINE t == task[w]
           o == task[w].order
<1>1. /\ t \in Task /\ t.pc = "update" /\ o \in Orders /\ t.seen \in Nat
      /\ t.to \in Statuses /\ t.hops \in {1, 2}
      /\ t.event \in Events \cup {NoEvent} /\ t.step \in Steps \cup {NoStep}
  <2>1. t \in Task /\ t.pc = "update"
    BY DEF Update, WriteOrder, IInv, TypeOK
  <2> QED
    BY <2>1, TaskFields
<1>2. /\ t.from = status[o] /\ t.seen = version[o]
      /\ [from |-> t.from, to |-> t.to, hops |-> t.hops, event |-> t.event, step |-> t.step]
           \in Plans
  BY <1>1 DEF Update, IInv, SnapshotCurrent, PlansLegal
<1> DEFINE news == IF t.event = NoEvent THEN outbox[o] ELSE Append(outbox[o], t.event)
           next == IF t.step = NoStep THEN Idle
                   ELSE [pc |-> "record", order |-> o, step |-> t.step]
<1>3. /\ status'  = [status EXCEPT ![o] = t.to]
      /\ version' = [version EXCEPT ![o] = version[o] + t.hops]
      /\ outbox'  = [outbox EXCEPT ![o] = news]
      /\ task'    = [task EXCEPT ![w] = next]
      /\ UNCHANGED <<keyOf, steps, answers>>
  <2>1. outbox = [outbox EXCEPT ![o] = outbox[o]]
    BY DEF IInv, TypeOK
  <2> QED
    BY <1>2, <2>1 DEF Update, WriteOrder
<1>4. next \in Task /\ next.pc # "update"
  BY <1>1 DEF Task, Idle
<1>5. TypeOK'
  <2>1. news \in Seq(Events)
    BY <1>1 DEF IInv, TypeOK
  <2>2. version[o] + t.hops \in Nat
    BY <1>1 DEF IInv, TypeOK
  <2> QED
    BY <1>1, <1>3, <1>4, <2>1, <2>2 DEF IInv, TypeOK
<1>6. FourStatuses'
  BY <1>1, <1>2, <1>3 DEF IInv, TypeOK, FourStatuses, Plans
<1>7. PlansLegal'
  BY <1>3, <1>4 DEF IInv, TypeOK, PlansLegal
<1>8. SnapshotCurrent'
  <2> SUFFICES ASSUME NEW v \in Workers, task'[v].pc = "update"
               PROVE  /\ task'[v].seen <= version'[task'[v].order]
                      /\ task'[v].seen = version'[task'[v].order] =>
                           task'[v].from = status'[task'[v].order]
    BY DEF SnapshotCurrent
  <2>1. v # w /\ task'[v] = task[v]
    BY <1>3, <1>4 DEF IInv, TypeOK
  <2>2. task[v].seen \in Nat /\ task[v].order \in Orders
    <3>1. task[v] \in Task /\ task[v].pc = "update"
      BY <2>1 DEF IInv, TypeOK
    <3> QED
      BY <3>1, TaskFields
  <2>3. /\ task[v].seen <= version[task[v].order]
        /\ task[v].seen = version[task[v].order] => task[v].from = status[task[v].order]
    BY <2>1 DEF IInv, SnapshotCurrent
  <2> QED
    BY <1>1, <1>3, <2>1, <2>2, <2>3 DEF IInv, TypeOK
<1>9. OutboxTellsStatus' /\ VersionCountsHops'
  <2> SUFFICES ASSUME NEW p \in Orders
               PROVE  /\ OutboxTellsStatus!(p)'
                      /\ VersionCountsHops!(p)'
    BY DEF OutboxTellsStatus, VersionCountsHops
  <2>1. CASE p # o
    BY <1>1, <1>3, <2>1 DEF IInv, TypeOK, OutboxTellsStatus, VersionCountsHops
  <2>2. CASE p = o
    <3>1. status[o] = "CREATED" \/ status[o] = "PAYMENT_PENDING"
      BY <1>2 DEF Plans
    <3>2. outbox[o] = <<"order.created">> /\ version[o] = (IF status[o] = "CREATED" THEN 1 ELSE 3)
      BY <1>1, <3>1 DEF IInv, OutboxTellsStatus, VersionCountsHops
    <3>3. news = IF t.event = NoEvent THEN <<"order.created">>
                 ELSE <<"order.created", t.event>>
      <4>1. t.event \in Events => Append(<<"order.created">>, t.event) = <<"order.created", t.event>>
        BY AppendPair DEF Events
      <4> QED
        BY <1>1, <3>2, <4>1
    <3> HIDE DEF news
    <3>4. status'[o] = t.to /\ version'[o] = version[o] + t.hops /\ outbox'[o] = news
      BY <1>1, <1>3 DEF IInv, TypeOK
    <3>5. \/ /\ t.to = "PAYMENT_PENDING" /\ version'[o] = 3
             /\ news = <<"order.created">>
          \/ /\ t.to = "CONFIRMED" /\ version'[o] = 4
             /\ news = <<"order.created", "order.confirmed">>
          \/ /\ t.to = "CANCELLED" /\ version'[o] = 3
             /\ news = <<"order.created">>
          \/ /\ t.to = "CANCELLED" /\ version'[o] \in {2, 5}
             /\ news = <<"order.created", "order.cancelled">>
      <4>1. \/ /\ status[o] = "CREATED" /\ t.to = "PAYMENT_PENDING"
               /\ t.hops = 2 /\ t.event = NoEvent
            \/ /\ status[o] = "CREATED" /\ t.to = "CANCELLED"
               /\ t.hops = 1 /\ t.event = "order.cancelled"
            \/ /\ status[o] = "CREATED" /\ t.to = "CANCELLED"
               /\ t.hops = 2 /\ t.event = NoEvent
            \/ /\ status[o] = "PAYMENT_PENDING" /\ t.to = "CONFIRMED"
               /\ t.hops = 1 /\ t.event = "order.confirmed"
            \/ /\ status[o] = "PAYMENT_PENDING" /\ t.to = "CANCELLED"
               /\ t.hops = 2 /\ t.event = "order.cancelled"
        BY <1>2 DEF Plans
      <4>2. status[o] = "CREATED" => version[o] = 1
        BY <3>2
      <4>3. status[o] = "PAYMENT_PENDING" => version[o] = 3
        BY <3>2
      <4>4. t.event = NoEvent => news = <<"order.created">>
        BY <3>3
      <4>5. t.event = "order.confirmed" => news = <<"order.created", "order.confirmed">>
        BY <3>3 DEF NoEvent
      <4>6. t.event = "order.cancelled" => news = <<"order.created", "order.cancelled">>
        BY <3>3 DEF NoEvent
      <4> QED
        BY <3>4, <4>1, <4>2, <4>3, <4>4, <4>5, <4>6
    <3>6. /\ <<"order.created">> # <<>>
          /\ <<"order.created", "order.confirmed">> # <<>>
          /\ <<"order.created", "order.cancelled">> # <<>>
          /\ <<"order.created", "order.cancelled">> # <<"order.created">>
      OBVIOUS
    <3>7. status'[p] = t.to /\ outbox'[p] = news /\ version'[p] = version'[o]
      BY <2>2, <3>4
    <3>8. OutboxTellsStatus!(p)'
      BY <3>5, <3>6, <3>7 DEF Absent
    <3>9. VersionCountsHops!(p)'
      BY <3>5, <3>6, <3>7 DEF Absent
    <3> QED
      BY <3>8, <3>9
  <2> QED
    BY <2>1, <2>2
<1>10. KeysAgree'
  BY <1>1, <1>2, <1>3 DEF IInv, TypeOK, KeysAgree, Plans, Absent
<1> QED
  BY <1>5, <1>6, <1>7, <1>8, <1>9, <1>10 DEF IInv

(* Creating an order: the lookup, the insert, and the insert that the      *)
(* unique index refuses.                                                   *)
LEMMA CreateIInv ==
  ASSUME IInv, NEW w \in Workers, Create(w)
  PROVE  IInv'
<1>1. ASSUME NEW k \in Keys, CreateMisses(w, k) PROVE IInv'
  <2>1. [pc |-> "save", key |-> k] \in Task
    BY DEF Task
  <2> QED
    BY <1>1, <2>1, TaskDropped DEF CreateMisses, IInv, TypeOK
<1>2. ASSUME NEW k \in Keys, NEW o \in Orders, CreateFinds(w, k, o) PROVE IInv'
  <2>1. TypeOK' /\ PlansLegal' /\ SnapshotCurrent'
    BY <1>2 DEF CreateFinds, IInv, TypeOK, PlansLegal, SnapshotCurrent, row
  <2>2. FourStatuses' /\ OutboxTellsStatus' /\ VersionCountsHops'
    BY <1>2 DEF CreateFinds, IInv, FourStatuses, OutboxTellsStatus, VersionCountsHops, row
  <2>3. KeysAgree'
    BY <1>2 DEF CreateFinds, IInv, TypeOK, KeysAgree, row
  <2> QED
    BY <2>1, <2>2, <2>3 DEF IInv
<1>3. ASSUME NEW o \in Orders, Save(w, o) PROVE IInv'
  <2> DEFINE k == task[w].key
  <2>1. k \in Keys /\ status[o] = Absent /\ outbox[o] = <<>> /\ Idle \in Task
    <3>1. task[w] \in Task /\ task[w].pc = "save" /\ status[o] = Absent
      BY <1>3 DEF Save, InsertOrder, IInv, TypeOK
    <3>2. outbox[o] = <<>>
      BY <3>1 DEF IInv, OutboxTellsStatus
    <3> QED
      BY <3>1, <3>2, TaskFields, IdleIsTask
  <2>2. /\ status'  = [status EXCEPT ![o] = "CREATED"]
        /\ version' = [version EXCEPT ![o] = 1]
        /\ keyOf'   = [keyOf EXCEPT ![o] = k]
        /\ outbox'  = [outbox EXCEPT ![o] = <<"order.created">>]
        /\ answers' = [answers EXCEPT ![k] = @ \cup {o}]
        /\ task'    = [task EXCEPT ![w] = Idle]
        /\ UNCHANGED steps
        /\ \A p \in Orders : keyOf[p] # k
    <3>1. Append(outbox[o], "order.created") = <<"order.created">>
      BY <2>1
    <3> QED
      BY <1>3, <3>1 DEF Save, InsertOrder
  <2>3. TypeOK'
    <3>1. <<"order.created">> \in Seq(Events)
      BY DEF Events
    <3> QED
      BY <2>1, <2>2, <3>1, StatusNames DEF IInv, TypeOK
  <2>4. PlansLegal'
    BY <2>2 DEF IInv, TypeOK, PlansLegal, Idle
  <2>5. SnapshotCurrent'
    <3> SUFFICES ASSUME NEW v \in Workers, task'[v].pc = "update"
                 PROVE  /\ task'[v].seen <= version'[task'[v].order]
                        /\ task'[v].seen = version'[task'[v].order] =>
                             task'[v].from = status'[task'[v].order]
      BY DEF SnapshotCurrent
    <3>1. v # w /\ task'[v] = task[v]
      BY <2>2 DEF IInv, TypeOK, Idle
    <3>2. task[v].order \in Orders /\ task[v].order # o
      <4>1. task[v].order \in Orders /\ task[v].from \in {"CREATED", "PAYMENT_PENDING"}
        <5>1. task[v] \in Task /\ task[v].pc = "update"
          BY <3>1 DEF IInv, TypeOK
        <5>2. task[v].from \in {"CREATED", "PAYMENT_PENDING"}
          BY <5>1 DEF IInv, PlansLegal, Plans
        <5> QED
          BY <5>1, <5>2, TaskFields
      <4>2. task[v].seen \in Nat /\ task[v].seen <= version[task[v].order]
            /\ (task[v].seen = version[task[v].order] => task[v].from = status[task[v].order])
        <5>1. task[v] \in Task /\ task[v].pc = "update"
          BY <3>1 DEF IInv, TypeOK
        <5>2. task[v].seen \in Nat
          BY <5>1, TaskFields
        <5> QED
          BY <5>1, <5>2 DEF IInv, SnapshotCurrent
      <4>3. version[o] = 0
        BY <2>1 DEF IInv, VersionCountsHops
      <4> QED
        BY <2>1, <4>1, <4>2, <4>3 DEF Absent
    <3> QED
      BY <2>2, <3>1, <3>2 DEF IInv, TypeOK, SnapshotCurrent
  <2>6. FourStatuses'
    BY <2>2 DEF IInv, TypeOK, FourStatuses
  <2>7. OutboxTellsStatus' /\ VersionCountsHops'
    BY <2>2 DEF IInv, TypeOK, OutboxTellsStatus, VersionCountsHops, Absent
  <2>8. KeysAgree'
    BY <2>1, <2>2, ConstantsAssumption DEF IInv, TypeOK, KeysAgree, Absent
  <2> QED
    BY <2>3, <2>4, <2>5, <2>6, <2>7, <2>8 DEF IInv
<1>4. ASSUME SaveViolatesUnique(w) PROVE IInv'
  BY <1>4, IdleIsTask, TaskDropped DEF SaveViolatesUnique, IInv, TypeOK
<1> QED
  BY <1>1, <1>2, <1>3, <1>4 DEF Create

-----------------------------------------------------------------------------
(* Every step preserves the invariant.                                     *)
LEMMA NextIInv == IInv /\ [Next]_vars => IInv'
<1> SUFFICES ASSUME IInv, [Next]_vars PROVE IInv'
  OBVIOUS
<1>1. ASSUME NEW w \in Workers, Create(w) PROVE IInv'
  BY <1>1, CreateIInv
<1>2. ASSUME NEW w \in Workers, NEW o \in Orders, Deliver(w, o) PROVE IInv'
  BY <1>2, DeliverIInv
<1>3. ASSUME NEW w \in Workers, Update(w) PROVE IInv'
  BY <1>3, UpdateIInv
<1>4. ASSUME NEW w \in Workers, Conflict(w) \/ Crash(w) PROVE IInv'
  BY <1>4, IdleIsTask, TaskDropped DEF Conflict, Crash, IInv, TypeOK
<1>5. ASSUME NEW w \in Workers, RecordStep(w) PROVE IInv'
  <2>1. task[w].order \in Orders /\ task[w].step \in Steps
    BY <1>5, TaskFields DEF RecordStep, IInv, TypeOK
  <2>2. steps' \in [Orders -> [Steps -> Nat]]
    BY <1>5, <2>1 DEF RecordStep, IInv, TypeOK
  <2> QED
    BY <1>5, <2>2, IdleIsTask, TaskDropped DEF RecordStep
<1>6. CASE UNCHANGED vars
  <2>1. TypeOK' /\ PlansLegal' /\ SnapshotCurrent'
    BY <1>6 DEF IInv, TypeOK, PlansLegal, SnapshotCurrent, vars
  <2> QED
    BY <1>6, <2>1, TablesUnchanged DEF vars, row, IInv
<1> QED
  BY <1>1, <1>2, <1>3, <1>4, <1>5, <1>6 DEF Next, Finish

(* The inductive invariant is an invariant of the order service.           *)
THEOREM Invariance == Spec => []IInv
  BY InitIInv, NextIInv, PTL DEF Spec

(* Every variable always has its type.                                     *)
THEOREM TypeCorrect == Spec => []TypeOK
<1>1. IInv => TypeOK
  BY DEF IInv
<1> QED
  BY Invariance, <1>1, PTL

(* Optimistic locking is sound: an update that finds the version it loaded *)
(* decided on the current status, for any number of concurrent handlers.   *)
THEOREM LockingSound == Spec => []SnapshotCurrent
<1>1. IInv => SnapshotCurrent
  BY DEF IInv
<1> QED
  BY Invariance, <1>1, PTL

(* The outbox never loses or invents an event (ADR-002): confirmation and  *)
(* cancellation are announced at most once and never both.                 *)
THEOREM OutboxCorrect == Spec => []OutboxTellsStatus
<1>1. IInv => OutboxTellsStatus
  BY DEF IInv
<1> QED
  BY Invariance, <1>1, PTL

(* No transition is lost or counted twice, and the version tells how an    *)
(* order was cancelled.                                                    *)
THEOREM VersionCorrect == Spec => []VersionCountsHops
<1>1. IInv => VersionCountsHops
  BY DEF IInv
<1> QED
  BY Invariance, <1>1, PTL

(* All answers to create requests with one idempotency key name one order. *)
THEOREM CreateIdempotent == Spec => []OneOrderPerKey
<1>1. IInv => OneOrderPerKey
  BY ConstantsAssumption DEF IInv, TypeOK, KeysAgree, OneOrderPerKey
<1> QED
  BY Invariance, <1>1, PTL

-----------------------------------------------------------------------------
(* The saga journal.                                                       *)

(* A step of a worker after which it is not about to record anything,      *)
(* while the orders and the journal stay as they are.                      *)
LEMMA QuietJournal ==
  ASSUME IInv, JournalSound, NEW w \in Workers, NEW t, t.pc # "record",
         task' = [task EXCEPT ![w] = t], UNCHANGED <<status, steps>>
  PROVE  JournalSound'
<1>1. \A v \in Workers, o \in Orders, s \in Steps :
        Recording(v, o, s)' <=> v # w /\ Recording(v, o, s)
  BY DEF IInv, TypeOK, Recording
<1>2. \A o \in Orders : Took(o)' \subseteq Took(o)
  BY <1>1 DEF Took
<1>3. RecordedOnce'
  BY <1>1 DEF JournalSound, RecordedOnce
<1>4. StepsOfStatus'
  BY <1>2 DEF JournalSound, StepsOfStatus
<1> QED
  BY <1>3, <1>4 DEF JournalSound

(* A new order has taken no step.                                          *)
LEMMA SaveJournal ==
  ASSUME IInv, JournalSound, NEW w \in Workers, NEW o \in Orders, Save(w, o)
  PROVE  JournalSound'
<1>1. /\ task[w].pc = "save" /\ task' = [task EXCEPT ![w] = Idle]
      /\ status[o] = Absent /\ status' = [status EXCEPT ![o] = "CREATED"] /\ UNCHANGED steps
  BY DEF Save, InsertOrder
<1>2. \A v \in Workers, p \in Orders, s \in Steps :
        Recording(v, p, s)' <=> Recording(v, p, s)
  BY <1>1 DEF IInv, TypeOK, Recording, Idle
<1>3. \A p \in Orders : Took(p)' = Took(p)
  BY <1>1, <1>2 DEF Took
<1>4. RecordedOnce'
  BY <1>1, <1>2 DEF JournalSound, RecordedOnce
<1>5. \A p \in Orders : status'[p] = IF p = o THEN "CREATED" ELSE status[p]
  BY <1>1 DEF IInv, TypeOK
<1>6. StepsOfStatus'
  BY <1>1, <1>3, <1>5 DEF JournalSound, StepsOfStatus
<1> QED
  BY <1>4, <1>6 DEF JournalSound

(* An update takes its order from one of two statuses, in which the order  *)
(* has not taken the step that goes with the update.                       *)
LEMMA UpdateJournal ==
  ASSUME IInv, JournalSound, NEW w \in Workers, Update(w)
  PROVE  JournalSound'
<1> DEFINE t == task[w]
           o == task[w].order
           next == IF t.step = NoStep THEN Idle
                   ELSE [pc |-> "record", order |-> o, step |-> t.step]
<1>1. t.pc = "update" /\ o \in Orders /\ t.step \in Steps \cup {NoStep} /\ t.to \in Statuses
  <2>1. t \in Task /\ t.pc = "update"
    BY DEF Update, WriteOrder, IInv, TypeOK
  <2> QED
    BY <2>1, TaskFields
<1>2. /\ t.from = status[o]
      /\ [from |-> t.from, to |-> t.to, hops |-> t.hops, event |-> t.event, step |-> t.step]
           \in Plans
  BY <1>1 DEF Update, IInv, SnapshotCurrent, PlansLegal
<1>3. /\ status' = [status EXCEPT ![o] = t.to] /\ task' = [task EXCEPT ![w] = next]
      /\ UNCHANGED steps
  BY DEF Update, WriteOrder
<1>4. \/ status[o] = "CREATED" /\ t.to = "PAYMENT_PENDING" /\ t.step = "inventory_reserved"
      \/ status[o] = "CREATED" /\ t.to = "CANCELLED"
           /\ t.step \in {NoStep, "payment_failed", "inventory_failed"}
      \/ status[o] = "PAYMENT_PENDING" /\ t.to = "CONFIRMED" /\ t.step = "payment_completed"
      \/ status[o] = "PAYMENT_PENDING" /\ t.to = "CANCELLED" /\ t.step = "payment_failed"
  BY <1>2 DEF Plans
<1>5. \A v \in Workers, p \in Orders, s \in Steps :
        Recording(v, p, s)' <=> \/ v # w /\ Recording(v, p, s)
                                \/ v = w /\ p = o /\ s = t.step
  BY <1>1, <1>3 DEF IInv, TypeOK, Recording, Idle, NoStep, Steps
<1>6. \A v \in Workers, p \in Orders, s \in Steps : Recording(v, p, s) => v # w
  BY <1>1 DEF Recording
<1>7. \A p \in Orders : Took(p)' = IF p = o THEN Took(p) \cup ({t.step} \cap Steps) ELSE Took(p)
  BY <1>3, <1>5, <1>6 DEF Took
<1>8. t.step \notin Took(o)
  BY <1>1, <1>4 DEF JournalSound, StepsOfStatus, Took, NoStep, Steps
<1>9. \A p \in Orders : status'[p] = IF p = o THEN t.to ELSE status[p]
  BY <1>1, <1>3 DEF IInv, TypeOK
<1>10. RecordedOnce'
  <2> SUFFICES ASSUME NEW p \in Orders, NEW s \in Steps
               PROVE  /\ steps[p][s] <= 1
                      /\ \A v \in Workers : Recording(v, p, s)' =>
                           steps[p][s] = 0 /\ \A u \in Workers : Recording(u, p, s)' => u = v
    BY <1>3 DEF RecordedOnce
  <2>1. steps[p][s] \in Nat
    BY DEF IInv, TypeOK
  <2>2. CASE p = o /\ s = t.step
    <3>1. steps[p][s] = 0 /\ \A v \in Workers : ~ Recording(v, p, s)
      BY <2>1, <2>2, <1>8 DEF Took
    <3> QED
      BY <3>1, <1>5
  <2>3. CASE ~ (p = o /\ s = t.step)
    BY <2>3, <1>5 DEF JournalSound, RecordedOnce
  <2> QED
    BY <2>2, <2>3
<1>11. StepsOfStatus'
  <2> SUFFICES ASSUME NEW p \in Orders PROVE StepsOfStatus!(p)'
    BY DEF StepsOfStatus
  <2>1. CASE p # o
    BY <2>1, <1>7, <1>9 DEF JournalSound, StepsOfStatus
  <2>2. CASE p = o
    <3>1. /\ status[o] = "CREATED" => Took(o) = {}
          /\ status[o] = "PAYMENT_PENDING" => Took(o) \subseteq {"inventory_reserved"}
      BY <1>1 DEF JournalSound, StepsOfStatus
    <3>2. Took(p)' = Took(o) \cup ({t.step} \cap Steps) /\ status'[p] = t.to
      BY <2>2, <1>7, <1>9
    <3> HIDE DEF t, o
    <3> QED
      BY <3>1, <3>2, <1>4 DEF NoStep, Steps, Absent
  <2> QED
    BY <2>1, <2>2
<1> QED
  BY <1>10, <1>11 DEF JournalSound

(* The record of a step that its order has taken already.                  *)
LEMMA RecordJournal ==
  ASSUME IInv, JournalSound, NEW w \in Workers, RecordStep(w)
  PROVE  JournalSound'
<1> DEFINE o == task[w].order
           s == task[w].step
<1>1. o \in Orders /\ s \in Steps /\ task[w].pc = "record"
  BY TaskFields DEF RecordStep, IInv, TypeOK
<1>2. /\ task' = [task EXCEPT ![w] = Idle] /\ UNCHANGED status
      /\ steps' = [steps EXCEPT ![o][s] = @ + 1]
  BY DEF RecordStep, row
<1>3. Recording(w, o, s)
  BY <1>1 DEF Recording
<1>4. steps[o][s] = 0 /\ \A v \in Workers : Recording(v, o, s) => v = w
  BY <1>1, <1>3 DEF JournalSound, RecordedOnce
<1>5. \A v \in Workers, p \in Orders, q \in Steps :
        Recording(v, p, q)' <=> v # w /\ Recording(v, p, q)
  BY <1>2 DEF IInv, TypeOK, Recording, Idle
<1>6. \A p \in Orders, q \in Steps :
        steps'[p][q] = IF p = o /\ q = s THEN 1 ELSE steps[p][q]
  BY <1>1, <1>2, <1>4 DEF IInv, TypeOK
<1>7. \A q \in Steps, p \in Orders : Recording(w, p, q) => p = o /\ q = s
  BY DEF Recording
<1> HIDE DEF o, s
<1>8. \A p \in Orders : Took(p)' \subseteq Took(p)
  BY <1>3, <1>5, <1>6, <1>7 DEF Took
<1>9. RecordedOnce'
  BY <1>4, <1>5, <1>6 DEF JournalSound, RecordedOnce
<1>10. StepsOfStatus'
  BY <1>2, <1>8 DEF JournalSound, StepsOfStatus
<1> QED
  BY <1>9, <1>10 DEF JournalSound

(* Every step preserves what is known of the journal.                      *)
LEMMA NextJournal == IInv /\ JournalSound /\ [Next]_vars => JournalSound'
<1> SUFFICES ASSUME IInv, JournalSound, [Next]_vars PROVE JournalSound'
  OBVIOUS
<1>1. CASE UNCHANGED <<status, steps, task>>
  BY <1>1 DEF JournalSound, RecordedOnce, StepsOfStatus, Took, Recording
<1>2. ASSUME NEW w \in Workers, Create(w) PROVE JournalSound'
  <2>1. ASSUME NEW k \in Keys, CreateMisses(w, k) PROVE JournalSound'
    BY <2>1, QuietJournal DEF CreateMisses, row
  <2>2. ASSUME SaveViolatesUnique(w) PROVE JournalSound'
    BY <2>2, IdleIsTask, QuietJournal DEF SaveViolatesUnique, row
  <2>3. ASSUME NEW k \in Keys, NEW o \in Orders, CreateFinds(w, k, o) PROVE JournalSound'
    BY <2>3, <1>1 DEF CreateFinds, row
  <2> QED
    BY <1>2, <2>1, <2>2, <2>3, SaveJournal DEF Create
<1>3. ASSUME NEW w \in Workers, NEW o \in Orders, Deliver(w, o) PROVE JournalSound'
  <2>1. ASSUME NEW path, NEW event, NEW step, Load(w, o, path, event, step)
        PROVE  JournalSound'
    BY <2>1, QuietJournal DEF Load, Loaded, row
  <2> QED
    BY <1>3, <2>1 DEF Deliver, OnInventoryReserved, OnPaymentCompleted, OnPaymentFailed,
                      OnInventoryFailed, CustomerCancel
<1>4. ASSUME NEW w \in Workers, Conflict(w) \/ Crash(w) PROVE JournalSound'
  BY <1>4, IdleIsTask, QuietJournal DEF Conflict, Crash, row
<1> QED
  BY <1>1, <1>2, <1>3, <1>4, UpdateJournal, RecordJournal DEF Next, Finish, vars, row

(* What is known of the journal holds always.                              *)
THEOREM JournalInvariance == Spec => []JournalSound
<1>1. Init => JournalSound
  <2> SUFFICES ASSUME Init PROVE JournalSound
    OBVIOUS
  <2>1. \A w \in Workers, o \in Orders, s \in Steps : ~ Recording(w, o, s)
    BY DEF Init, Recording, Idle
  <2>2. \A o \in Orders, s \in Steps : steps[o][s] = 0
    BY DEF Init
  <2>3. \A o \in Orders : Took(o) = {}
    BY <2>1, <2>2 DEF Took
  <2> QED
    BY <2>1, <2>2, <2>3 DEF JournalSound, RecordedOnce, StepsOfStatus
<1> QED
  BY <1>1, NextJournal, Invariance, PTL DEF Spec

(* The saga journal never contradicts the order, although a step is        *)
(* recorded after the commit it belongs to, in a statement of its own.     *)
THEOREM JournalCorrect == Spec => []JournalAgrees
<1>1. IInv /\ JournalSound => JournalAgrees
  <2> SUFFICES ASSUME IInv, JournalSound, NEW o \in Orders PROVE JournalAgrees!(o)
    BY DEF JournalAgrees
  <2>1. {s \in Steps : steps[o][s] > 0} \subseteq Took(o)
    BY DEF Took
  <2>2. status[o] \in {Absent, "CREATED", "PAYMENT_PENDING", "CONFIRMED", "CANCELLED"}
    BY DEF IInv, FourStatuses
  <2>3. StepsOfStatus!(o) /\ \A s \in Steps : steps[o][s] <= 1
    BY DEF JournalSound, StepsOfStatus, RecordedOnce
  <2> QED
    BY <2>1, <2>2, <2>3 DEF Absent
<1> QED
  BY <1>1, Invariance, JournalInvariance, PTL

-----------------------------------------------------------------------------
(* The only step that changes the status or the outbox of an order is the  *)
(* insert of a new order or an update whose snapshot is current.           *)
LEMMA WhoWrites ==
  ASSUME IInv, Next, ~ UNCHANGED <<status, outbox>>
  PROVE  \E w \in Workers : (\E o \in Orders : Save(w, o)) \/ Update(w)
<1>1. PICK w \in Workers : Create(w) \/ (\E o \in Orders : Deliver(w, o)) \/ Finish(w) \/ Crash(w)
  BY DEF Next
<1>2. ~ \E o \in Orders : Deliver(w, o)
  BY DEF Deliver, OnInventoryReserved, OnPaymentCompleted, OnPaymentFailed,
         OnInventoryFailed, CustomerCancel, Load, row
<1>3. ~ Conflict(w) /\ ~ RecordStep(w) /\ ~ Crash(w) /\ ~ SaveViolatesUnique(w)
  BY DEF Conflict, RecordStep, Crash, SaveViolatesUnique, row
<1>4. ~ \E k \in Keys : CreateMisses(w, k) \/ \E o \in Orders : CreateFinds(w, k, o)
  BY DEF CreateMisses, CreateFinds, row
<1> QED
  BY <1>1, <1>2, <1>3, <1>4 DEF Create, Finish

(* An update is one of the abstract moves of the life cycle.               *)
LEMMA UpdateMoves ==
  ASSUME IInv, NEW w \in Workers, Update(w)
  PROVE  Lifecycle!Next
<1> DEFINE t == task[w]
           o == task[w].order
<1>1. /\ t.pc = "update" /\ o \in Orders /\ t.event \in Events \cup {NoEvent}
      /\ t.from = status[o] /\ outbox[o] \in Seq(Events)
      /\ [from |-> t.from, to |-> t.to, hops |-> t.hops, event |-> t.event, step |-> t.step]
           \in Plans
  <2>1. t \in Task /\ t.pc = "update" /\ t.seen = version[o]
    BY DEF Update, WriteOrder, IInv, TypeOK
  <2>2. o \in Orders /\ t.event \in Events \cup {NoEvent}
    BY <2>1, TaskFields
  <2> QED
    BY <2>1, <2>2 DEF IInv, TypeOK, SnapshotCurrent, PlansLegal
<1>2. \A e \in Events : Append(outbox[o], e) = outbox[o] \o <<e>>
  BY <1>1, AppendIsConcat
<1>3. outbox[o] \o <<>> = outbox[o] /\ outbox = [outbox EXCEPT ![o] = outbox[o]]
  BY <1>1, ConcatEmptySeq DEF IInv, TypeOK
<1>4. status' = [status EXCEPT ![o] = t.to]
  BY DEF Update, WriteOrder
<1>5. outbox' = [outbox EXCEPT ![o] =
                   outbox[o] \o (IF t.event = NoEvent THEN <<>> ELSE <<t.event>>)]
  BY <1>1, <1>2, <1>3 DEF Update, WriteOrder
<1>6. \/ /\ status[o] = "CREATED" /\ t.to = "PAYMENT_PENDING" /\ t.event = NoEvent
      \/ /\ status[o] = "CREATED" /\ t.to = "CANCELLED" /\ t.event = NoEvent
      \/ /\ status[o] \in {"CREATED", "PAYMENT_PENDING"}
         /\ t.to = "CANCELLED" /\ t.event = "order.cancelled"
      \/ /\ status[o] = "PAYMENT_PENDING" /\ t.to = "CONFIRMED" /\ t.event = "order.confirmed"
  BY <1>1 DEF Plans
<1>7. "order.cancelled" # NoEvent /\ "order.confirmed" # NoEvent
  BY DEF NoEvent
<1>8. Lifecycle!AwaitPayment(o) \/ Lifecycle!Reject(o) \/ Lifecycle!Cancel(o) \/ Lifecycle!Confirm(o)
  BY <1>4, <1>5, <1>6, <1>7
     DEF Lifecycle!AwaitPayment, Lifecycle!Reject, Lifecycle!Cancel, Lifecycle!Confirm,
         Lifecycle!Move
<1> QED
  BY <1>1, <1>8 DEF Lifecycle!Next

(* The insert of an order is its placement.                                *)
LEMMA SavePlaces ==
  ASSUME IInv, NEW w \in Workers, NEW o \in Orders, Save(w, o)
  PROVE  Lifecycle!Place(o)
<1>1. Append(outbox[o], "order.created") = outbox[o] \o <<"order.created">>
  BY AppendIsConcat DEF IInv, TypeOK, Events
<1> QED
  BY <1>1 DEF Save, InsertOrder, Absent, Lifecycle!Place, Lifecycle!Move

(* The order service implements the order life cycle.                      *)
THEOREM Refinement == Spec => ImplementsLifecycle
<1>1. Init => Lifecycle!Init
  BY DEF Init, Lifecycle!Init, Absent
<1>2. IInv /\ [Next]_vars => [Lifecycle!Next]_(Lifecycle!lifecycle)
  <2> SUFFICES ASSUME IInv, Next, ~ UNCHANGED <<status, outbox>>
               PROVE  Lifecycle!Next
    BY DEF vars, Lifecycle!lifecycle
  <2>1. PICK w \in Workers : (\E o \in Orders : Save(w, o)) \/ Update(w)
    BY WhoWrites
  <2> QED
    BY <2>1, SavePlaces, UpdateMoves DEF Lifecycle!Next
<1> QED
  BY <1>1, <1>2, Invariance, PTL DEF Spec, Lifecycle!Spec, ImplementsLifecycle

(* A confirmed or cancelled order never changes again.                     *)
THEOREM TerminalStays == Spec => TerminalIsFinal
<1> DEFINE Stays == \A o \in Orders :
             status[o] # Absent /\ IsTerminal(status[o]) => status'[o] = status[o]
<1>1. IInv /\ [Next]_vars => [Stays]_vars
  <2> SUFFICES ASSUME IInv, Next, ~ UNCHANGED <<status, outbox>>,
                      NEW o \in Orders, status[o] # Absent, IsTerminal(status[o])
               PROVE  status'[o] = status[o]
    BY DEF vars
  <2>1. PICK w \in Workers : (\E p \in Orders : Save(w, p)) \/ Update(w)
    BY WhoWrites
  <2>2. CASE \E p \in Orders : Save(w, p)
    BY <2>2 DEF Save, InsertOrder, IInv, TypeOK
  <2>3. CASE Update(w)
    <3>1. task[w].pc = "update" /\ task[w].seen = version[task[w].order]
          /\ status' = [status EXCEPT ![task[w].order] = task[w].to]
      BY <2>3 DEF Update, WriteOrder
    <3>2. task[w].from \in {"CREATED", "PAYMENT_PENDING"}
      BY <3>1 DEF IInv, PlansLegal, Plans
    <3>3. task[w].from = status[task[w].order]
      BY <3>1 DEF IInv, SnapshotCurrent
    <3>4. task[w].order # o
      BY <3>2, <3>3, StatusNames
    <3> QED
      BY <3>1, <3>4 DEF IInv, TypeOK
  <2> QED
    BY <2>1, <2>2, <2>3
<1> QED
  BY <1>1, Invariance, PTL DEF Spec, TerminalIsFinal
=============================================================================
