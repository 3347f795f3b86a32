---------------------------- MODULE OutboxProofs ----------------------------
(***************************************************************************)
(* Proofs about the outbox relay, for any number of orders, rows, replicas *)
(* and faults and any batch size.  The inductive invariant is IInv of      *)
(* Outbox: what a poller has in hand is closed under "earlier row of the   *)
(* same order", up to rows that are already marked, because a batch is cut *)
(* at an age, and it is sent from its oldest row on.                       *)
(***************************************************************************)
EXTENDS Outbox, FiniteSetTheorems, SequenceTheorems, TLAPS

(* A batch is cut at an age: it holds every unpublished row that is older  *)
(* than one of its rows.                                                   *)
LEMMA OldestIsCutAtAnAge ==
  ASSUME TypeOK, NEW n \in Nat,
         NEW j \in Oldest(n), NEW i \in Unpublished, i <= j
  PROVE  i \in Oldest(n)
<1> DEFINE Upto(k) == {m \in Unpublished : m <= k}
<1>1. Unpublished \subseteq Rows /\ Rows \subseteq Nat /\ IsFiniteSet(Rows)
  BY FS_Interval DEF TypeOK, Unpublished, Rows
<1>2. IsFiniteSet(Upto(j)) /\ IsFiniteSet(Upto(i))
  BY <1>1, FS_Subset, Upto(j) \in SUBSET Rows, Upto(i) \in SUBSET Rows
<1>3. i \in Nat /\ j \in Nat
  BY <1>1 DEF Oldest
<1>4. Upto(i) \in SUBSET Upto(j)
  <2> SUFFICES ASSUME NEW m \in Unpublished, m <= i PROVE m <= j
    OBVIOUS
  <2> QED
    BY <1>1, <1>3
<1>5. Cardinality(Upto(i)) <= Cardinality(Upto(j))
  BY <1>2, <1>4, FS_Subset
<1>6. Cardinality(Upto(j)) <= n
  BY DEF Oldest
<1>7. Cardinality(Upto(i)) \in Nat /\ Cardinality(Upto(j)) \in Nat
  BY <1>2, FS_CardinalityType
<1>8. Cardinality(Upto(i)) <= n
  BY <1>5, <1>6, <1>7
<1> QED
  BY <1>8 DEF Oldest

(* The invariant holds of the empty table.                                 *)
LEMMA InitIInv == Init => IInv
<1> SUFFICES ASSUME Init PROVE IInv
  OBVIOUS
<1>1. Rows = {} /\ sent = {}
  BY DEF Init, Rows
<1>2. TypeOK
  BY <1>1, OutboxAssumption DEF Init, TypeOK, Poller, Idle
<1>3. BatchesClosed
  BY DEF Init, BatchesClosed, Idle
<1> QED
  BY <1>1, <1>2, <1>3 DEF Init, IInv, MarkedIsSent, EarlierVisible, FirstSentInOrder

-----------------------------------------------------------------------------
(* A new row is the youngest of its order, and the others are visible.     *)
LEMMA BeginWriteIInv ==
  ASSUME IInv, NEW o \in Orders, BeginWrite(o)
  PROVE  IInv'
<1> DEFINE n == Len(owner) + 1
<1>1. Len(owner) \in Nat /\ owner' \in Seq(Orders) /\ Len(owner') = n /\ owner'[n] = o
  BY AppendProperties DEF IInv, TypeOK, BeginWrite
<1>2. \A i \in Rows : owner'[i] = owner[i]
  BY AppendProperties DEF IInv, TypeOK, BeginWrite, Rows
<1>3. Rows' = Rows \cup {n} /\ Rows \subseteq Nat /\ \A i \in Rows : i < n
  BY <1>1 DEF Rows
<1>4. UNCHANGED <<visible, marked, sent, poller, channel, faults>>
  BY DEF BeginWrite
<1>5. TypeOK'
  BY <1>1, <1>3, <1>4 DEF IInv, TypeOK
<1>6. \A j \in visible : j \in Rows
  BY DEF IInv, TypeOK
<1>7. EarlierVisible'
  <2> SUFFICES ASSUME NEW i \in Rows', NEW j \in Rows', i < j, owner'[i] = owner'[j]
               PROVE  i \in visible
    BY <1>4 DEF EarlierVisible
  <2>1. i \in Rows
    BY <1>3
  <2>2. CASE j = n
    BY <2>1, <2>2, <1>1, <1>2 DEF BeginWrite
  <2>3. CASE j \in Rows
    BY <2>1, <2>3, <1>2 DEF IInv, EarlierVisible
  <2> QED
    BY <2>2, <2>3, <1>3
<1>8. BatchesClosed'
  <2> SUFFICES ASSUME NEW r \in Replicas, NEW j \in poller[r].batch, NEW i \in Rows',
                      i < j, owner'[i] = owner'[j]
               PROVE  i \in marked \cup poller[r].batch
    BY <1>4 DEF IInv, BatchesClosed
  <2>1. j \in Rows
    BY <1>6 DEF IInv, BatchesClosed
  <2>2. i \in Rows
    BY <2>1, <1>3
  <2> QED
    BY <2>1, <2>2, <1>2 DEF IInv, BatchesClosed
<1>9. FirstSentInOrder'
  <2> SUFFICES ASSUME NEW j \in sent, NEW i \in Rows', i < j, owner'[i] = owner'[j]
               PROVE  i \in sent
    BY <1>4 DEF FirstSentInOrder
  <2>1. j \in Rows
    BY <1>6 DEF IInv, TypeOK
  <2>2. i \in Rows
    BY <2>1, <1>3
  <2> QED
    BY <2>1, <2>2, <1>2 DEF IInv, FirstSentInOrder
<1> QED
  BY <1>4, <1>5, <1>7, <1>8, <1>9 DEF IInv, MarkedIsSent

(* A commit only adds to what is visible.                                  *)
LEMMA CommitWriteIInv ==
  ASSUME IInv, NEW i \in Rows, CommitWrite(i)
  PROVE  IInv'
<1>1. UNCHANGED <<owner, marked, sent, poller, channel, faults>> /\ visible \subseteq visible'
  BY DEF CommitWrite
<1>2. Rows' = Rows /\ sent' = sent
  BY <1>1 DEF Rows
<1>3. TypeOK'
  BY <1>1, <1>2 DEF IInv, TypeOK, CommitWrite
<1>4. EarlierVisible' /\ BatchesClosed' /\ FirstSentInOrder'
  BY <1>1, <1>2 DEF IInv, EarlierVisible, BatchesClosed, FirstSentInOrder
<1> QED
  BY <1>1, <1>2, <1>3, <1>4 DEF IInv, MarkedIsSent

-----------------------------------------------------------------------------
(* A poller that becomes idle when it has marked what was confirmed.       *)
LEMMA IdleIInv ==
  ASSUME IInv, NEW r \in Replicas,
         poller' = [poller EXCEPT ![r] = Idle],
         marked' \in {marked, marked \cup poller[r].done},
         UNCHANGED <<owner, visible, sent, channel, faults>>
  PROVE  IInv'
<1>1. Rows' = Rows /\ sent' = sent
  BY DEF Rows
<1>2. poller[r].done \subseteq visible \cap sent
  BY DEF IInv, BatchesClosed
<1>3. marked \subseteq marked' /\ marked' \subseteq visible \cap sent
  BY <1>2 DEF IInv, TypeOK, MarkedIsSent
<1>4. TypeOK'
  BY <1>1, <1>3 DEF IInv, TypeOK, Poller, Idle
<1>5. BatchesClosed'
  BY <1>1, <1>3 DEF IInv, TypeOK, BatchesClosed, Idle
<1>6. EarlierVisible' /\ FirstSentInOrder'
  BY <1>1 DEF IInv, EarlierVisible, FirstSentInOrder
<1> QED
  BY <1>1, <1>3, <1>4, <1>5, <1>6 DEF IInv, MarkedIsSent

(* The batch that is fetched is closed, since the earlier rows of an order *)
(* are visible and a batch is cut at an age.                               *)
LEMMA FetchIInv ==
  ASSUME IInv, NEW r \in Replicas, Fetch(r)
  PROVE  IInv'
<1> DEFINE batch == Oldest(BatchSize)
<1>1. /\ UNCHANGED <<owner, visible, marked, sent, channel, faults>> /\ Rows' = Rows
      /\ poller' = [poller EXCEPT ![r] = [pc |-> "publish", batch |-> batch, done |-> {}]]
  BY DEF Fetch, Rows
<1>2. batch \subseteq visible /\ visible \subseteq Rows /\ Rows \subseteq Nat
  BY DEF Oldest, Unpublished, IInv, TypeOK, Rows
<1>3. TypeOK'
  BY <1>1, <1>2 DEF IInv, TypeOK, Poller
<1>4. \A j \in batch : \A i \in Rows :
         i < j /\ owner[i] = owner[j] => i \in marked \cup batch
  <2> SUFFICES ASSUME NEW j \in batch, NEW i \in Rows, i < j, owner[i] = owner[j],
                      i \notin marked
               PROVE  i \in batch
    OBVIOUS
  <2>1. i \in Unpublished
    BY <1>2 DEF IInv, EarlierVisible, Unpublished
  <2>2. i <= j
    <3>1. j \in Nat /\ i \in Nat
      BY <1>2
    <3> HIDE DEF batch
    <3> QED
      BY <3>1
  <2> QED
    BY <2>1, <2>2, OldestIsCutAtAnAge, OutboxAssumption DEF IInv
<1> HIDE DEF batch
<1>5. BatchesClosed'
  BY <1>1, <1>2, <1>4 DEF IInv, TypeOK, BatchesClosed
<1> QED
  BY <1>1, <1>3, <1>5 DEF IInv, MarkedIsSent, EarlierVisible, FirstSentInOrder

(* What happens to the row that is on its way, and to its poller: the      *)
(* broker has it or not, and the poller goes on with its batch or drops    *)
(* it.  The earlier rows of the row's order are marked or were sent before *)
(* it in this batch.                                                       *)
LEMMA PollerIInv ==
  ASSUME IInv, NEW r \in Replicas, UNCHANGED <<owner, visible, marked>>,
         sent' = sent \/ \E i \in Rows : Upcoming(r, i) /\ sent' = sent \cup {i},
         NEW p \in Poller, poller' = [poller EXCEPT ![r] = p],
         p.batch \in {poller[r].batch, {}}, p.done \subseteq p.batch \cap sent',
         channel' \in [Replicas -> {"none", "open", "closed"}], faults' \in Nat
  PROVE  IInv'
<1>1. Rows' = Rows /\ Rows \subseteq Nat /\ sent \subseteq sent'
  BY DEF Rows
<1>2. sent' \subseteq visible
  BY DEF Upcoming, IInv, TypeOK, BatchesClosed
<1>3. TypeOK'
  BY <1>1, <1>2 DEF IInv, TypeOK
<1>4. BatchesClosed'
  BY <1>1 DEF IInv, TypeOK, BatchesClosed
<1>5. FirstSentInOrder'
  <2> SUFFICES ASSUME NEW i \in Rows, Upcoming(r, i), sent' = sent \cup {i}
               PROVE  FirstSentInOrder'
    BY <1>1 DEF IInv, FirstSentInOrder
  <2>1. \A k \in Rows : k < i /\ owner[k] = owner[i] => k \in sent
    <3> SUFFICES ASSUME NEW k \in Rows, k < i, owner[k] = owner[i], k \notin marked
                 PROVE  k \in sent
      BY DEF IInv, MarkedIsSent
    <3>1. k \in poller[r].batch
      BY DEF Upcoming, IInv, BatchesClosed
    <3>2. k \in poller[r].done
      BY <3>1, <1>1 DEF Upcoming
    <3> QED
      BY <3>2 DEF IInv, BatchesClosed
  <2> QED
    BY <1>1, <2>1 DEF IInv, FirstSentInOrder
<1> QED
  BY <1>1, <1>3, <1>4, <1>5 DEF IInv, MarkedIsSent, EarlierVisible

(* The broker confirms a row.                                              *)
LEMMA PublishIInv ==
  ASSUME IInv, NEW r \in Replicas, NEW i \in Rows, Publish(r, i)
  PROVE  IInv'
<1> DEFINE q == poller[r]
           done == q.done \cup {i}
           p == [pc |-> IF done = q.batch THEN "mark" ELSE "publish",
                 batch |-> q.batch, done |-> done]
<1>1. q \in Poller /\ i \in Nat
  BY DEF IInv, TypeOK, Rows
<1>2. p \in Poller /\ p.batch = q.batch /\ p.done = done
  BY <1>1 DEF Poller
<1>3. poller' = [poller EXCEPT ![r] = p]
  BY DEF Publish
<1>4. sent' = sent \cup {i} /\ Upcoming(r, i) /\ UNCHANGED <<owner, visible, marked>>
  BY DEF Publish
<1>5. done \subseteq q.batch \cap sent'
  BY <1>4 DEF Upcoming, IInv, BatchesClosed
<1>6. channel' \in [Replicas -> {"none", "open", "closed"}] /\ faults' \in Nat
  BY DEF Publish, IInv, TypeOK
<1> HIDE DEF p, done
<1> QED
  BY <1>2, <1>3, <1>4, <1>5, <1>6, PollerIInv

(* The publish is rejected: by the broker, which may have the row all the  *)
(* same, or because the channel is closed.                                 *)
LEMMA PublishFailsIInv ==
  ASSUME IInv, NEW r \in Replicas, NEW i \in Rows,
         PublishFails(r, i) \/ PublishRefused(r, i)
  PROVE  IInv'
<1> DEFINE q == poller[r]
           p == [pc |-> "mark", batch |-> q.batch, done |-> q.done]
<1>1. q \in Poller
  BY DEF IInv, TypeOK
<1>2. p \in Poller /\ p.batch = q.batch /\ p.done = q.done
  BY <1>1 DEF Poller
<1>3. poller' = [poller EXCEPT ![r] = p]
  <2>1. [q EXCEPT !.pc = "mark"] = p
    BY <1>1 DEF Poller
  <2> QED
    BY <2>1 DEF PublishFails, PublishRefused, IInv, TypeOK
<1>4. /\ sent' = sent \/ (Upcoming(r, i) /\ sent' = sent \cup {i})
      /\ UNCHANGED <<owner, visible, marked>>
  BY DEF PublishFails, PublishRefused
<1>5. q.done \subseteq q.batch \cap sent'
  BY <1>4 DEF IInv, BatchesClosed
<1>6. channel' \in [Replicas -> {"none", "open", "closed"}] /\ faults' \in Nat
  BY DEF PublishFails, PublishRefused, Fault, IInv, TypeOK
<1> HIDE DEF p
<1> QED
  BY <1>2, <1>3, <1>4, <1>5, <1>6, PollerIInv

(* The update fails, the channel closes under the poller, or the replica   *)
(* restarts.                                                               *)
LEMMA ReplicaFailsIInv ==
  ASSUME IInv, NEW r \in Replicas, MarkFails(r) \/ ChannelCloses(r) \/ Restarts(r)
  PROVE  IInv'
<1>1. /\ sent' = sent \/ \E i \in Rows : Upcoming(r, i) /\ sent' = sent \cup {i}
      /\ UNCHANGED <<owner, visible, marked>>
  BY DEF MarkFails, ChannelCloses, Restarts, MayArrive
<1>2. channel' \in [Replicas -> {"none", "open", "closed"}] /\ faults' \in Nat
  BY DEF MarkFails, ChannelCloses, Restarts, Fault, IInv, TypeOK
<1>3. Idle \in Poller /\ Idle.batch = {} /\ Idle.done = {}
  BY DEF Poller, Idle
<1>4. poller[r] \in Poller /\ poller = [poller EXCEPT ![r] = poller[r]]
  BY DEF IInv, TypeOK
<1>5. poller[r].done \subseteq poller[r].batch \cap sent'
  BY <1>1 DEF IInv, BatchesClosed
<1>6. poller' = [poller EXCEPT ![r] = Idle] \/ poller' = [poller EXCEPT ![r] = poller[r]]
  BY <1>4 DEF MarkFails, ChannelCloses, Restarts
<1> QED
  BY <1>1, <1>2, <1>3, <1>4, <1>5, <1>6, PollerIInv

-----------------------------------------------------------------------------
(* Every step preserves the invariant.                                     *)
LEMMA NextIInv == IInv /\ [Next]_vars => IInv'
<1> SUFFICES ASSUME IInv, [Next]_vars PROVE IInv'
  OBVIOUS
<1>1. CASE UNCHANGED vars
  <2>1. /\ owner' = owner /\ visible' = visible /\ marked' = marked
        /\ sent' = sent /\ poller' = poller /\ channel' = channel /\ faults' = faults
    BY <1>1 DEF vars
  <2>2. Rows' = Rows /\ sent' = sent
    BY <2>1 DEF Rows
  <2>3. TypeOK' /\ MarkedIsSent'
    BY <2>1, <2>2 DEF IInv, TypeOK, MarkedIsSent
  <2>4. EarlierVisible' /\ FirstSentInOrder'
    BY <2>1, <2>2 DEF IInv, EarlierVisible, FirstSentInOrder
  <2>5. BatchesClosed'
    BY <2>1, <2>2 DEF IInv, BatchesClosed
  <2> QED
    BY <2>1, <2>2, <2>3, <2>4, <2>5 DEF IInv
<1>2. CASE \E o \in Orders : BeginWrite(o)
  BY <1>2, BeginWriteIInv
<1>3. CASE \E i \in Rows : CommitWrite(i)
  BY <1>3, CommitWriteIInv
<1>4. ASSUME NEW r \in Replicas, Poll(r) PROVE IInv'
  <2>1. CASE Fetch(r)
    BY <2>1, FetchIInv
  <2>2. CASE \E i \in Rows : Publish(r, i)
    BY <2>2, PublishIInv
  <2>3. CASE Mark(r)
    BY <2>3, IdleIInv DEF Mark
  <2> QED
    BY <1>4, <2>1, <2>2, <2>3 DEF Poll
<1>5. CASE \E r \in Replicas : \E i \in Rows : PublishFails(r, i) \/ PublishRefused(r, i)
  BY <1>5, PublishFailsIInv
<1>6. CASE \E r \in Replicas : MarkFails(r) \/ ChannelCloses(r) \/ Restarts(r)
  BY <1>6, ReplicaFailsIInv
<1> QED
  BY <1>1, <1>2, <1>3, <1>4, <1>5, <1>6 DEF Next

(* The inductive invariant is an invariant of the relay.                   *)
THEOREM Invariance == Spec => []IInv
  BY InitIInv, NextIInv, PTL DEF Spec

(* Every variable always has its type.                                     *)
THEOREM TypeCorrect == Spec => []TypeOK
<1>1. IInv => TypeOK
  BY DEF IInv
<1> QED
  BY Invariance, <1>1, PTL

(* No event is lost: a row is marked published only if the broker accepted *)
(* it, for any number of pollers and faults (ADR-002).                     *)
THEOREM NoEventLost == Spec => []MarkedIsSent
<1>1. IInv => MarkedIsSent
  BY DEF IInv
<1> QED
  BY Invariance, <1>1, PTL

(* The first publications of an order's events are in the order in which   *)
(* they were written, for any number of pollers and faults.                *)
THEOREM FirstPublicationsOrdered == Spec => []FirstSentInOrder
<1>1. IInv => FirstSentInOrder
  BY DEF IInv
<1> QED
  BY Invariance, <1>1, PTL
-----------------------------------------------------------------------------
(* The relay the saga counts on.  The rows counted as relayed are the rows *)
(* sent, because those of an order are sent from the oldest one on.        *)
LEMMA RelayedIsSent ==
  ASSUME IInv, NEW o \in Orders
  PROVE  RelayedOf(o) = {i \in sent : owner[i] = o}
<1>1. sent \subseteq Rows /\ Rows \subseteq Nat
  BY DEF IInv, TypeOK, Rows
<1>2. ASSUME NEW i \in RelayedOf(o) PROVE i \in sent /\ owner[i] = o
  <2>1. PICK j \in sent : owner[j] = o /\ i <= j
    BY DEF RelayedOf
  <2>2. i \in Rows /\ owner[i] = owner[j]
    BY <2>1 DEF RelayedOf
  <2>3. i = j \/ i < j
    BY <1>1, <2>1, <2>2
  <2> QED
    BY <2>1, <2>2, <2>3 DEF IInv, FirstSentInOrder
<1>3. ASSUME NEW i \in sent, owner[i] = o PROVE i \in RelayedOf(o)
  <2>1. i \in Rows /\ i <= i
    BY <1>1
  <2> QED
    BY <1>3, <2>1 DEF RelayedOf
<1> QED
  BY <1>2, <1>3

(* Of each order finitely many rows are written, and of these some are     *)
(* relayed.                                                                *)
LEMMA Counted ==
  ASSUME IInv, NEW o \in Orders
  PROVE  /\ IsFiniteSet(WrittenOf(o)) /\ IsFiniteSet(RelayedOf(o))
         /\ RelayedOf(o) \subseteq WrittenOf(o)
         /\ Cardinality(WrittenOf(o)) \in Nat /\ Cardinality(RelayedOf(o)) \in Nat
<1>1. Len(owner) \in Nat
  BY DEF IInv, TypeOK
<1>2. IsFiniteSet(Rows)
  BY <1>1, FS_Interval DEF Rows
<1>3. WrittenOf(o) \in SUBSET Rows /\ RelayedOf(o) \in SUBSET Rows
  BY DEF IInv, TypeOK, WrittenOf, RelayedOf
<1>4. IsFiniteSet(WrittenOf(o)) /\ IsFiniteSet(RelayedOf(o))
  BY <1>2, <1>3, FS_Subset
<1>5. RelayedOf(o) \subseteq WrittenOf(o)
  BY RelayedIsSent DEF IInv, TypeOK, WrittenOf
<1> QED
  BY <1>4, <1>5, FS_CardinalityType

(* A set of rows that gains one row counts one more.                       *)
LEMMA OneMore ==
  ASSUME NEW S, IsFiniteSet(S), NEW x, x \notin S, NEW T, T = S \cup {x}
  PROVE  Cardinality(T) = Cardinality(S) + 1
<1>1. Cardinality(S \cup {x}) = Cardinality(S) + 1
  BY FS_AddElement
<1> QED
  BY <1>1, Zenon

(* What the relay of the abstract specification sees of a step.            *)
Written == [o \in Orders |-> Cardinality(WrittenOf(o))]
Relayed == [o \in Orders |-> Cardinality(RelayedOf(o))]

(* A step that keeps the rows of every order as they are shows nothing.    *)
LEMMA NothingShows ==
  ASSUME \A o \in Orders : WrittenOf(o)' = WrittenOf(o),
         \A o \in Orders : RelayedOf(o)' = RelayedOf(o)
  PROVE  Written' = Written /\ Relayed' = Relayed
<1>1. \A o \in Orders : Cardinality(WrittenOf(o))' = Cardinality(WrittenOf(o))
  BY Zenon
<1>2. \A o \in Orders : Cardinality(RelayedOf(o))' = Cardinality(RelayedOf(o))
  BY Zenon
<1>3. Written' = Written
  BY <1>1, Zenon DEF Written
<1>4. Relayed' = Relayed
  BY <1>2, Zenon DEF Relayed
<1> QED
  BY <1>3, <1>4

(* The events of an empty table.                                           *)
LEMMA InitShows == Init => Events!Init
<1> SUFFICES ASSUME Init PROVE Events!Init
  OBVIOUS
<1>1. Rows = {} /\ visible = {}
  BY DEF Init, Rows
<1>2. ASSUME NEW o \in Orders
      PROVE  Cardinality(WrittenOf(o)) = 0 /\ Cardinality(RelayedOf(o)) = 0
  <2>1. WrittenOf(o) = {} /\ RelayedOf(o) = {}
    BY <1>1 DEF WrittenOf, RelayedOf
  <2>2. Cardinality({}) = 0
    BY FS_EmptySet
  <2> QED
    BY <2>1, <2>2, Zenon
<1>3. Written = [o \in Orders |-> 0] /\ Relayed = [o \in Orders |-> 0]
  BY <1>2 DEF Written, Relayed
<1> QED
  BY <1>3, Zenon DEF Events!Init, Written, Relayed

(* A transaction that has started shows nothing yet.                       *)
LEMMA BeginWriteShows ==
  ASSUME IInv, NEW o \in Orders, BeginWrite(o)
  PROVE  Written' = Written /\ Relayed' = Relayed
<1> DEFINE n == Len(owner) + 1
<1>1. Len(owner) \in Nat /\ Len(owner') = n
  BY AppendProperties DEF IInv, TypeOK, BeginWrite
<1>2. \A i \in Rows : owner'[i] = owner[i]
  BY AppendProperties DEF IInv, TypeOK, BeginWrite, Rows
<1>3. Rows' = Rows \cup {n} /\ Rows \subseteq Nat /\ \A i \in Rows : i < n
  BY <1>1 DEF Rows
<1>4. visible' = visible /\ sent' = sent /\ visible \subseteq Rows /\ sent \subseteq visible
  BY DEF BeginWrite, IInv, TypeOK
<1>5. ASSUME NEW p \in Orders PROVE WrittenOf(p)' = WrittenOf(p)
  BY <1>2, <1>4 DEF WrittenOf
<1>6. ASSUME NEW p \in Orders PROVE RelayedOf(p)' = RelayedOf(p)
  <2>1. \A j \in sent : j \in Rows /\ ~ (n <= j)
    BY <1>3, <1>4, <1>1
  <2> HIDE DEF n
  <2> QED
    BY <1>2, <1>3, <1>4, <2>1 DEF RelayedOf
<1> QED
  BY <1>5, <1>6, NothingShows

(* A commit shows one more event of the order the row is about.            *)
LEMMA CommitWriteShows ==
  ASSUME IInv, NEW i \in Rows, CommitWrite(i)
  PROVE  Events!Write(owner[i])
<1>1. PICK o : o = owner[i]
  OBVIOUS
<1>2. /\ o \in Orders /\ i \notin visible /\ visible' = visible \cup {i}
      /\ owner' = owner /\ Rows' = Rows /\ sent' = sent
  BY <1>1 DEF CommitWrite, IInv, TypeOK, Rows
<1>3. Cardinality(WrittenOf(o))' = Cardinality(WrittenOf(o)) + 1
  <2>1. i \notin WrittenOf(o) /\ WrittenOf(o)' = WrittenOf(o) \cup {i}
    BY <1>1, <1>2 DEF WrittenOf
  <2> QED
    BY <1>2, <2>1, Counted, OneMore
<1>4. \A p \in Orders : p # o => Cardinality(WrittenOf(p))' = Cardinality(WrittenOf(p))
  <2>1. \A p \in Orders : p # o => WrittenOf(p)' = WrittenOf(p)
    BY <1>1, <1>2 DEF WrittenOf
  <2> QED
    BY <2>1, Zenon
<1>5. Relayed' = Relayed
  <2>1. \A p \in Orders : RelayedOf(p)' = RelayedOf(p)
    BY <1>2 DEF RelayedOf
  <2>2. \A p \in Orders : Cardinality(RelayedOf(p))' = Cardinality(RelayedOf(p))
    BY <2>1, Zenon
  <2> QED
    BY <2>2, Zenon DEF Relayed
<1>6. Written' = [Written EXCEPT ![o] = @ + 1]
  BY <1>2, <1>3, <1>4 DEF Written
<1> QED
  BY <1>1, <1>5, <1>6, Zenon DEF Events!Write, Written, Relayed

(* A row that the broker takes for the first time is the next of its order;*)
(* one that it takes again shows nothing.                                  *)
LEMMA SentShows ==
  ASSUME IInv, IInv', NEW i \in Rows, sent' = sent \cup {i}, UNCHANGED <<owner, visible>>
  PROVE  Events!Relay(owner[i]) \/ (Written' = Written /\ Relayed' = Relayed)
<1>1. PICK o : o = owner[i]
  OBVIOUS
<1>2. o \in Orders /\ i \in Nat /\ \A p \in Orders : WrittenOf(p)' = WrittenOf(p)
  BY <1>1 DEF IInv, TypeOK, Rows, WrittenOf
<1>3. sent' = sent \cup {i}
  OBVIOUS
<1>4. ASSUME NEW p \in Orders, p # o \/ i \in sent PROVE RelayedOf(p)' = RelayedOf(p)
  <2>1. \A j \in sent' : owner[j] = p => j \in sent
    <3>1. p # o => \A j \in sent' : owner[j] = p => j # i
      BY <1>1
    <3> QED
      BY <1>3, <1>4, <3>1
  <2>2. Rows' = Rows /\ owner' = owner /\ sent \subseteq sent'
    BY <1>3 DEF Rows
  <2> QED
    BY <2>1, <2>2 DEF RelayedOf
<1>5. CASE i \in sent
  <2>1. \A p \in Orders : RelayedOf(p)' = RelayedOf(p)
    BY <1>4, <1>5
  <2> QED
    BY <1>2, <2>1, NothingShows
<1>6. CASE i \notin sent
  <2>1. RelayedOf(o) = {k \in sent : owner[k] = o}
    BY <1>2, RelayedIsSent
  <2>2. ASSUME NEW k \in RelayedOf(o)' PROVE k \in RelayedOf(o) \cup {i}
    <3>1. PICK j \in sent' : k \in Rows /\ owner[k] = o /\ owner[j] = o /\ k <= j
      BY <2>2 DEF RelayedOf, Rows
    <3>2. CASE j \in sent
      BY <3>1, <3>2 DEF RelayedOf
    <3>3. CASE j = i
      <4>1. k < i => k \in sent'
        BY <1>1, <1>3, <3>1, <3>3 DEF IInv, FirstSentInOrder, Rows
      <4>2. k = i \/ k < i
        BY <1>2, <3>1, <3>3 DEF Rows
      <4> QED
        BY <1>3, <2>1, <3>1, <4>1, <4>2
    <3> QED
      BY <1>3, <3>1, <3>2, <3>3
  <2>3. ASSUME NEW k \in RelayedOf(o) \cup {i} PROVE k \in RelayedOf(o)'
    <3>1. CASE k = i
      BY <1>1, <1>2, <1>3, <3>1 DEF RelayedOf, Rows
    <3>2. CASE k \in RelayedOf(o)
      BY <1>3, <3>2 DEF RelayedOf, Rows
    <3> QED
      BY <3>1, <3>2
  <2>4. RelayedOf(o)' = RelayedOf(o) \cup {i} /\ i \notin RelayedOf(o)
    BY <2>1, <2>2, <2>3, <1>6
  <2>5. Cardinality(RelayedOf(o))' = Cardinality(RelayedOf(o)) + 1
    BY <1>2, <2>4, Counted, OneMore
  <2>6. Cardinality(RelayedOf(o)) < Cardinality(WrittenOf(o))
    <3>1. i \in visible
      BY <1>3 DEF IInv, TypeOK
    <3>2. RelayedOf(o)' \in SUBSET WrittenOf(o)
      BY <1>1, <1>2, <2>4, <3>1, Counted DEF WrittenOf
    <3>3. Cardinality(RelayedOf(o)') <= Cardinality(WrittenOf(o))
      BY <1>2, <3>2, Counted, FS_Subset
    <3> QED
      BY <1>2, <2>5, <3>3, Counted
  <2>7. \A p \in Orders : p # o => Cardinality(RelayedOf(p))' = Cardinality(RelayedOf(p))
    <3>1. \A p \in Orders : p # o => RelayedOf(p)' = RelayedOf(p)
      BY <1>4
    <3> QED
      BY <3>1, Zenon
  <2>8. Relayed' = [Relayed EXCEPT ![o] = @ + 1] /\ Relayed[o] < Written[o]
    BY <1>2, <2>5, <2>6, <2>7 DEF Relayed, Written
  <2>9. Written' = Written
    <3>1. \A p \in Orders : Cardinality(WrittenOf(p))' = Cardinality(WrittenOf(p))
      BY <1>2, Zenon
    <3> QED
      BY <3>1, Zenon DEF Written
  <2> QED
    BY <1>1, <2>8, <2>9, Zenon DEF Events!Relay, Written, Relayed
<1> QED
  BY <1>5, <1>6

(* What keeps the rows and what was sent of them shows nothing.            *)
LEMMA QuietShows ==
  ASSUME UNCHANGED <<owner, visible, sent>>
  PROVE  Written' = Written /\ Relayed' = Relayed
<1>1. Rows' = Rows /\ sent' = sent
  BY DEF Rows
<1>2. \A p \in Orders : WrittenOf(p)' = WrittenOf(p)
  BY DEF WrittenOf
<1>3. \A p \in Orders : RelayedOf(p)' = RelayedOf(p)
  BY <1>1 DEF RelayedOf
<1> QED
  BY <1>2, <1>3, NothingShows

(* Every step of the pollers and the writers is a step of the relay, or    *)
(* none of its business.                                                   *)
LEMMA StepShows == IInv /\ IInv' /\ [Next]_vars => [Events!Next]_<<Written, Relayed>>
<1> SUFFICES ASSUME IInv, IInv', [Next]_vars
             PROVE  Events!Next \/ (Written' = Written /\ Relayed' = Relayed)
  OBVIOUS
<1>0. \A i \in Rows : owner[i] \in Orders
  BY DEF IInv, TypeOK, Rows
<1>1. CASE UNCHANGED vars
  BY <1>1, QuietShows DEF vars
<1>2. CASE \E o \in Orders : BeginWrite(o)
  BY <1>2, BeginWriteShows
<1>3. CASE \E i \in Rows : CommitWrite(i)
  BY <1>0, <1>3, CommitWriteShows DEF Events!Next
<1>4. ASSUME NEW r \in Replicas, Fetch(r) \/ Mark(r) \/ MarkFails(r)
      PROVE  Written' = Written /\ Relayed' = Relayed
  BY <1>4, QuietShows DEF Fetch, Mark, MarkFails
<1>5. ASSUME NEW r \in Replicas,
             \/ \E i \in Rows : Publish(r, i) \/ PublishFails(r, i) \/ PublishRefused(r, i)
             \/ ChannelCloses(r) \/ Restarts(r)
      PROVE  Events!Next \/ (Written' = Written /\ Relayed' = Relayed)
  <2>1. /\ UNCHANGED <<owner, visible>>
        /\ sent' = sent \/ \E i \in Rows : sent' = sent \cup {i}
    BY <1>5 DEF Publish, PublishFails, PublishRefused, ChannelCloses, Restarts, MayArrive
  <2>2. CASE sent' = sent
    BY <2>1, <2>2, QuietShows
  <2>3. CASE \E i \in Rows : sent' = sent \cup {i}
    BY <1>0, <2>1, <2>3, SentShows DEF Events!Next
  <2> QED
    BY <2>1, <2>2, <2>3
<1> QED
  BY <1>1, <1>2, <1>3, <1>4, <1>5 DEF Next, Poll

(* The pollers of all replicas together implement the relay of the saga:   *)
(* no event of an order overtakes an earlier one, whatever fails.          *)
THEOREM Refinement == Spec => ImplementsRelay
<1>1. Init => Events!Init
  BY InitShows
<1>2. IInv /\ IInv' /\ [Next]_vars
        => [Events!Next]_<<[o \in Orders |-> Cardinality(WrittenOf(o))],
                           [o \in Orders |-> Cardinality(RelayedOf(o))]>>
  BY StepShows DEF Written, Relayed
<1> QED
  BY <1>1, <1>2, Invariance, PTL DEF Spec, ImplementsRelay, Events!Spec
=============================================================================
