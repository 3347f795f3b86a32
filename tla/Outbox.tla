------------------------------- MODULE Outbox -------------------------------
(***************************************************************************)
(* The relay side of the transactional outbox: every replica of the order  *)
(* service polls the one outbox table and publishes what it finds to the   *)
(* broker.                                                                 *)
(*                                                                         *)
(* A row gets its created_at when its transaction starts and is seen when  *)
(* it commits, so rows of different orders may appear out of created_at    *)
(* order; the rows of one order never do, because the update that writes   *)
(* the later one has loaded the order the earlier one committed.  A row is *)
(* identified with the rank of its created_at.                             *)
(*                                                                         *)
(* A poll reads a batch without locking it, publishes it row by row in     *)
(* created_at order waiting for the broker's confirm each time, stops at   *)
(* the first failure, and marks what was confirmed in one update.  Nothing *)
(* keeps the pollers of two replicas from having the same rows in hand.    *)
(*                                                                         *)
(* A replica connects to the broker once, when it starts, and publishes on *)
(* the one confirm channel made then.  If the broker closes it gracefully, *)
(* nothing opens another: the replica polls in vain until it is restarted. *)
(* If the broker is not there at the start, the replica never polls.       *)
(***************************************************************************)
EXTENDS Naturals, Sequences, FiniteSets

CONSTANTS
  Orders,
  Replicas,
  BatchSize,    (* 100 in startMessaging                                     *)
  MaxRows,      (* bound: outbox rows ever written                           *)
  MaxFaults     (* bound: broker refusals, closed channels, failed updates   *)
                (* and crashes together                                      *)

ASSUME OutboxAssumption == BatchSize \in Nat \ {0} /\ MaxRows \in Nat /\ MaxFaults \in Nat

VARIABLES
  owner,      (* owner[i]: the order that row i is about                     *)
  visible,    (* the rows that are committed                                 *)
  marked,     (* the rows whose published flag is set                        *)
  sent,       (* history: the rows the broker has accepted                   *)
  poller,     (* what the poller of each replica is doing                    *)
  channel,    (* its confirm channel: "none" (messaging has not started),    *)
              (* "open" or "closed"                                          *)
  faults      (* how many faults there have been                             *)

vars == <<owner, visible, marked, sent, poller, channel, faults>>

Rows == 1..Len(owner)
Idle == [pc |-> "idle", batch |-> {}, done |-> {}]

Init ==
  /\ owner   = <<>>
  /\ visible = {}
  /\ marked  = {}
  /\ sent    = {}
  /\ poller  = [r \in Replicas |-> Idle]
  /\ channel \in [Replicas -> {"none", "open"}]
  /\ faults  = 0
-----------------------------------------------------------------------------
(* A transaction of the order service that writes an outbox row starts,    *)
(* and commits.                                                            *)
BeginWrite(o) ==
  /\ Len(owner) < MaxRows
  /\ \A i \in Rows : owner[i] = o => i \in visible
  /\ owner' = Append(owner, o)
  /\ UNCHANGED <<visible, marked, sent, poller, channel, faults>>

CommitWrite(i) ==
  /\ i \notin visible
  /\ visible' = visible \cup {i}
  /\ UNCHANGED <<owner, marked, sent, poller, channel, faults>>

(* findUnpublished(batchSize): the oldest unpublished rows.                *)
Unpublished == visible \ marked
Oldest(n)   == {i \in Unpublished : Cardinality({j \in Unpublished : j <= i}) <= n}

(* The timer fires; the running flag is down.  An empty batch ends the     *)
(* poll at once.                                                           *)
Fetch(r) ==
  /\ channel[r] # "none"
  /\ poller[r] = Idle
  /\ Unpublished # {}
  /\ poller' = [poller EXCEPT ![r] =
                  [pc |-> "publish", batch |-> Oldest(BatchSize), done |-> {}]]
  /\ UNCHANGED <<owner, visible, marked, sent, channel, faults>>

(* A mutant of Upcoming: the rows of a batch are published in any order.   *)
UpcomingAny(r, i) ==
  /\ poller[r].pc = "publish"
  /\ i \in poller[r].batch \ poller[r].done

(* Row i is the next of the batch that poller r publishes.                 *)
Upcoming(r, i) ==
  /\ poller[r].pc = "publish"
  /\ i \in poller[r].batch \ poller[r].done
  /\ \A j \in poller[r].batch \ poller[r].done : i <= j

(* After the last row, or a failure, the confirmed rows are marked.        *)
Publish(r, i) ==
  /\ channel[r] = "open"
  /\ Upcoming(r, i)
  /\ sent' = sent \cup {i}
  /\ LET batch == poller[r].batch
         done  == poller[r].done \cup {i}
     IN poller' = [poller EXCEPT ![r] =
          [pc |-> IF done = batch THEN "mark" ELSE "publish", batch |-> batch, done |-> done]]
  /\ UNCHANGED <<owner, visible, marked, channel, faults>>

Fault == faults < MaxFaults /\ faults' = faults + 1

(* A mutant of PublishFails: it goes on with the next row.                 *)
PublishFailsGoesOn(r, i) ==
  /\ Fault
  /\ channel[r] = "open" /\ Upcoming(r, i)
  /\ sent' \in {sent, sent \cup {i}}
  /\ poller' = [poller EXCEPT ![r].batch = @ \ {i}]
  /\ UNCHANGED <<owner, visible, marked, channel>>

(* The broker nacks the row, whether or not some queue has it.  The loop   *)
(* ends, and the next poll tries again.                                    *)
PublishFails(r, i) ==
  /\ Fault
  /\ channel[r] = "open" /\ Upcoming(r, i)
  /\ sent' \in {sent, sent \cup {i}}
  /\ poller' = [poller EXCEPT ![r].pc = "mark"]
  /\ UNCHANGED <<owner, visible, marked, channel>>

(* On a closed channel every publish throws, in this poll and in all that  *)
(* follow.                                                                 *)
PublishRefused(r, i) ==
  /\ channel[r] = "closed" /\ Upcoming(r, i)
  /\ poller' = [poller EXCEPT ![r].pc = "mark"]
  /\ UNCHANGED <<owner, visible, marked, sent, channel, faults>>

(* A mutant of Mark: the whole batch is marked, not what was confirmed.    *)
MarkBatch(r) ==
  /\ poller[r].pc = "mark"
  /\ marked' = marked \cup poller[r].batch
  /\ poller' = [poller EXCEPT ![r] = Idle]
  /\ UNCHANGED <<owner, visible, sent, channel, faults>>

Mark(r) ==
  /\ poller[r].pc = "mark"
  /\ marked' = marked \cup poller[r].done
  /\ poller' = [poller EXCEPT ![r] = Idle]
  /\ UNCHANGED <<owner, visible, sent, channel, faults>>

(* A mutant of MarkFails: the running flag stays up after an error.        *)
PollHangs(r) ==
  /\ Fault
  /\ poller[r].pc = "mark"
  /\ poller' = [poller EXCEPT ![r].pc = "running"]
  /\ UNCHANGED <<owner, visible, marked, sent, channel>>

(* The update fails, which poll swallows: the confirmed rows stay unmarked *)
(* and will be published again.                                            *)
MarkFails(r) ==
  /\ Fault
  /\ poller[r].pc = "mark"
  /\ poller' = [poller EXCEPT ![r] = Idle]
  /\ UNCHANGED <<owner, visible, marked, sent, channel>>

(* The row that is on its way to the broker when the channel goes down may *)
(* have arrived, though its confirm does not.                              *)
MayArrive(r) ==
  \/ UNCHANGED sent
  \/ channel[r] = "open" /\ \E i \in Rows : Upcoming(r, i) /\ sent' = sent \cup {i}

(* The broker closes the connection gracefully: no error is raised and the *)
(* process lives on.  Its publish in flight may be rejected or never end.  *)
ChannelCloses(r) ==
  /\ Fault
  /\ channel[r] = "open"
  /\ channel' = [channel EXCEPT ![r] = "closed"]
  /\ MayArrive(r)
  /\ UNCHANGED <<owner, visible, marked, poller>>

(* The process dies, or is restarted because its channel is gone, and      *)
(* finds the broker or does not.                                           *)
Restarts(r) ==
  /\ Fault \/ (channel[r] # "open" /\ UNCHANGED faults)
  /\ MayArrive(r)
  /\ poller' = [poller EXCEPT ![r] = Idle]
  /\ \E c \in {"none", "open"} : channel' = [channel EXCEPT ![r] = c]
  /\ UNCHANGED <<owner, visible, marked>>
-----------------------------------------------------------------------------
Poll(r) ==
  \/ Fetch(r)
  \/ \E i \in Rows : Publish(r, i)
  \/ Mark(r)

Next ==
  \/ \E o \in Orders : BeginWrite(o)
  \/ \E i \in Rows : CommitWrite(i)
  \/ \E r \in Replicas : Poll(r)
  \/ \E r \in Replicas : \E i \in Rows : PublishFails(r, i) \/ PublishRefused(r, i)
  \/ \E r \in Replicas : MarkFails(r) \/ ChannelCloses(r) \/ Restarts(r)

Spec == Init /\ [][Next]_vars

(* The interval timer keeps firing, and a poll that has begun goes on as   *)
(* long as its channel is open.  Nobody owes a restart, and a publish that *)
(* was in flight when the channel closed need not even be rejected.        *)
FairSpec == Spec /\ \A r \in Replicas : WF_vars(Poll(r))
-----------------------------------------------------------------------------
Poller == [pc : {"idle", "publish", "mark"}, batch : SUBSET Nat, done : SUBSET Nat]

(* The variables have the types of the rows and of the poller's fields.    *)
TypeOK ==
  /\ owner   \in Seq(Orders)
  /\ visible \in SUBSET Rows
  /\ marked  \in SUBSET visible
  /\ sent    \in SUBSET visible
  /\ poller  \in [Replicas -> Poller]
  /\ channel \in [Replicas -> {"none", "open", "closed"}]
  /\ faults  \in Nat

(* A row is marked published only if the broker accepted it: no event is   *)
(* lost, whatever fails and however the pollers interleave (ADR-002).      *)
MarkedIsSent == marked \subseteq sent

(* No event of an order reaches the broker before an earlier event of the  *)
(* same order has reached it (OutboxPoller: "Publishing stops at the first *)
(* failure in a batch so ordering is preserved").                          *)
FirstSentInOrder ==
  \A j \in sent : \A i \in Rows : i < j /\ owner[i] = owner[j] => i \in sent

(* What the pollers have in hand: rows that are committed; with a row, the *)
(* earlier rows of its order, unless marked; and nothing counted as        *)
(* confirmed that the broker did not take.                                 *)
BatchesClosed ==
  \A r \in Replicas :
     /\ poller[r].batch \subseteq visible
     /\ poller[r].done \subseteq poller[r].batch \cap sent
     /\ \A j \in poller[r].batch : \A i \in Rows :
          i < j /\ owner[i] = owner[j] => i \in marked \cup poller[r].batch

(* A row's transaction starts after the earlier rows of its order are      *)
(* visible.                                                                *)
EarlierVisible == \A i, j \in Rows : i < j /\ owner[i] = owner[j] => i \in visible

(* The inductive invariant behind the order of publication (OutboxProofs). *)
IInv ==
  /\ TypeOK
  /\ MarkedIsSent
  /\ EarlierVisible
  /\ BatchesClosed
  /\ FirstSentInOrder

(* The rows of an order that are committed, and those that are no younger  *)
(* than one of its rows that the broker has.                               *)
WrittenOf(o) == {i \in visible : owner[i] = o}
RelayedOf(o) == {i \in Rows : owner[i] = o /\ \E j \in sent : owner[j] = o /\ i <= j}

Events == INSTANCE EventRelay WITH
  written <- [o \in Orders |-> Cardinality(WrittenOf(o))],
  relayed <- [o \in Orders |-> Cardinality(RelayedOf(o))]

(* Together the pollers are the relay the saga counts on: an order's events*)
(* become visible one by one, and the youngest one that the broker has     *)
(* moves on by one at a time (ADR-002, "ordering is preserved").           *)
ImplementsRelay == Events!Spec

(* Every committed event reaches the broker and is in the end marked, if   *)
(* faults do not go on for ever (ADR-002: "the failed event is retried on  *)
(* the next poll") and not every replica has lost its channel for good.    *)
(* The exception is real: with the last channel closed the events stay     *)
(* where they are until a restart, whatever server.ts says ("the outbox    *)
(* retries publishing").                                                   *)
EveryEventSent ==
  []<>(\E r \in Replicas : channel[r] = "open")
    => \A i \in 1..MaxRows : i \in visible ~> i \in marked
=============================================================================
