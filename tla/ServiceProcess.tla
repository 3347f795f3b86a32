---------------------------- MODULE ServiceProcess ----------------------------
(***************************************************************************)
(* The life of one service process, from its start to its end, as any of   *)
(* the five services lives it (server.ts and startMessaging.ts of each):   *)
(* it serves HTTP at once, connects to the broker out of band, consumes    *)
(* messages with manual acknowledgement (Consumer.ts), and on SIGTERM      *)
(* closes what it has opened step by step, before a timer ends it.         *)
(*                                                                         *)
(* Nothing connects the steps of the shutdown with the handlers that are   *)
(* still running: they go on after the broker has their messages back, and *)
(* an acknowledgement on a closed channel throws, in the handler of the    *)
(* first throw too, and ends the process (unhandledRejection).             *)
(*                                                                         *)
(* What a handler does is taken from the modules of its service: order,    *)
(* inventory and payment handlers and the audit log's insert do nothing    *)
(* the second time.  The notification service claims the event in Redis    *)
(* before it sends (ConsumeOnceGuard).  A replica of the same service may  *)
(* take any message that is waiting.                                       *)
(***************************************************************************)
EXTENDS Naturals, Sequences, FiniteSets

CONSTANTS
  Messages,     (* messages in the service's queue                           *)
  MaxFaults     (* bound: crashes, lost or refused connections, failed       *)
                (* statements and Redis calls, and lost claims together      *)

ASSUME ProcessAssumption == IsFiniteSet(Messages) /\ MaxFaults \in Nat
-----------------------------------------------------------------------------
(* What startMessaging opens, in the order in which stop closes it.        *)
OrderMessaging        == <<"poller", "channel", "confirm", "connection">>
InventoryMessaging    == <<"channel", "confirm", "connection">>
PaymentMessaging      == <<"channel", "confirm", "connection">>
AuditMessaging        == <<"channel", "connection">>
NotificationMessaging == <<"channel", "connection", "redis">>

(* What each server.ts opens at its start, and what its shutdown closes:   *)
(* before, in, and after the block that stops the messaging, if there is a *)
(* handle.  The flag "ready" is up while it is in the set of open things.  *)
OrderServer ==
  [opens |-> {"http", "database"}, before |-> <<>>,
   messaging |-> OrderMessaging, after |-> <<"http", "database">>]

InventoryServer ==
  [opens |-> {"http", "database", "job"}, before |-> <<"job">>,
   messaging |-> InventoryMessaging, after |-> <<"http", "database">>]

(* A mutant of PaymentServer: the database is closed first.                *)
PaymentServerHasty ==
  [opens |-> {"http", "database"}, before |-> <<"database">>,
   messaging |-> PaymentMessaging, after |-> <<"http">>]

PaymentServer ==
  [opens |-> {"http", "database"}, before |-> <<>>,
   messaging |-> PaymentMessaging, after |-> <<"http", "database">>]

AuditServer ==
  [opens |-> {"http", "database"}, before |-> <<>>,
   messaging |-> AuditMessaging, after |-> <<"http", "database">>]

NotificationServer ==
  [opens |-> {"http"}, before |-> <<>>,
   messaging |-> Append(NotificationMessaging, "ready"), after |-> <<"http">>]

Server ==
  [order |-> OrderServer, inventory |-> InventoryServer, payment |-> PaymentServer,
   audit |-> AuditServer, notification |-> NotificationServer]

Members(seq) == {seq[i] : i \in 1..Len(seq)}
-----------------------------------------------------------------------------
VARIABLES
  service,  (* which service this is; it never changes                       *)
  run,      (* up, stopping, exited (with code 0) or failed                  *)
  startup,  (* of the messaging: pending, connected or failed                *)
  open,     (* what is open                                                  *)
  todo,     (* while stopping: what is still to be closed                    *)
  serving,  (* whether an HTTP request is in hand                            *)
  broker,   (* where each message is, and whether it is marked redelivered   *)
  handler,  (* where the handler of each message is                          *)
  seen,     (* Redis: the events that are claimed                            *)
  effect,   (* how often the message took effect, 2 standing for more        *)
  history,  (* sets of messages: doubted, as a claim was refused or lost;    *)
            (* gap, as a handler ended between claim and dispatch; failed,   *)
            (* as a statement of its handler failed                          *)
  raced,    (* history: it connected while it was stopping                   *)
  faults

process  == <<service, startup, open, todo, serving, raced>>
messages == <<broker, seen, effect, history>>
vars     == <<run, process, handler, messages, faults>>

Queued  == [at |-> "queued", redelivered |-> FALSE]
Running == run \in {"up", "stopping"}

Starts ==
  /\ run' = "up"
  /\ startup' = "pending"
  /\ open' = Server[service].opens
  /\ todo' = <<>>
  /\ serving' = FALSE

Init ==
  /\ service \in DOMAIN Server
  /\ run = "up" /\ startup = "pending"
  /\ open = Server[service].opens
  /\ todo = <<>> /\ serving = FALSE
  /\ broker = [m \in Messages |-> Queued]
  /\ handler = [m \in Messages |-> "none"]
  /\ seen = {} /\ effect = [m \in Messages |-> 0]
  /\ history = [doubted |-> {}, gap |-> {}, failed |-> {}]
  /\ raced = FALSE
  /\ faults = 0
-----------------------------------------------------------------------------
Fault == faults < MaxFaults /\ faults' = faults + 1

(* The broker takes back what a channel that closes has not acknowledged.  *)
GivesBack ==
  broker' = [m \in Messages |->
    IF broker[m].at = "unacked" THEN [at |-> "queued", redelivered |-> TRUE] ELSE broker[m]]

(* The process is gone, and with it the handlers that were running.        *)
Ends(how) ==
  /\ run' = how
  /\ GivesBack
  /\ history' = [history EXCEPT !.gap = @ \cup {m \in Messages : handler[m] = "claimed"}]
  /\ handler' = [m \in Messages |-> "none"]
  /\ UNCHANGED <<process, seen, effect>>

(* Ack or nack; on a channel that is not open either of them throws.       *)
Settles(m, place, redelivered) ==
  IF "channel" \in open
  THEN /\ broker' = [broker EXCEPT ![m] = [at |-> place, redelivered |-> redelivered]]
       /\ handler' = [handler EXCEPT ![m] = "none"]
       /\ UNCHANGED <<run, process, seen, effect>>
  ELSE Ends("failed")
-----------------------------------------------------------------------------
(* startMessaging succeeds.  A process that is stopping does not notice.   *)
Connect ==
  /\ Running /\ startup = "pending"
  /\ startup' = "connected"
  /\ open' = open \cup Members(Server[service].messaging)
  /\ raced' = (raced \/ run = "stopping")
  /\ UNCHANGED <<run, service, todo, serving, handler, messages, faults>>

(* Or it is rejected, which is logged; nothing tries again.                *)
ConnectFails ==
  /\ Fault
  /\ Running /\ startup = "pending"
  /\ startup' = "failed"
  /\ UNCHANGED <<run, service, open, todo, serving, raced, handler, messages>>

(* The broker's connection breaks.  Nobody listens for its errors: one     *)
(* ends the process, a close by the broker leaves it without a consumer.   *)
ConnectionLost ==
  /\ Fault
  /\ Running /\ "channel" \in open
  /\ \/ Ends("failed")
     \/ /\ open' = open \ {"channel", "confirm", "connection"}
        /\ GivesBack
        /\ UNCHANGED <<run, service, startup, todo, serving, raced, handler,
                       seen, effect, history>>

Deliver(m) ==
  /\ Running /\ "channel" \in open
  /\ broker[m].at = "queued" /\ handler[m] = "none"
  /\ broker' = [broker EXCEPT ![m].at = "unacked"]
  /\ handler' = [handler EXCEPT ![m] = "begun"]
  /\ UNCHANGED <<run, process, seen, effect, history, faults>>

(* A mutant of Claim: the event is marked when it was sent, not before.    *)
ClaimLater(m) ==
  /\ Running /\ service = "notification" /\ handler[m] = "begun"
  /\ handler' = [handler EXCEPT ![m] = IF m \in seen THEN "done" ELSE "claimed"]
  /\ seen' = {n \in Messages : handler[n] = "done"}
  /\ UNCHANGED <<run, process, broker, effect, history, faults>>

(* SET NX: the first claim goes on to dispatch, any other returns.         *)
Claim(m) ==
  /\ Running /\ service = "notification" /\ handler[m] = "begun"
  /\ handler' = [handler EXCEPT ![m] = IF m \in seen THEN "done" ELSE "claimed"]
  /\ seen' = seen \cup {m}
  /\ UNCHANGED <<run, process, broker, effect, history, faults>>

(* Redis fails, before or after it took the claim: the guard fails open.   *)
ClaimFails(m) ==
  /\ Fault
  /\ Running /\ service = "notification" /\ handler[m] = "begun"
  /\ handler' = [handler EXCEPT ![m] = "claimed"]
  /\ seen' \in {seen, seen \cup {m}}
  /\ history' = [history EXCEPT !.doubted = @ \cup {m}]
  /\ UNCHANGED <<run, process, broker, effect>>

(* The claim's time to live is over, or Redis has lost it.                 *)
ClaimExpires(m) ==
  /\ Fault
  /\ m \in seen
  /\ seen' = seen \ {m}
  /\ history' = [history EXCEPT !.doubted = @ \cup {m}]
  /\ UNCHANGED <<run, process, handler, broker, effect>>

(* What the handler does to its own service's data: dispatch sends once    *)
(* more; the others and the insert that ignores conflicts change nothing   *)
(* the second time.  That the inventory and payment services then publish  *)
(* inventory.failed or payment.failed is the subject of Saga.              *)
Applied(m) ==
  [effect EXCEPT ![m] = IF service = "notification" /\ @ < 2 THEN @ + 1
                        ELSE IF @ = 0 THEN 1 ELSE @]

Apply(m) ==
  /\ Running
  /\ handler[m] = IF service = "notification" THEN "claimed" ELSE "begun"
  /\ service # "notification" => "database" \in open
  /\ effect' = Applied(m)
  /\ handler' = [handler EXCEPT ![m] = "done"]
  /\ UNCHANGED <<run, process, broker, seen, history, faults>>

(* A mutant of Ack: the message is acknowledged on delivery.               *)
AckEarly(m) ==
  /\ Running /\ handler[m] \in {"begun", "done"}
  /\ "channel" \in open /\ broker[m].at = "unacked"
  /\ broker' = [broker EXCEPT ![m].at = "acked"]
  /\ UNCHANGED <<run, process, handler, seen, effect, history, faults>>

(* The handler has returned.                                               *)
Ack(m) ==
  /\ Running /\ handler[m] = "done"
  /\ Settles(m, "acked", broker[m].redelivered)
  /\ "channel" \in open => UNCHANGED history
  /\ UNCHANGED faults

(* A mutant of Nack: the failure is logged and that is all.                *)
NackForgotten(m) ==
  IF "channel" \in open
  THEN /\ handler' = [handler EXCEPT ![m] = "none"]
       /\ UNCHANGED <<run, process, broker, seen, effect>>
  ELSE Ends("failed")

(* The catch block: back to the queue once, the second time a dead letter. *)
Nack(m) ==
  IF broker[m].redelivered THEN Settles(m, "dead", TRUE) ELSE Settles(m, "queued", TRUE)

(* A statement of the handler fails.                                       *)
HandlerFails(m) ==
  /\ Fault
  /\ Running /\ service # "notification" /\ handler[m] = "begun"
  /\ "channel" \in open
  /\ Nack(m)
  /\ history' = [history EXCEPT !.failed = @ \cup {m}]

(* The handler finds the database closed; or any failure, once the channel *)
(* is closed: then the nack throws too.                                    *)
HandlerFailsLate(m) ==
  /\ Running /\ service # "notification" /\ handler[m] = "begun"
  /\ {"channel", "database"} \cap open # {"channel", "database"}
  /\ "channel" \in open => UNCHANGED history
  /\ Nack(m)
  /\ UNCHANGED faults

(* Another replica takes the message from the queue, and handles it.       *)
HandledElsewhere(m) ==
  /\ broker[m].at = "queued"
  /\ broker' = [broker EXCEPT ![m].at = "acked"]
  /\ effect' = IF service = "notification" /\ m \in seen THEN effect ELSE Applied(m)
  /\ seen' = IF service = "notification" THEN seen \cup {m} ELSE seen
  /\ UNCHANGED <<run, process, handler, history, faults>>
-----------------------------------------------------------------------------
RequestArrives ==
  /\ Running /\ "http" \in open /\ ~ serving
  /\ serving' = TRUE
  /\ UNCHANGED <<run, service, startup, open, todo, raced, handler, messages, faults>>

RequestEnds ==
  /\ Running /\ serving
  /\ serving' = FALSE
  /\ UNCHANGED <<run, service, startup, open, todo, raced, handler, messages, faults>>

(* SIGTERM: shutdown.  Without a handle there is nothing to stop.          *)
Sigterm ==
  /\ run = "up"
  /\ run' = "stopping"
  /\ LET server == Server[service] IN
     todo' = server.before
               \o (IF startup = "connected" THEN server.messaging ELSE <<>>)
               \o server.after
  /\ UNCHANGED <<service, startup, open, serving, raced, handler, messages, faults>>

OfMessaging(thing) == thing \in Members(Server[service].messaging)

(* server.close has called back: it takes no more requests and the ones in *)
(* hand are answered.                                                      *)
HttpClosed == "http" \notin open /\ ~ serving

Closes(thing) ==
  /\ open' = open \ {thing}
  /\ todo' = Tail(todo)
  /\ IF thing = "channel" THEN GivesBack ELSE UNCHANGED broker
  /\ UNCHANGED <<run, service, startup, serving, raced, handler, seen, effect,
                 history, faults>>

(* The shutdown goes on; after server.close it waits for the callback.     *)
CloseNext ==
  /\ run = "stopping" /\ todo # <<>> /\ Head(todo) \in open
  /\ "http" \notin open => HttpClosed
  /\ Closes(Head(todo))

(* Closing what the lost connection took with it throws, closing Redis may *)
(* fail: the rest of the messaging stays as it is.                         *)
CloseFails ==
  /\ run = "stopping" /\ todo # <<>>
  /\ \/ Head(todo) \notin open /\ UNCHANGED faults
     \/ Head(todo) = "redis" /\ Fault
  /\ todo' = Server[service].after
  /\ UNCHANGED <<run, service, startup, open, serving, raced, handler, messages>>

(* process.exit(0)                                                         *)
Exit ==
  /\ run = "stopping" /\ todo = <<>> /\ HttpClosed
  /\ Ends("exited")
  /\ UNCHANGED faults

(* The timer is armed when the messaging has been stopped, and never       *)
(* cleared.                                                                *)
Armed == Members(todo) \subseteq {"http", "database"}

(* A mutant of Forced: the process is not ended while a request is in hand.*)
ForcedPolitely ==
  run = "stopping" /\ Armed /\ ~ serving /\ Ends("failed") /\ UNCHANGED faults

Forced == run = "stopping" /\ Armed /\ Ends("failed") /\ UNCHANGED faults

Crash == Fault /\ Running /\ Ends("failed")

(* The deployment starts a new process.                                    *)
Restart ==
  /\ ~ Running
  /\ Starts
  /\ UNCHANGED <<service, raced, handler, messages, faults>>
-----------------------------------------------------------------------------
(* What the process does with a message when nothing fails.                *)
Handle(m) == Claim(m) \/ Apply(m) \/ Ack(m) \/ HandlerFailsLate(m)

Shutdown == CloseNext \/ CloseFails \/ Exit \/ Forced

Next ==
  \/ Connect \/ ConnectFails \/ ConnectionLost
  \/ \E m \in Messages :
       \/ Deliver(m) \/ Handle(m)
       \/ ClaimFails(m) \/ ClaimExpires(m) \/ HandlerFails(m) \/ HandledElsewhere(m)
  \/ RequestArrives \/ RequestEnds
  \/ Sigterm \/ Shutdown
  \/ Crash \/ Restart

Spec == Init /\ [][Next]_vars

(* The broker answers a connect, delivers what waits and answers a close;  *)
(* a handler's statements end; the timer fires; the deployment restarts    *)
(* what has ended.  Nothing makes a client's request end.                  *)
FairSpec ==
  /\ Spec
  /\ \A m \in Messages : WF_vars(Deliver(m)) /\ WF_vars(Handle(m))
  /\ WF_vars(Connect) /\ WF_vars(Shutdown) /\ WF_vars(Restart)
-----------------------------------------------------------------------------
Things == UNION {s.opens \cup Members(s.messaging) : s \in {Server[n] : n \in DOMAIN Server}}

TypeOK ==
  /\ service \in DOMAIN Server
  /\ run \in {"up", "stopping", "exited", "failed"}
  /\ startup \in {"pending", "connected", "failed"}
  /\ open \subseteq Things /\ Members(todo) \subseteq Things
  /\ {serving, raced} \subseteq BOOLEAN
  /\ broker \in [Messages -> [at : {"queued", "unacked", "acked", "dead"},
                              redelivered : BOOLEAN]]
  /\ handler \in [Messages -> {"none", "begun", "claimed", "done"}]
  /\ \A m \in Messages : handler[m] # "none" => Running
  /\ seen \subseteq Messages
  /\ effect \in [Messages -> 0..2]
  /\ history \in [{"doubted", "gap", "failed"} -> SUBSET Messages]
  /\ faults \in 0..MaxFaults

(* A message that is acknowledged has taken effect, through failures,      *)
(* crashes and shutdowns with its handler running ("a crash mid-processing *)
(* leaves the message unacked, so it is redelivered rather than lost").    *)
(* The exception is a notification whose handler ended between its claim   *)
(* and its dispatch: the redelivery is taken for a duplicate.              *)
AckedIsHandled ==
  \A m \in Messages : broker[m].at = "acked" =>
    effect[m] > 0 \/ m \in history.gap \/ handler[m] = "claimed"

(* A notification is sent once, and an event has one row in the audit log, *)
(* however often the message is delivered, here or to another replica,     *)
(* unless Redis failed or forgot the claim.                                *)
OnlyOnce == \A m \in Messages : effect[m] <= 1 \/ m \in history.doubted

(* A message becomes a dead letter because handling it failed, never only  *)
(* because the process that handled it was ending: the messaging is closed *)
(* before the database.  The exception is a process that connects while it *)
(* is stopping, whose shutdown does not know of the consumer.              *)
DeadForCause ==
  \A m \in Messages : broker[m].at = "dead" => m \in history.failed \/ raced

(* Why an acknowledged message is handled: a claim is on its way to its    *)
(* dispatch, dispatched, or one that its handler's end has left behind.    *)
ClaimsKept ==
  \A m \in Messages :
    /\ m \in seen => effect[m] > 0 \/ m \in history.gap \/ handler[m] = "claimed"
    /\ handler[m] = "done" => effect[m] > 0 \/ m \in history.gap

(* Why it takes effect once: what was or will be sent is claimed, and what *)
(* will be sent has not been sent.                                         *)
ClaimedFirst ==
  \A m \in Messages :
    IF service = "notification"
    THEN \/ m \in history.doubted
         \/ /\ effect[m] > 0 \/ handler[m] = "claimed" => m \in seen
            /\ handler[m] = "claimed" => effect[m] = 0
            /\ effect[m] <= 1
    ELSE effect[m] <= 1

(* Why only failures make dead letters: an open channel is the next thing  *)
(* to be closed, but for the poller or the job.                            *)
ChannelIsNext ==
  \/ /\ todo # <<>> /\ Head(todo) = "channel"
  \/ /\ Len(todo) > 1 /\ Head(todo) \in {"job", "poller"} \cap open
     /\ todo[2] = "channel"

ClosedInOrder ==
  /\ todo \in Seq(Things)
  /\ run = "up" => Server[service].opens \subseteq open
  /\ Running /\ "channel" \in open =>
       /\ startup = "connected"
       /\ run = "up" /\ service = "order" => "poller" \in open
       /\ raced \/ service = "notification" \/
            /\ "database" \in open
            /\ run = "stopping" => ChannelIsNext

(* A process that is told to stop ends, although handlers and requests may *)
(* be in its hands and closing the messaging may fail.                     *)
Stops == run = "stopping" ~> run # "stopping"

(* While a process keeps its channel, every message is settled in the end: *)
(* handled, retried and handled, or a dead letter.                         *)
SettledIfConnected ==
  <>[](run = "up" /\ "channel" \in open) =>
    \A m \in Messages : <>(broker[m].at \in {"acked", "dead"})
=============================================================================
