------------------------ MODULE ServiceProcessProofs ------------------------
(***************************************************************************)
(* What holds of a service process for any set of messages and any number  *)
(* of faults, for each of the five services.                               *)
(***************************************************************************)
EXTENDS ServiceProcess, SequenceTheorems, TLAPS

(* The modules of the servers.                                             *)
LEMMA Services ==
  DOMAIN Server = {"order", "inventory", "payment", "audit", "notification"}
  BY DEF Server

LEMMA ServerIs ==
  /\ Server["order"] = OrderServer
  /\ Server["inventory"] = InventoryServer
  /\ Server["payment"] = PaymentServer
  /\ Server["audit"] = AuditServer
  /\ Server["notification"] = NotificationServer
  BY DEF Server

(* What remains of a plan.                                                 *)
LEMMA MembersOfTail ==
  ASSUME NEW S, NEW seq \in Seq(S), seq # <<>>
  PROVE  /\ Tail(seq) \in Seq(S)
         /\ Head(seq) \in Members(seq)
         /\ Members(Tail(seq)) \subseteq Members(seq)
<1>1. Tail(seq) \in Seq(S) /\ Len(seq) \in Nat /\ Len(seq) > 0 /\ Len(Tail(seq)) = Len(seq) - 1
  OBVIOUS
<1>2. \A i \in 1..Len(Tail(seq)) : Tail(seq)[i] = seq[i + 1] /\ i + 1 \in 1..Len(seq)
  BY <1>1
<1>3. Head(seq) = seq[1] /\ 1 \in 1..Len(seq)
  BY <1>1
<1> QED
  BY <1>1, <1>2, <1>3 DEF Members

(* The plans of each service.                                              *)
LEMMA Plans ==
  ASSUME NEW s \in DOMAIN Server
  PROVE  LET server == Server[s] IN
         /\ server.opens \subseteq Things
         /\ Members(server.messaging) \subseteq Things
         /\ server.before \in Seq(Things)
         /\ server.messaging \in Seq(Things)
         /\ server.after \in Seq(Things)
         /\ server.opens \cap {"channel", "confirm", "connection"} = {}
<1>1. Server[s].opens \subseteq Things /\ Members(Server[s].messaging) \subseteq Things
  BY DEF Things
<1>2. CASE s = "order"
  <2>1. /\ Server[s].opens = {"http", "database"} /\ Server[s].before = <<>>
        /\ Server[s].messaging = <<"poller", "channel", "confirm", "connection">>
        /\ Server[s].after = <<"http", "database">>
    BY <1>2, ServerIs DEF OrderServer, OrderMessaging
  <2>2. {"poller", "channel", "confirm", "connection"} \subseteq Members(Server[s].messaging)
    <3>1. /\ Server[s].messaging[1] = "poller" /\ Server[s].messaging[2] = "channel"
          /\ Server[s].messaging[3] = "confirm" /\ Server[s].messaging[4] = "connection"
          /\ Len(Server[s].messaging) = 4
      BY <2>1
    <3>2. {1, 2, 3, 4} \subseteq 1..Len(Server[s].messaging)
      BY <3>1
    <3> QED
      BY <3>1, <3>2 DEF Members
  <2> QED
    BY <1>1, <2>1, <2>2
<1>3. CASE s = "inventory"
  <2>1. /\ Server[s].opens = {"http", "database", "job"} /\ Server[s].before = <<"job">>
        /\ Server[s].messaging = <<"channel", "confirm", "connection">>
        /\ Server[s].after = <<"http", "database">>
    BY <1>3, ServerIs DEF InventoryServer, InventoryMessaging
  <2>2. {"channel", "confirm", "connection"} \subseteq Members(Server[s].messaging)
    <3>1. /\ Server[s].messaging[1] = "channel" /\ Server[s].messaging[2] = "confirm"
          /\ Server[s].messaging[3] = "connection" /\ Len(Server[s].messaging) = 3
      BY <2>1
    <3>2. {1, 2, 3} \subseteq 1..Len(Server[s].messaging)
      BY <3>1
    <3> QED
      BY <3>1, <3>2 DEF Members
  <2> QED
    BY <1>1, <2>1, <2>2
<1>4. CASE s = "payment"
  <2>1. /\ Server[s].opens = {"http", "database"} /\ Server[s].before = <<>>
        /\ Server[s].messaging = <<"channel", "confirm", "connection">>
        /\ Server[s].after = <<"http", "database">>
    BY <1>4, ServerIs DEF PaymentServer, PaymentMessaging
  <2>2. {"channel", "confirm", "connection"} \subseteq Members(Server[s].messaging)
    <3>1. /\ Server[s].messaging[1] = "channel" /\ Server[s].messaging[2] = "confirm"
          /\ Server[s].messaging[3] = "connection" /\ Len(Server[s].messaging) = 3
      BY <2>1
    <3>2. {1, 2, 3} \subseteq 1..Len(Server[s].messaging)
      BY <3>1
    <3> QED
      BY <3>1, <3>2 DEF Members
  <2> QED
    BY <1>1, <2>1, <2>2
<1>5. CASE s = "audit"
  <2>1. /\ Server[s].opens = {"http", "database"} /\ Server[s].before = <<>>
        /\ Server[s].messaging = <<"channel", "connection">>
        /\ Server[s].after = <<"http", "database">>
    BY <1>5, ServerIs DEF AuditServer, AuditMessaging
  <2>2. {"channel", "connection"} \subseteq Members(Server[s].messaging)
    <3>1. /\ Server[s].messaging[1] = "channel" /\ Server[s].messaging[2] = "connection"
          /\ Len(Server[s].messaging) = 2
      BY <2>1
    <3>2. {1, 2} \subseteq 1..Len(Server[s].messaging)
      BY <3>1
    <3> QED
      BY <3>1, <3>2 DEF Members
  <2> QED
    BY <1>1, <2>1, <2>2
<1>6. CASE s = "notification"
  <2> DEFINE messaging == Append(NotificationMessaging, "ready")
  <2>1. /\ Server[s].opens = {"http"} /\ Server[s].before = <<>>
        /\ Server[s].messaging = messaging
        /\ Server[s].after = <<"http">>
    BY <1>6, ServerIs DEF NotificationServer
  <2>2. /\ messaging[1] = "channel" /\ messaging[2] = "connection"
        /\ messaging[3] = "redis" /\ messaging[4] = "ready"
        /\ Len(messaging) = 4
    BY DEF NotificationMessaging
  <2>3. {1, 2, 3, 4} \subseteq 1..Len(messaging)
    BY <2>2
  <2>4. {"channel", "connection", "redis", "ready"} \subseteq Members(messaging)
    BY <2>2, <2>3 DEF Members
  <2>5. {"channel", "connection", "redis", "ready"} \subseteq Things
    BY <1>1, <2>1, <2>4
  <2>6. NotificationMessaging \in Seq(Things)
    BY <2>5 DEF NotificationMessaging
  <2>7. messaging \in Seq(Things)
    BY <2>5, <2>6
  <2> QED
    BY <1>1, <2>1, <2>7
<1> QED
  BY <1>2, <1>3, <1>4, <1>5, <1>6, Services
-----------------------------------------------------------------------------
(* The process.                                                            *)

ProcessTypes ==
  /\ service \in DOMAIN Server
  /\ run \in {"up", "stopping", "exited", "failed"}
  /\ startup \in {"pending", "connected", "failed"}
  /\ open \subseteq Things /\ Members(todo) \subseteq Things
  /\ {serving, raced} \subseteq BOOLEAN

(* How the process moves, whatever becomes of its messages.                *)
Halts == run' \in {"exited", "failed"} /\ UNCHANGED process

Cut == /\ open' = open \ {"channel", "confirm", "connection"}
       /\ UNCHANGED <<run, service, startup, todo, serving, raced>>

Connects == /\ Running /\ startup = "pending" /\ startup' = "connected"
            /\ open' = open \cup Members(Server[service].messaging)
            /\ raced' = (raced \/ run = "stopping")
            /\ UNCHANGED <<run, service, todo, serving>>

Rejected == /\ startup = "pending" /\ startup' = "failed"
            /\ UNCHANGED <<run, service, open, todo, serving, raced>>

Requested == serving' \in BOOLEAN /\ UNCHANGED <<run, service, startup, open, todo, raced>>

Told == /\ run = "up" /\ run' = "stopping"
        /\ todo' = Server[service].before
                     \o (IF startup = "connected" THEN Server[service].messaging ELSE <<>>)
                     \o Server[service].after
        /\ UNCHANGED <<service, startup, open, serving, raced>>

Shuts == /\ run = "stopping" /\ todo # <<>>
         /\ open' = open \ {Head(todo)} /\ todo' = Tail(todo)
         /\ UNCHANGED <<run, service, startup, serving, raced>>

GivesUp == /\ run = "stopping" /\ todo # <<>>
           /\ Head(todo) \notin open \/ Head(todo) = "redis"
           /\ todo' = Server[service].after
           /\ UNCHANGED <<run, service, startup, open, serving, raced>>

Rises == ~ Running /\ Starts /\ UNCHANGED <<service, raced>>

StepsOfProcess ==
  \/ UNCHANGED <<run, process>> \/ Halts \/ Cut \/ Connects \/ Rejected \/ Requested
  \/ Told \/ Shuts \/ GivesUp \/ Rises

LEMMA NextMoves ==
  ASSUME [Next]_vars
  PROVE  StepsOfProcess
<1> USE DEF StepsOfProcess
<1>1. \A m, place, redelivered :
        Settles(m, place, redelivered) => UNCHANGED <<run, process>> \/ Halts
  BY DEF Settles, Ends, Halts
<1>2. ASSUME NEW m \in Messages,
             \/ Deliver(m) \/ Claim(m) \/ Apply(m) \/ ClaimFails(m) \/ ClaimExpires(m)
             \/ HandledElsewhere(m)
      PROVE  UNCHANGED <<run, process>>
  BY <1>2 DEF Deliver, Claim, Apply, ClaimFails, ClaimExpires, HandledElsewhere
<1>3. ASSUME NEW m \in Messages, Ack(m) \/ HandlerFailsLate(m) \/ HandlerFails(m)
      PROVE  UNCHANGED <<run, process>> \/ Halts
  BY <1>1, <1>3 DEF Ack, HandlerFailsLate, HandlerFails, Nack
<1>4. Connect \/ ConnectFails => Connects \/ Rejected
  BY DEF Connect, Connects, ConnectFails, Rejected
<1>5. ConnectionLost => Halts \/ Cut
  BY DEF ConnectionLost, Ends, Halts, Cut
<1>6. RequestArrives \/ RequestEnds => Requested
  BY DEF RequestArrives, RequestEnds, Requested
<1>7. Sigterm => Told
  BY DEF Sigterm, Told
<1>8. Shutdown => Shuts \/ GivesUp \/ Halts
  BY DEF Shutdown, CloseNext, Closes, CloseFails, Exit, Forced, Ends, Shuts, GivesUp, Halts
<1>9. Crash => Halts
  BY DEF Crash, Ends, Halts
<1>10. Restart => Rises
  BY DEF Restart, Rises
<1>11. UNCHANGED vars => UNCHANGED <<run, process>>
  BY DEF vars
<1> QED
  BY <1>2, <1>3, <1>4, <1>5, <1>6, <1>7, <1>8, <1>9, <1>10, <1>11 DEF Next, Handle

LEMMA NextProcessTypes ==
  ASSUME ProcessTypes, todo \in Seq(Things), StepsOfProcess
  PROVE  ProcessTypes' /\ todo' \in Seq(Things)
<1> USE DEF ProcessTypes
<1>0. UNCHANGED service
  BY DEF StepsOfProcess, process, Halts, Cut, Connects, Rejected, Requested, Told, Shuts,
         GivesUp, Rises
<1>p. /\ Server[service].opens \subseteq Things
      /\ Members(Server[service].messaging) \subseteq Things
      /\ Server[service].before \in Seq(Things)
      /\ Server[service].messaging \in Seq(Things)
      /\ Server[service].after \in Seq(Things)
  BY Plans
<1>s. ASSUME NEW s \in Seq(Things) PROVE Members(s) \subseteq Things
  BY DEF Members
<1>1. CASE UNCHANGED <<run, process>> \/ Halts
  BY <1>1 DEF process, Halts
<1>2. CASE Cut \/ Connects \/ Rejected \/ Requested
  BY <1>2, <1>p DEF Cut, Connects, Rejected, Requested
<1>3. CASE Told
  <2>1. todo' \in Seq(Things)
    BY <1>3, <1>p DEF Told
  <2> QED
    BY <1>3, <1>s, <2>1 DEF Told
<1>4. CASE Shuts
  BY <1>4, MembersOfTail DEF Shuts
<1>5. CASE GivesUp
  BY <1>5, <1>p, <1>s DEF GivesUp
<1>6. CASE Rises
  <2>1. todo' = <<>> /\ open' = Server[service].opens /\ run' = "up" /\ startup' = "pending"
        /\ serving' = FALSE
    BY <1>6 DEF Rises, Starts
  <2>2. todo' \in Seq(Things)
    BY <2>1
  <2> QED
    BY <1>0, <1>6, <1>p, <1>s, <2>1, <2>2 DEF Rises
<1> QED
  BY <1>1, <1>2, <1>3, <1>4, <1>5, <1>6 DEF StepsOfProcess
-----------------------------------------------------------------------------
(* The order of the shutdown.                                              *)

(* What is left of a sequence of two things begins with the second.        *)
LEMMA SecondIsNext ==
  ASSUME NEW S, NEW s \in Seq(S), Len(s) > 1
  PROVE  Tail(s) # <<>> /\ Head(Tail(s)) = s[2]
<1>1. s # <<>> /\ Len(s) \in Nat
  BY LenProperties
<1>2. /\ Tail(s) \in Seq(S) /\ Len(Tail(s)) = Len(s) - 1
      /\ \A i \in 1..Len(Tail(s)) : Tail(s)[i] = s[i + 1]
  BY <1>1, HeadTailProperties
<1>3. 1 \in 1..Len(Tail(s)) /\ 1 + 1 = 2
  BY <1>1, <1>2
<1>4. Tail(s)[1] = s[2]
  BY <1>2, <1>3
<1>5. Tail(s) # <<>>
  <2>1. Len(Tail(s)) # 0
    BY <1>1, <1>2
  <2> QED
    BY <1>2, <2>1, EmptySeq, Zenon
<1>6. Head(Tail(s)) = Tail(s)[1]
  OBVIOUS
<1> QED
  BY <1>4, <1>5, <1>6

(* A shutdown with a handle comes to the channel first, or after the job   *)
(* or the poller, which is open while the process is up.                   *)
LEMMA ChannelComesFirst ==
  ASSUME NEW s \in DOMAIN Server, s # "notification"
  PROVE  LET server == Server[s]
             plan   == server.before \o server.messaging \o server.after IN
         /\ "database" \in server.opens
         /\ \/ plan # <<>> /\ Head(plan) = "channel"
            \/ /\ Len(plan) > 1 /\ plan[2] = "channel"
               /\ \/ Head(plan) = "poller" /\ s = "order"
                  \/ Head(plan) = "job" /\ "job" \in server.opens
<1> DEFINE messaging == Server[s].messaging
           after     == Server[s].after
           plan      == Server[s].before \o messaging \o after
<1>1. messaging \in Seq(Things) /\ after \in Seq(Things)
  BY Plans
<1>2. ASSUME NEW first, Server[s].before = <<first>>
      PROVE  /\ Len(plan) = 1 + Len(messaging) + Len(after)
             /\ Head(plan) = first
             /\ Len(messaging) > 0 => plan[2] = messaging[1]
  <2>1. plan = <<first>> \o messaging \o after
    BY <1>2
  <2> HIDE DEF plan, messaging, after
  <2>2. plan \in Seq(Things \cup {first}) /\ Len(plan) = 1 + Len(messaging) + Len(after)
    BY <1>1, <2>1
  <2>3. plan[1] = first
    BY <1>1, <2>1
  <2>4. Len(messaging) > 0 => plan[2] = messaging[1]
    BY <1>1, <2>1
  <2> QED
    BY <1>1, <2>2, <2>3, <2>4
<1>3. ASSUME Server[s].before = <<>>, messaging # <<>>
      PROVE  /\ Len(plan) = Len(messaging) + Len(after)
             /\ Head(plan) = messaging[1] /\ plan # <<>>
             /\ Len(messaging) > 1 => plan[2] = messaging[2]
  <2>1. plan = <<>> \o messaging \o after
    BY <1>3
  <2> HIDE DEF plan, messaging, after
  <2>2. plan \in Seq(Things) /\ Len(plan) = Len(messaging) + Len(after) /\ Len(messaging) > 0
    BY <1>1, <1>3, <2>1
  <2>3. plan[1] = messaging[1]
    BY <1>1, <1>3, <2>1
  <2>4. Len(messaging) > 1 => plan[2] = messaging[2]
    BY <1>1, <2>1
  <2> QED
    BY <1>1, <2>2, <2>3, <2>4
<1>4. CASE s = "order"
  <2>1. /\ Server[s].before = <<>> /\ "database" \in Server[s].opens
        /\ messaging = <<"poller", "channel", "confirm", "connection">>
    BY <1>4, ServerIs DEF OrderServer, OrderMessaging
  <2>2. messaging # <<>> /\ Len(messaging) = 4 /\ messaging[1] = "poller" /\ messaging[2] = "channel"
    BY <2>1
  <2>3. Len(after) \in Nat
    BY <1>1
  <2> HIDE DEF plan, messaging, after
  <2>4. Len(plan) > 1 /\ Head(plan) = "poller" /\ plan[2] = "channel"
    BY <1>3, <2>1, <2>2, <2>3
  <2> QED
    BY <1>4, <2>1, <2>4 DEF plan, messaging, after
<1>5. CASE s = "inventory"
  <2>1. /\ Server[s].before = <<"job">> /\ {"database", "job"} \subseteq Server[s].opens
        /\ messaging = <<"channel", "confirm", "connection">>
    BY <1>5, ServerIs DEF InventoryServer, InventoryMessaging
  <2>2. Len(messaging) = 3 /\ messaging[1] = "channel"
    BY <2>1
  <2>3. Len(after) \in Nat
    BY <1>1
  <2> HIDE DEF plan, messaging, after
  <2>4. Len(plan) > 1 /\ Head(plan) = "job" /\ plan[2] = "channel"
    BY <1>2, <2>1, <2>2, <2>3
  <2> QED
    BY <2>1, <2>4 DEF plan, messaging, after
<1>6. CASE s = "payment" \/ s = "audit"
  <2>1. /\ Server[s].before = <<>> /\ "database" \in Server[s].opens
        /\ \/ messaging = <<"channel", "confirm", "connection">>
           \/ messaging = <<"channel", "connection">>
    BY <1>6, ServerIs DEF PaymentServer, PaymentMessaging, AuditServer, AuditMessaging
  <2>2. messaging # <<>> /\ messaging[1] = "channel"
    <3>1. CASE messaging = <<"channel", "confirm", "connection">>
      BY <3>1
    <3>2. CASE messaging = <<"channel", "connection">>
      BY <3>2
    <3> QED
      BY <2>1, <3>1, <3>2
  <2> HIDE DEF plan, messaging, after
  <2>3. plan # <<>> /\ Head(plan) = "channel"
    BY <1>3, <2>1, <2>2
  <2> QED
    BY <2>1, <2>3 DEF plan, messaging, after
<1> QED
  BY <1>4, <1>5, <1>6, Services

LEMMA NextOrder ==
  ASSUME ProcessTypes, ClosedInOrder, StepsOfProcess
  PROVE  ClosedInOrder'
<1>0. todo \in Seq(Things) /\ UNCHANGED service /\ service \in DOMAIN Server
  BY DEF ClosedInOrder, ProcessTypes, StepsOfProcess, process, Halts, Cut, Connects, Rejected,
         Requested, Told, Shuts, GivesUp, Rises
<1>t. todo' \in Seq(Things)
  BY <1>0, NextProcessTypes
<1>1. CASE UNCHANGED <<run, process>>
  BY <1>0, <1>1 DEF ClosedInOrder, ChannelIsNext, Running, process
<1>2. CASE Halts
  BY <1>0, <1>2 DEF ClosedInOrder, Running, Halts, process
<1>3. CASE Cut
  <2>1. "channel" \notin open'
    BY <1>3 DEF Cut
  <2>2. run' = "up" => Server[service]'.opens \subseteq open'
    <3>1. Server[service].opens \cap {"channel", "confirm", "connection"} = {}
      BY <1>0, Plans
    <3> QED
      BY <1>0, <1>3, <3>1 DEF Cut, ClosedInOrder
  <2> QED
    BY <1>t, <2>1, <2>2 DEF ClosedInOrder
<1>4. CASE Connects
  <2>1. run' = "up" => Server[service]'.opens \subseteq open'
    BY <1>0, <1>4 DEF Connects, ClosedInOrder
  <2>2. run' = "up" /\ service' = "order" => "poller" \in open'
    <3>1. ASSUME service = "order" PROVE "poller" \in Members(Server[service].messaging)
      <4>1. Server[service].messaging = <<"poller", "channel", "confirm", "connection">>
        BY <3>1, ServerIs DEF OrderServer, OrderMessaging
      <4>2. 1 \in 1..Len(Server[service].messaging) /\ Server[service].messaging[1] = "poller"
        BY <4>1
      <4> QED
        BY <4>2 DEF Members
    <3> QED
      BY <1>0, <1>4, <3>1 DEF Connects
  <2>3. raced' \/ service' = "notification" \/ ("database" \in open' /\ run' # "stopping")
    <3>1. CASE run = "stopping"
      BY <1>4, <3>1 DEF Connects
    <3>2. CASE run = "up" /\ service # "notification"
      <4>1. "database" \in Server[service].opens
        BY <1>0, <3>2, ChannelComesFirst
      <4> QED
        BY <1>0, <1>4, <2>1, <3>2, <4>1 DEF Connects
    <3>3. CASE service = "notification"
      BY <1>0, <3>3
    <3> QED
      BY <1>4, <3>1, <3>2, <3>3 DEF Connects, Running
  <2>4. startup' = "connected"
    BY <1>4 DEF Connects
  <2> QED
    BY <1>t, <2>1, <2>2, <2>3, <2>4 DEF ClosedInOrder
<1>5. CASE Rejected
  <2>1. Running => "channel" \notin open
    BY <1>5 DEF Rejected, ClosedInOrder
  <2> QED
    BY <1>0, <1>t, <1>5, <2>1 DEF Rejected, ClosedInOrder, Running
<1>6. CASE Requested
  BY <1>0, <1>6 DEF Requested, ClosedInOrder, ChannelIsNext, Running
<1>7. CASE Told
  <2>1. ASSUME "channel" \in open, service # "notification"
        PROVE  "database" \in open /\ ChannelIsNext'
    <3>1. /\ run = "up" /\ startup = "connected" /\ Server[service].opens \subseteq open
          /\ service = "order" => "poller" \in open
      BY <1>7, <2>1 DEF Told, ClosedInOrder, Running
    <3>2. /\ todo' = Server[service].before \o Server[service].messaging \o Server[service].after
          /\ open' = open
      BY <1>7, <3>1 DEF Told
    <3>3. /\ "database" \in Server[service].opens
          /\ \/ todo' # <<>> /\ Head(todo') = "channel"
             \/ /\ Len(todo') > 1 /\ todo'[2] = "channel"
                /\ \/ Head(todo') = "poller" /\ service = "order"
                   \/ Head(todo') = "job" /\ "job" \in Server[service].opens
      BY <1>0, <2>1, <3>2, ChannelComesFirst
    <3> QED
      BY <3>1, <3>2, <3>3 DEF ChannelIsNext
  <2>2. /\ run' = "stopping" /\ run = "up"
        /\ UNCHANGED <<service, startup, open, raced>>
    BY <1>7 DEF Told
  <2> QED
    BY <1>t, <2>1, <2>2 DEF ClosedInOrder, Running
<1>8. CASE Shuts
  <2>1. /\ run = "stopping" /\ todo # <<>>
        /\ open' = open \ {Head(todo)} /\ todo' = Tail(todo)
        /\ UNCHANGED <<run, service, startup, serving, raced>>
    BY <1>8 DEF Shuts
  <2>2. ASSUME "channel" \in open', ~ raced, service # "notification"
        PROVE  "database" \in open' /\ ChannelIsNext'
    <3>1. "channel" \in open /\ Head(todo) # "channel"
      BY <2>1, <2>2
    <3>2. "database" \in open /\ ChannelIsNext
      BY <2>1, <2>2, <3>1 DEF ClosedInOrder, Running
    <3>3. Len(todo) > 1 /\ Head(todo) \in {"job", "poller"} /\ todo[2] = "channel"
      BY <3>1, <3>2 DEF ChannelIsNext
    <3>4. Tail(todo) # <<>> /\ Head(Tail(todo)) = "channel"
      <4>1. Tail(todo) # <<>> /\ Head(Tail(todo)) = todo[2]
        BY <1>0, <3>3, SecondIsNext
      <4> QED
        BY <3>3, <4>1, Zenon
    <3> QED
      BY <2>1, <3>2, <3>3, <3>4 DEF ChannelIsNext
  <2>3. "channel" \in open' => startup' = "connected"
    BY <2>1 DEF ClosedInOrder, Running
  <2> QED
    BY <1>0, <1>t, <2>1, <2>2, <2>3 DEF ClosedInOrder
<1>9. CASE GivesUp
  <2>1. /\ run = "stopping" /\ todo # <<>>
        /\ Head(todo) \notin open \/ Head(todo) = "redis"
        /\ UNCHANGED <<run, service, startup, open, serving, raced>>
    BY <1>9 DEF GivesUp
  <2>2. "channel" \in open => raced \/ service = "notification"
    BY <2>1 DEF ClosedInOrder, ChannelIsNext, Running
  <2>3. "channel" \in open => startup = "connected"
    BY <2>1 DEF ClosedInOrder, Running
  <2> QED
    BY <1>t, <2>1, <2>2, <2>3 DEF ClosedInOrder
<1>10. CASE Rises
  <2>1. run' = "up" /\ open' = Server[service].opens
    BY <1>10 DEF Rises, Starts
  <2>2. "channel" \notin Server[service].opens
    BY <1>0, Plans
  <2> QED
    BY <1>0, <1>t, <2>1, <2>2 DEF ClosedInOrder
<1> QED
  BY <1>1, <1>2, <1>3, <1>4, <1>5, <1>6, <1>7, <1>8, <1>9, <1>10 DEF StepsOfProcess
-----------------------------------------------------------------------------
(* The messages.                                                           *)

MessageTypes ==
  /\ broker \in [Messages -> [at : {"queued", "unacked", "acked", "dead"},
                              redelivered : BOOLEAN]]
  /\ handler \in [Messages -> {"none", "begun", "claimed", "done"}]
  /\ seen \subseteq Messages
  /\ effect \in [Messages -> 0..2]
  /\ history \in [{"doubted", "gap", "failed"} -> SUBSET Messages]

(* What can become of the messages and their handlers.                     *)
Untouched == UNCHANGED <<broker, handler, seen, effect, history>>

Returned == GivesBack /\ UNCHANGED <<handler, seen, effect, history>>

Ended == /\ GivesBack
         /\ history' = [history EXCEPT !.gap = @ \cup {m \in Messages : handler[m] = "claimed"}]
         /\ handler' = [m \in Messages |-> "none"]
         /\ UNCHANGED <<seen, effect>>

Begun(m) == /\ handler[m] = "none" /\ broker[m].at = "queued"
            /\ broker' = [broker EXCEPT ![m].at = "unacked"]
            /\ handler' = [handler EXCEPT ![m] = "begun"]
            /\ UNCHANGED <<seen, effect, history>>

Claimed(m) == /\ service = "notification" /\ handler[m] = "begun"
              /\ handler' = [handler EXCEPT ![m] = IF m \in seen THEN "done" ELSE "claimed"]
              /\ seen' = seen \cup {m}
              /\ UNCHANGED <<broker, effect, history>>

Doubted(m) == /\ handler[m] = "begun"
              /\ handler' = [handler EXCEPT ![m] = "claimed"]
              /\ seen' \in {seen, seen \cup {m}}
              /\ history' = [history EXCEPT !.doubted = @ \cup {m}]
              /\ UNCHANGED <<broker, effect>>

Lapsed(m) == /\ seen' = seen \ {m}
             /\ history' = [history EXCEPT !.doubted = @ \cup {m}]
             /\ UNCHANGED <<broker, handler, effect>>

Effected(m) == /\ handler[m] = IF service = "notification" THEN "claimed" ELSE "begun"
               /\ effect' = Applied(m)
               /\ handler' = [handler EXCEPT ![m] = "done"]
               /\ UNCHANGED <<broker, seen, history>>

Acked(m) == /\ handler[m] = "done"
            /\ broker' = [broker EXCEPT ![m] =
                 [at |-> "acked", redelivered |-> broker[m].redelivered]]
            /\ handler' = [handler EXCEPT ![m] = "none"]
            /\ UNCHANGED <<seen, effect, history>>

(* A refused message becomes a dead letter only when its handler failed,   *)
(* or when the process connected while it was stopping.                    *)
Nacked(m) == /\ handler[m] = "begun"
             /\ \E place \in {"queued", "dead"} :
                  /\ broker' = [broker EXCEPT ![m] = [at |-> place, redelivered |-> TRUE]]
                  /\ place = "dead" => m \in history'.failed \/ raced
             /\ handler' = [handler EXCEPT ![m] = "none"]
             /\ \/ UNCHANGED history
                \/ history' = [history EXCEPT !.failed = @ \cup {m}]
             /\ UNCHANGED <<seen, effect>>

Elsewhere(m) == /\ broker' = [broker EXCEPT ![m].at = "acked"]
                /\ effect' = IF service = "notification" /\ m \in seen THEN effect ELSE Applied(m)
                /\ seen' = IF service = "notification" THEN seen \cup {m} ELSE seen
                /\ UNCHANGED <<handler, history>>

StepOf(m) ==
  Begun(m) \/ Claimed(m) \/ Doubted(m) \/ Lapsed(m) \/ Effected(m) \/ Acked(m) \/ Nacked(m)
    \/ Elsewhere(m)

StepsOfMessages == Untouched \/ Returned \/ Ended \/ \E m \in Messages : StepOf(m)

LEMMA HistoryGrows ==
  ASSUME MessageTypes, NEW M \in SUBSET Messages, NEW f \in {"doubted", "gap", "failed"},
         history' = [history EXCEPT ![f] = @ \cup M]
  PROVE  /\ history' \in [{"doubted", "gap", "failed"} -> SUBSET Messages]
         /\ history'[f] = history[f] \cup M
         /\ \A g \in {"doubted", "gap", "failed"} \ {f} : history'[g] = history[g]
  BY DEF MessageTypes

LEMMA NextTreats ==
  ASSUME MessageTypes, ClosedInOrder, [Next]_vars
  PROVE  StepsOfMessages
<1> USE DEF StepsOfMessages
<1>1. \A how : Ends(how) => Ended
  BY DEF Ends, Ended
<1>2. ASSUME NEW m \in Messages, Deliver(m) \/ Claim(m) PROVE Begun(m) \/ Claimed(m)
  BY <1>2 DEF Deliver, Begun, Claim, Claimed
<1>3. ASSUME NEW m \in Messages, ClaimFails(m) \/ ClaimExpires(m) PROVE Doubted(m) \/ Lapsed(m)
  BY <1>3 DEF ClaimFails, Doubted, ClaimExpires, Lapsed
<1>4. ASSUME NEW m \in Messages, Apply(m) \/ HandledElsewhere(m)
      PROVE  Effected(m) \/ Elsewhere(m)
  BY <1>4 DEF Apply, Effected, HandledElsewhere, Elsewhere
<1>5. ASSUME NEW m \in Messages, Ack(m) PROVE Acked(m) \/ Ended
  BY <1>1, <1>5 DEF Ack, Settles, Acked
<1>6. ASSUME NEW m \in Messages, HandlerFails(m) PROVE Nacked(m)
  <2>1. /\ handler[m] = "begun" /\ "channel" \in open
        /\ history' = [history EXCEPT !.failed = @ \cup {m}]
    BY <1>6 DEF HandlerFails
  <2>2. m \in history'.failed
    BY <2>1 DEF MessageTypes
  <2>3. \E place \in {"queued", "dead"} : Settles(m, place, TRUE)
    BY <1>6 DEF HandlerFails, Nack
  <2> QED
    BY <2>1, <2>2, <2>3 DEF Settles, Nacked
<1>7. ASSUME NEW m \in Messages, HandlerFailsLate(m) PROVE Nacked(m) \/ Ended
  <2>1. /\ Running /\ service # "notification" /\ handler[m] = "begun"
        /\ "channel" \notin open \/ "database" \notin open
        /\ "channel" \in open => UNCHANGED history
    BY <1>7 DEF HandlerFailsLate
  <2>2. \E place \in {"queued", "dead"} : Settles(m, place, TRUE)
    BY <1>7 DEF HandlerFailsLate, Nack
  <2>3. CASE "channel" \in open
    <3>1. raced
      BY <2>1, <2>3 DEF ClosedInOrder
    <3> QED
      BY <2>1, <2>2, <2>3, <3>1 DEF Settles, Nacked
  <2>4. CASE "channel" \notin open
    BY <1>1, <2>2, <2>4 DEF Settles
  <2> QED
    BY <2>3, <2>4
<1>8. Connect \/ ConnectFails \/ RequestArrives \/ RequestEnds \/ Sigterm \/ Restart
        => Untouched
  BY DEF Connect, ConnectFails, RequestArrives, RequestEnds, Sigterm, Restart, Untouched, messages
<1>9. ConnectionLost \/ Crash => Ended \/ Returned
  BY <1>1 DEF ConnectionLost, Crash, Returned
<1>10. Shutdown => Ended \/ Returned \/ Untouched
  BY <1>1 DEF Shutdown, CloseNext, Closes, CloseFails, Exit, Forced, Returned, Untouched, messages
<1>11. UNCHANGED vars => Untouched
  BY DEF vars, messages, Untouched
<1>12. \A m \in Messages : StepOf(m) => StepsOfMessages
  OBVIOUS
<1> QED
  BY <1>2, <1>3, <1>4, <1>5, <1>6, <1>7, <1>8, <1>9, <1>10, <1>11 DEF Next, Handle, StepOf

(* What a step leaves where it was.                                        *)
LEMMA GivenBack ==
  ASSUME MessageTypes, GivesBack
  PROVE  /\ broker' \in [Messages -> [at : {"queued", "unacked", "acked", "dead"},
                                      redelivered : BOOLEAN]]
         /\ \A m \in Messages : \A p \in {"acked", "dead"} :
              broker'[m].at = p => broker[m].at = p
<1>1. ASSUME NEW m \in Messages
      PROVE  /\ broker'[m] \in [at : {"queued", "unacked", "acked", "dead"}, redelivered : BOOLEAN]
             /\ broker'[m] = broker[m] \/ broker'[m].at = "queued"
  <2>1. broker'[m] = IF broker[m].at = "unacked" THEN [at |-> "queued", redelivered |-> TRUE]
                     ELSE broker[m]
    BY DEF GivesBack
  <2> QED
    BY <2>1 DEF MessageTypes
<1>2. broker' = [m \in Messages |-> broker'[m]]
  BY DEF GivesBack
<1>3. broker' \in [Messages -> [at : {"queued", "unacked", "acked", "dead"}, redelivered : BOOLEAN]]
  BY <1>1, <1>2, Zenon
<1> QED
  BY <1>1, <1>3

LEMMA AppliedOnce ==
  ASSUME MessageTypes, NEW m \in Messages
  PROVE  /\ Applied(m) \in [Messages -> 0..2]
         /\ \A n \in Messages : n # m => Applied(m)[n] = effect[n]
         /\ Applied(m)[m] > 0
         /\ service # "notification" /\ effect[m] <= 1 => Applied(m)[m] <= 1
         /\ effect[m] = 0 => Applied(m)[m] = 1
<1>1. effect \in [Messages -> 0..2] /\ effect[m] \in 0..2
  BY DEF MessageTypes
<1>2. Applied(m) = [effect EXCEPT ![m] = IF service = "notification" /\ effect[m] < 2
                                         THEN effect[m] + 1
                                         ELSE IF effect[m] = 0 THEN 1 ELSE effect[m]]
  BY DEF Applied
<1> QED
  BY <1>1, <1>2

LEMMA NextMessageTypes ==
  ASSUME MessageTypes, StepsOfMessages
  PROVE  MessageTypes'
<1>1. CASE Untouched
  BY <1>1 DEF MessageTypes, Untouched
<1>2. CASE Returned
  BY <1>2, GivenBack DEF MessageTypes, Returned
<1>3. CASE Ended
  <2>1. {m \in Messages : handler[m] = "claimed"} \in SUBSET Messages
    OBVIOUS
  <2>2. history' \in [{"doubted", "gap", "failed"} -> SUBSET Messages]
    BY <1>3, <2>1, HistoryGrows DEF Ended
  <2> QED
    BY <1>3, <2>2, GivenBack DEF MessageTypes, Ended
<1>4. ASSUME NEW m \in Messages, StepOf(m) PROVE MessageTypes'
  <2>1. CASE Begun(m) \/ Claimed(m)
    BY <2>1 DEF MessageTypes, Begun, Claimed
  <2>2. CASE Doubted(m) \/ Lapsed(m)
    <3>1. history' = [history EXCEPT !["doubted"] = @ \cup {m}]
      BY <2>2 DEF Doubted, Lapsed
    <3>2. history' \in [{"doubted", "gap", "failed"} -> SUBSET Messages]
      BY <3>1, HistoryGrows
    <3> QED
      BY <2>2, <3>2 DEF MessageTypes, Doubted, Lapsed
  <2>3. CASE Effected(m)
    BY <2>3, AppliedOnce DEF MessageTypes, Effected
  <2>4. CASE Acked(m)
    <3>1. [at |-> "acked", redelivered |-> broker[m].redelivered]
            \in [at : {"queued", "unacked", "acked", "dead"}, redelivered : BOOLEAN]
      BY DEF MessageTypes
    <3> QED
      BY <2>4, <3>1 DEF MessageTypes, Acked
  <2>5. CASE Nacked(m)
    <3>1. history' \in [{"doubted", "gap", "failed"} -> SUBSET Messages]
      <4>1. CASE UNCHANGED history
        BY <4>1 DEF MessageTypes
      <4>2. CASE history' = [history EXCEPT !["failed"] = @ \cup {m}]
        BY <4>2, HistoryGrows
      <4> QED
        BY <2>5, <4>1, <4>2 DEF Nacked
    <3> QED
      BY <2>5, <3>1 DEF MessageTypes, Nacked
  <2>6. CASE Elsewhere(m)
    <3>1. broker' \in [Messages -> [at : {"queued", "unacked", "acked", "dead"},
                                     redelivered : BOOLEAN]]
      <4>1. [at |-> "acked", redelivered |-> broker[m].redelivered]
              \in [at : {"queued", "unacked", "acked", "dead"}, redelivered : BOOLEAN]
        BY DEF MessageTypes
      <4> QED
        BY <2>6, <4>1 DEF MessageTypes, Elsewhere
    <3>2. Applied(m) \in [Messages -> 0..2] /\ effect \in [Messages -> 0..2]
      BY AppliedOnce DEF MessageTypes
    <3>3. effect' \in [Messages -> 0..2]
      BY <2>6, <3>2, Zenon DEF Elsewhere
    <3>4. seen' \subseteq Messages
      BY <2>6 DEF MessageTypes, Elsewhere
    <3> QED
      BY <2>6, <3>1, <3>3, <3>4, Zenon DEF MessageTypes, Elsewhere
  <2> QED
    BY <1>4, <2>1, <2>2, <2>3, <2>4, <2>5, <2>6, Zenon DEF StepOf
<1> QED
  BY <1>1, <1>2, <1>3, <1>4, Zenon DEF StepsOfMessages

(* The kept claims, and why what is acknowledged is handled.               *)
HandledKept == AckedIsHandled /\ ClaimsKept

LEMMA NextHandled ==
  ASSUME MessageTypes, MessageTypes', HandledKept, StepsOfMessages
  PROVE  HandledKept'
<1> DEFINE Safe(m) == effect[m] > 0 \/ m \in history.gap
           Fine(m) == /\ broker[m].at = "acked" => Safe(m) \/ handler[m] = "claimed"
                      /\ m \in seen => Safe(m) \/ handler[m] = "claimed"
                      /\ handler[m] = "done" => Safe(m)
<1>0. HandledKept <=> \A m \in Messages : Fine(m)
  BY DEF HandledKept, AckedIsHandled, ClaimsKept
<1>0p. HandledKept' <=> \A m \in Messages : Fine(m)'
  BY DEF HandledKept, AckedIsHandled, ClaimsKept
<1>1. CASE Untouched
  BY <1>1 DEF HandledKept, AckedIsHandled, ClaimsKept, Untouched
<1>2. CASE Returned
  BY <1>0, <1>0p, <1>2, GivenBack DEF Returned
<1>3. CASE Ended
  <2>1. {m \in Messages : handler[m] = "claimed"} \in SUBSET Messages
    OBVIOUS
  <2>2. history'.gap = history.gap \cup {m \in Messages : handler[m] = "claimed"}
    BY <1>3, <2>1, HistoryGrows DEF Ended
  <2>3. ASSUME NEW m \in Messages PROVE Fine(m)'
    BY <1>0, <1>3, <2>2, <2>3, GivenBack DEF Ended
  <2> QED
    BY <1>0p, <2>3
<1>4. ASSUME NEW m \in Messages, StepOf(m), NEW n \in Messages
      PROVE  Fine(n)'
  <2>0. Fine(n) /\ Fine(m)
    BY <1>0
  <2>1. CASE Begun(m)
    BY <2>0, <2>1 DEF MessageTypes, Begun
  <2>2. CASE Claimed(m)
    BY <2>0, <2>2 DEF MessageTypes, Claimed
  <2>3. CASE Doubted(m) \/ Lapsed(m)
    <3>1. history' = [history EXCEPT !["doubted"] = @ \cup {m}]
      BY <2>3 DEF Doubted, Lapsed
    <3>2. history'.gap = history.gap
      BY <3>1, HistoryGrows
    <3> QED
      BY <2>0, <2>3, <3>2 DEF MessageTypes, Doubted, Lapsed
  <2>4. CASE Effected(m)
    <3>1. effect'[m] > 0 /\ (n # m => effect'[n] = effect[n])
      BY <2>4, AppliedOnce DEF Effected
    <3> QED
      BY <2>0, <2>4, <3>1 DEF MessageTypes, Effected
  <2>5. CASE Acked(m)
    BY <2>0, <2>5 DEF MessageTypes, Acked
  <2>6. CASE Nacked(m)
    <3>1. history'.gap = history.gap
      <4>1. CASE history' = [history EXCEPT !["failed"] = @ \cup {m}]
        BY <4>1, HistoryGrows
      <4> QED
        BY <2>6, <4>1 DEF Nacked
    <3>2. broker'[n].at = "acked" => broker[n].at = "acked"
      BY <2>6 DEF MessageTypes, Nacked
    <3>3. handler'[n] = IF n = m THEN "none" ELSE handler[n]
      BY <2>6 DEF MessageTypes, Nacked
    <3> QED
      BY <2>0, <2>6, <3>1, <3>2, <3>3 DEF Nacked
  <2>7. CASE Elsewhere(m)
    <3>1. Applied(m)[m] > 0 /\ (n # m => Applied(m)[n] = effect[n])
      BY AppliedOnce
    <3>2. n # m => broker'[n] = broker[n]
      BY <2>7 DEF MessageTypes, Elsewhere
    <3> QED
      BY <2>0, <2>7, <3>1, <3>2 DEF Elsewhere
  <2> QED
    BY <1>4, <2>1, <2>2, <2>3, <2>4, <2>5, <2>6, <2>7 DEF StepOf
<1> HIDE DEF Safe, Fine
<1> QED
  BY <1>0p, <1>1, <1>2, <1>3, <1>4 DEF StepsOfMessages

LEMMA NextClaimed ==
  ASSUME MessageTypes, MessageTypes', ClaimedFirst, StepsOfMessages, UNCHANGED service
  PROVE  ClaimedFirst'
<1> DEFINE Once(m) ==
      IF service = "notification"
      THEN \/ m \in history.doubted
           \/ /\ effect[m] > 0 \/ handler[m] = "claimed" => m \in seen
              /\ handler[m] = "claimed" => effect[m] = 0
              /\ effect[m] <= 1
      ELSE effect[m] <= 1
<1>0. ClaimedFirst <=> \A m \in Messages : Once(m)
  BY DEF ClaimedFirst
<1>0p. ClaimedFirst' <=> \A m \in Messages : Once(m)'
  BY DEF ClaimedFirst
<1>1. CASE Untouched \/ Returned
  BY <1>1 DEF ClaimedFirst, Untouched, Returned
<1>2. CASE Ended
  <2>1. {m \in Messages : handler[m] = "claimed"} \in SUBSET Messages
    OBVIOUS
  <2>2. history'.doubted = history.doubted
    BY <1>2, <2>1, HistoryGrows DEF Ended
  <2> QED
    BY <1>0, <1>0p, <1>2, <2>2 DEF Ended
<1>3. ASSUME NEW m \in Messages, StepOf(m), NEW n \in Messages
      PROVE  Once(n)'
  <2>0. Once(n) /\ Once(m) /\ effect[n] \in 0..2
    BY <1>0 DEF MessageTypes
  <2>1. CASE Begun(m) \/ Acked(m)
    BY <2>0, <2>1 DEF MessageTypes, Begun, Acked
  <2>2. CASE Claimed(m)
    BY <2>0, <2>2 DEF MessageTypes, Claimed
  <2>3. CASE Doubted(m) \/ Lapsed(m)
    <3>1. history' = [history EXCEPT !["doubted"] = @ \cup {m}]
      BY <2>3 DEF Doubted, Lapsed
    <3>2. history'.doubted = history.doubted \cup {m}
      BY <3>1, HistoryGrows
    <3> QED
      BY <2>0, <2>3, <3>2 DEF MessageTypes, Doubted, Lapsed
  <2>4. CASE Effected(m)
    <3>1. /\ effect[m] = 0 => effect'[m] = 1
          /\ service # "notification" /\ effect[m] <= 1 => effect'[m] <= 1
          /\ n # m => effect'[n] = effect[n]
      BY <2>4, AppliedOnce DEF Effected
    <3> QED
      BY <2>0, <2>4, <3>1 DEF MessageTypes, Effected
  <2>5. CASE Nacked(m)
    <3>1. history'.doubted = history.doubted
      <4>1. CASE history' = [history EXCEPT !["failed"] = @ \cup {m}]
        BY <4>1, HistoryGrows
      <4> QED
        BY <2>5, <4>1 DEF Nacked
    <3>2. handler'[n] = IF n = m THEN "none" ELSE handler[n]
      BY <2>5 DEF MessageTypes, Nacked
    <3> QED
      BY <2>0, <2>5, <3>1, <3>2 DEF Nacked
  <2>6. CASE Elsewhere(m)
    <3>1. /\ effect[m] = 0 => Applied(m)[m] = 1
          /\ service # "notification" /\ effect[m] <= 1 => Applied(m)[m] <= 1
          /\ n # m => Applied(m)[n] = effect[n]
      BY AppliedOnce
    <3> QED
      BY <2>0, <2>6, <3>1 DEF Elsewhere
  <2> QED
    BY <1>3, <2>1, <2>2, <2>3, <2>4, <2>5, <2>6 DEF StepOf
<1> HIDE DEF Once
<1> QED
  BY <1>0p, <1>1, <1>2, <1>3 DEF StepsOfMessages

LEMMA NextDead ==
  ASSUME MessageTypes, MessageTypes', DeadForCause, StepsOfMessages, raced => raced'
  PROVE  DeadForCause'
<1>1. CASE Untouched
  BY <1>1 DEF DeadForCause, Untouched
<1>2. CASE Returned
  BY <1>2, GivenBack DEF DeadForCause, Returned
<1>3. CASE Ended
  <2>1. {m \in Messages : handler[m] = "claimed"} \in SUBSET Messages
    OBVIOUS
  <2>2. history'.failed = history.failed
    BY <1>3, <2>1, HistoryGrows DEF Ended
  <2> QED
    BY <1>3, <2>2, GivenBack DEF DeadForCause, Ended
<1>4. ASSUME NEW m \in Messages, StepOf(m), NEW n \in Messages, broker'[n].at = "dead"
      PROVE  n \in history'.failed \/ raced'
  <2>1. CASE Begun(m)
    BY <1>4, <2>1 DEF DeadForCause, MessageTypes, Begun
  <2>2. CASE Claimed(m) \/ Effected(m)
    BY <1>4, <2>2 DEF DeadForCause, Claimed, Effected
  <2>3. CASE Doubted(m) \/ Lapsed(m)
    <3>1. history' = [history EXCEPT !["doubted"] = @ \cup {m}]
      BY <2>3 DEF Doubted, Lapsed
    <3>2. history'.failed = history.failed
      BY <3>1, HistoryGrows
    <3> QED
      BY <1>4, <2>3, <3>2 DEF DeadForCause, Doubted, Lapsed
  <2>4. CASE Acked(m)
    BY <1>4, <2>4 DEF DeadForCause, MessageTypes, Acked
  <2>5. CASE Nacked(m)
    <3>1. history.failed \subseteq history'.failed
      <4>1. CASE history' = [history EXCEPT !["failed"] = @ \cup {m}]
        BY <4>1, HistoryGrows
      <4> QED
        BY <2>5, <4>1 DEF Nacked
    <3>2. PICK place \in {"queued", "dead"} :
            /\ broker' = [broker EXCEPT ![m] = [at |-> place, redelivered |-> TRUE]]
            /\ place = "dead" => m \in history'.failed \/ raced
      BY <2>5 DEF Nacked
    <3>3. CASE n = m
      BY <1>4, <3>2, <3>3 DEF MessageTypes
    <3>4. CASE n # m
      BY <1>4, <3>1, <3>2, <3>4 DEF MessageTypes, DeadForCause
    <3> QED
      BY <3>3, <3>4
  <2>6. CASE Elsewhere(m)
    BY <1>4, <2>6 DEF DeadForCause, MessageTypes, Elsewhere
  <2> QED
    BY <1>4, <2>1, <2>2, <2>3, <2>4, <2>5, <2>6 DEF StepOf
<1> QED
  BY <1>1, <1>2, <1>3, <1>4 DEF StepsOfMessages, DeadForCause
-----------------------------------------------------------------------------
(* The specification.                                                      *)

(* Only a running process has handlers.                                    *)
HandlersRun == \A m \in Messages : handler[m] # "none" => Running

LEMMA NextHandlersRun ==
  ASSUME MessageTypes, HandlersRun, [Next]_vars
  PROVE  HandlersRun'
<1>1. ASSUME NEW how, Ends(how) PROVE HandlersRun'
  BY <1>1 DEF Ends, HandlersRun
<1>2. ASSUME UNCHANGED run, NEW m \in Messages, Running,
             \E place \in {"none", "begun", "claimed", "done"} :
               handler' = [handler EXCEPT ![m] = place]
      PROVE  HandlersRun'
  BY <1>2 DEF MessageTypes, HandlersRun, Running
<1>3. ASSUME UNCHANGED handler, Running => Running' PROVE HandlersRun'
  BY <1>3 DEF HandlersRun
<1>4. ASSUME NEW m \in Messages, NEW place, NEW again, Running, Settles(m, place, again)
      PROVE  HandlersRun'
  BY <1>1, <1>2, <1>4 DEF Settles
<1>5. ASSUME NEW m \in Messages, Deliver(m) \/ Claim(m) \/ Apply(m) \/ ClaimFails(m)
      PROVE  HandlersRun'
  BY <1>2, <1>5 DEF Deliver, Claim, Apply, ClaimFails
<1>6. ASSUME NEW m \in Messages, Ack(m) \/ HandlerFailsLate(m) \/ HandlerFails(m)
      PROVE  HandlersRun'
  BY <1>4, <1>6 DEF Ack, HandlerFailsLate, HandlerFails, Nack
<1>7. ASSUME NEW m \in Messages, ClaimExpires(m) \/ HandledElsewhere(m)
      PROVE  HandlersRun'
  BY <1>3, <1>7 DEF ClaimExpires, HandledElsewhere, Running
<1>8. Connect \/ ConnectFails \/ RequestArrives \/ RequestEnds \/ UNCHANGED vars => HandlersRun'
  BY <1>3 DEF Connect, ConnectFails, RequestArrives, RequestEnds, vars, Running
<1>9. Sigterm \/ Restart => HandlersRun'
  BY <1>3 DEF Sigterm, Restart, Starts, Running
<1>10. ConnectionLost \/ Crash \/ Shutdown => HandlersRun'
  BY <1>1, <1>3 DEF ConnectionLost, Crash, Shutdown, CloseNext, Closes, CloseFails, Exit, Forced,
                    Running
<1> QED
  BY <1>5, <1>6, <1>7, <1>8, <1>9, <1>10 DEF Next, Handle

LEMMA NextFaults ==
  ASSUME faults \in 0..MaxFaults, [Next]_vars
  PROVE  faults' \in 0..MaxFaults
<1>1. Fault \/ UNCHANGED faults
  BY DEF Next, vars, Connect, ConnectFails, ConnectionLost, Deliver, Handle, Claim, Apply, Ack,
         HandlerFailsLate, ClaimFails, ClaimExpires, HandlerFails, HandledElsewhere,
         RequestArrives, RequestEnds, Sigterm, Shutdown, CloseNext, Closes, CloseFails, Exit,
         Forced, Crash, Restart
<1> QED
  BY <1>1, ProcessAssumption DEF Fault

IInv ==
  /\ TypeOK
  /\ AckedIsHandled /\ OnlyOnce /\ DeadForCause
  /\ ClaimsKept /\ ClaimedFirst /\ ClosedInOrder

LEMMA TypeParts ==
  TypeOK <=> ProcessTypes /\ MessageTypes /\ HandlersRun /\ faults \in 0..MaxFaults
  BY DEF TypeOK, ProcessTypes, MessageTypes, HandlersRun

(* What is claimed first is sent once.                                     *)
LEMMA ClaimedFirstSendsOnce == ClaimedFirst => OnlyOnce
  BY DEF ClaimedFirst, OnlyOnce

LEMMA InitInv == Init => IInv
<1> SUFFICES ASSUME Init PROVE IInv
  OBVIOUS
<1> USE DEF Init
<1>1. ProcessTypes /\ todo \in Seq(Things)
  <2>1. Server[service].opens \subseteq Things
    BY Plans
  <2>2. todo \in Seq(Things) /\ Len(todo) = 0
    OBVIOUS
  <2>3. Members(todo) = {}
    BY <2>2 DEF Members
  <2> QED
    BY <2>1, <2>2, <2>3 DEF ProcessTypes
<1>2. MessageTypes
  <2>1. broker \in [Messages -> [at : {"queued", "unacked", "acked", "dead"},
                                 redelivered : BOOLEAN]]
    BY DEF Queued
  <2>2. history \in [{"doubted", "gap", "failed"} -> SUBSET Messages]
    OBVIOUS
  <2> QED
    BY <2>1, <2>2 DEF MessageTypes
<1>3. HandlersRun /\ faults \in 0..MaxFaults
  BY ProcessAssumption DEF HandlersRun
<1>4. AckedIsHandled /\ DeadForCause
  BY DEF AckedIsHandled, DeadForCause, Queued
<1>5. ClaimsKept /\ ClaimedFirst
  BY DEF ClaimsKept, ClaimedFirst
<1>6. ClosedInOrder
  <2>1. "channel" \notin Server[service].opens
    BY Plans
  <2> QED
    BY <1>1, <2>1 DEF ClosedInOrder
<1> QED
  BY <1>1, <1>2, <1>3, <1>4, <1>5, <1>6, TypeParts, ClaimedFirstSendsOnce DEF IInv

LEMMA NextInv == IInv /\ [Next]_vars => IInv'
<1> SUFFICES ASSUME IInv, [Next]_vars PROVE IInv'
  OBVIOUS
<1>1. /\ ProcessTypes /\ MessageTypes /\ HandlersRun /\ faults \in 0..MaxFaults
      /\ HandledKept /\ ClaimedFirst /\ DeadForCause
      /\ ClosedInOrder /\ todo \in Seq(Things)
  BY TypeParts DEF IInv, HandledKept, ClosedInOrder
<1>2. StepsOfProcess /\ StepsOfMessages
  BY <1>1, NextMoves, NextTreats
<1>3. UNCHANGED service /\ (raced => raced')
  <2>1. /\ UNCHANGED service
        /\ UNCHANGED raced \/ raced' = (raced \/ run = "stopping")
    BY <1>2 DEF StepsOfProcess, process, Halts, Cut, Connects, Rejected, Requested, Told, Shuts,
                GivesUp, Rises
  <2>2. ASSUME raced PROVE raced'
    <3>1. CASE UNCHANGED raced
      BY <2>2, <3>1
    <3>2. CASE raced' = (raced \/ run = "stopping")
      <4>1. raced \/ run = "stopping"
        BY <2>2
      <4> QED
        BY <3>2, <4>1
    <3> QED
      BY <2>1, <3>1, <3>2
  <2> QED
    BY <2>1, <2>2
<1>4. ProcessTypes' /\ MessageTypes' /\ HandlersRun' /\ faults' \in 0..MaxFaults
  BY <1>1, <1>2, NextProcessTypes, NextMessageTypes, NextHandlersRun, NextFaults
<1>5. TypeOK'
  BY <1>4 DEF TypeOK, ProcessTypes, MessageTypes, HandlersRun
<1>6. HandledKept' /\ ClaimedFirst' /\ DeadForCause'
  BY <1>1, <1>2, <1>3, <1>4, NextHandled, NextClaimed, NextDead
<1>7. ClosedInOrder'
  BY <1>1, <1>2, NextOrder
<1>8. OnlyOnce'
  BY <1>6 DEF ClaimedFirst, OnlyOnce
<1> QED
  BY <1>5, <1>6, <1>7, <1>8 DEF IInv, HandledKept

(* The inductive invariant.                                                *)
THEOREM Invariance == Spec => []IInv
  BY InitInv, NextInv, PTL DEF Spec

(* The process, its messages and their handlers keep their types, and no   *)
(* handler outlives its process.                                           *)
THEOREM TypeCorrect == Spec => []TypeOK
<1>1. IInv => TypeOK
  BY DEF IInv
<1> QED
  BY <1>1, Invariance, PTL

(* An acknowledged message has taken effect, except in the gap between a   *)
(* notification's claim and its dispatch.                                  *)
THEOREM AcknowledgedIsHandled == Spec => []AckedIsHandled
<1>1. IInv => AckedIsHandled
  BY DEF IInv
<1> QED
  BY <1>1, Invariance, PTL

(* However often a message is delivered it takes effect once, unless Redis *)
(* failed or forgot its claim.                                             *)
THEOREM HandledOnce == Spec => []OnlyOnce
<1>1. IInv => OnlyOnce
  BY DEF IInv
<1> QED
  BY <1>1, Invariance, PTL

(* No shutdown makes a dead letter, unless the process connected while it  *)
(* was stopping.                                                           *)
THEOREM DeadLettersHaveCause == Spec => []DeadForCause
<1>1. IInv => DeadForCause
  BY DEF IInv
<1> QED
  BY <1>1, Invariance, PTL
=============================================================================
