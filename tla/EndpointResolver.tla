--------------------------- MODULE EndpointResolver ---------------------------
(***************************************************************************)
(* The endpoint resolver: takes interaction messages from its queue one at *)
(* a time, asks the endpoint registry where the receiver lives, publishes  *)
(* one copy per endpoint to the queue of the endpoint's protocol, and only *)
(* then acknowledges the message.  Publishing and acknowledging only write *)
(* to a connection; copies are published on whatever connection there is,  *)
(* the acknowledgement goes to the one the message came from.              *)
(*                                                                         *)
(* The broker and the egress applications are modelled as far as the       *)
(* resolver depends on them.                                               *)
(***************************************************************************)
EXTENDS AmqpGo, SequencesExt

CONSTANTS
  Messages,    \* interaction messages published with routing key egress.generic
  Endpoints,   \* endpoints an AAS descriptor can list
  Type,        \* per endpoint: its type
  Answers      \* what the registry can answer

\* An answer lists the endpoints of its descriptors in order; "incomplete" is a
\* descriptor that lacks "descriptor" or "endpoints".
ASSUME ResolverAssumption ==
  /\ Type \in [Endpoints -> {"grpc", "http", "https", "other"}]
  /\ Answers \subseteq Seq(Endpoints \cup {"incomplete"})
  /\ "incomplete" \notin Endpoints
  /\ "none" \notin Messages

VARIABLES
  queue,      \* broker: messages waiting in queue "generic"
  unacked,    \* broker: per connection, messages delivered and not settled
  settled,    \* broker: what became of each message
  bound,      \* broker: routing keys some egress application has bound a queue to
  arrived,    \* broker: how often each copy was routed to an egress queue
  unrouted,   \* broker: copies dropped because their routing key was not bound
  consumers,  \* broker: connections with a consumer of queue "generic"
  pc,         \* the consuming goroutine
  source,     \* the connection of r.deliveries, 0 before the first Listen
  inbox,      \* deliveries the driver holds for the goroutine
  current,    \* message in processDelivery, or "none"
  todo,       \* endpoints it still has to be published for
  plan,       \* per message: endpoints of its last resolution (history)
  crashes

brokerVars == <<queue, unacked, settled, bound, arrived, unrouted, consumers>>
workerVars == <<pc, source, inbox, current, todo, plan>>
vars == <<amqpVars, brokerVars, workerVars, crashes>>

Copy == [msg : Messages, endpoint : Endpoints]

Frame == [kind : {"publish"}, copy : Copy] \cup [kind : {"ack", "nack"}, msg : Messages]

Keys == {"egress.grpc", "egress.http"}

Supported(e) == Type[e] \in {"grpc", "http", "https"}

RoutingKey(e) == IF Type[e] = "grpc" THEN "egress.grpc" ELSE "egress.http"

TypeOK ==
  /\ AmqpTypeOK(Frame)
  /\ queue \subseteq Messages
  /\ unacked \in [Connections -> SUBSET Messages]
  /\ settled \in [Messages -> {"no", "acked", "nacked", "lost"}]
  /\ bound \subseteq Keys
  /\ arrived \in [Copy -> Nat]
  /\ unrouted \subseteq Copy
  /\ consumers \subseteq Connections
  /\ pc \in {"listening", "ranging", "resolving", "forwarding", "failed"}
  /\ source \in Connections \cup {0}
  /\ inbox \subseteq Messages
  /\ current \in Messages \cup {"none"}
  /\ todo \in Seq(Endpoints \cup {"incomplete"})
  /\ plan \in [Messages -> SUBSET Endpoints]
  /\ crashes \in 0 .. MaxCrashes

Init ==
  /\ AmqpInit
  /\ queue = Messages
  /\ unacked = [c \in Connections |-> {}]
  /\ settled = [m \in Messages |-> "no"]
  /\ bound = {}
  /\ arrived = [c \in Copy |-> 0]
  /\ unrouted = {}
  /\ consumers = {}
  /\ pc = "listening" /\ source = 0 /\ inbox = {} /\ current = "none" /\ todo = <<>>
  /\ plan = [m \in Messages |-> {}]
  /\ crashes = 0

------------------------------------------------------------------------------
(***************************************************************************)
(* The consuming goroutine.                                                *)
(***************************************************************************)

\* Listen declares and binds the queue and starts to consume from it.
Listen ==
  /\ pc = "listening"
  /\ Usable /\ session[conn] = "open"
  /\ consumers' = consumers \cup {conn}
  /\ source' = conn
  /\ inbox' = {}
  /\ pc' = "ranging"
  /\ UNCHANGED <<amqpVars, queue, unacked, settled, bound, arrived, unrouted, current,
                 todo, plan, crashes>>

\* The deliveries channel of a connection that is gone is closed.
SourceClosed == ~up \/ source # conn

\* for d := range r.deliveries: the driver may still hand out what it buffered
\* before the channel was closed.
Take ==
  /\ pc = "ranging"
  /\ \E m \in inbox : current' = m /\ inbox' = inbox \ {m}
  /\ pc' = "resolving"
  /\ UNCHANGED <<amqpVars, brokerVars, source, todo, plan, crashes>>

\* A bug that receives from the closed channel instead of ranging over it.
DeliveriesClosedZero ==
  /\ pc = "ranging" /\ SourceClosed
  /\ current' = "none"
  /\ pc' = "resolving"
  /\ UNCHANGED <<amqpVars, brokerVars, source, inbox, todo, plan, crashes>>

\* The range ends and the deliveries still buffered are dropped.
DeliveriesClosed ==
  /\ pc = "ranging" /\ SourceClosed
  /\ inbox' = {}
  /\ pc' = "listening"
  /\ UNCHANGED <<amqpVars, brokerVars, source, current, todo, plan, crashes>>

\* The registry answers, possibly with no descriptor at all.
Resolve ==
  /\ pc = "resolving"
  /\ \E answer \in Answers :
       /\ todo' = answer
       /\ plan' = [plan EXCEPT ![current] = ToSet(answer) \ {"incomplete"}]
  /\ pc' = "forwarding"
  /\ UNCHANGED <<amqpVars, brokerVars, source, inbox, current, crashes>>

\* The message cannot be parsed, names no receiver, or the registry fails.
ResolveFails ==
  /\ pc = "resolving"
  /\ pc' = "failed"
  /\ UNCHANGED <<amqpVars, brokerVars, source, inbox, current, todo, plan, crashes>>

\* A descriptor without endpoints is passed over.
Skip ==
  /\ pc = "forwarding" /\ todo # <<>> /\ Head(todo) = "incomplete"
  /\ todo' = Tail(todo)
  /\ UNCHANGED <<amqpVars, brokerVars, pc, source, inbox, current, plan, crashes>>

\* Publish for the next endpoint.  It retries until a connection takes it.
Forward ==
  /\ pc = "forwarding" /\ todo # <<>>
  /\ Head(todo) # "incomplete" /\ Supported(Head(todo))
  /\ Usable
  /\ Send(conn, [kind |-> "publish", copy |-> [msg |-> current, endpoint |-> Head(todo)]])
  /\ todo' = Tail(todo)
  /\ UNCHANGED <<clientVars, session, losses, brokerVars, pc, source, inbox, current, plan,
                 crashes>>

\* An endpoint of another type ends the loop, after what was published so far.
Unsupported ==
  /\ pc = "forwarding" /\ todo # <<>>
  /\ Head(todo) # "incomplete" /\ ~Supported(Head(todo))
  /\ todo' = <<>>
  /\ pc' = "failed"
  /\ UNCHANGED <<amqpVars, brokerVars, source, inbox, current, plan, crashes>>

\* A bug that acknowledges on the client's channel instead of the delivery's.
AnswerAnywhere(verdict) ==
  IF Usable THEN Send(conn, [kind |-> verdict, msg |-> current]) ELSE UNCHANGED wire

\* d.Ack and d.Nack go to the delivery's own connection; their error is ignored.
Answer(verdict) ==
  IF SourceClosed THEN UNCHANGED wire
  ELSE Send(source, [kind |-> verdict, msg |-> current])

\* A bug that acknowledges before the last copy is written.
SettleEarly ==
  /\ \/ pc = "forwarding" /\ Len(todo) <= 1 /\ Answer("ack")
     \/ pc = "failed" /\ Answer("nack")
  /\ current' = "none"
  /\ pc' = "ranging"
  /\ todo' = <<>>
  /\ UNCHANGED <<clientVars, session, losses, brokerVars, source, inbox, plan, crashes>>

\* A bug that leaves a failed delivery unanswered.
SettleOnlySuccess ==
  /\ \/ pc = "forwarding" /\ todo = <<>> /\ Answer("ack")
     \/ pc = "failed" /\ UNCHANGED wire
  /\ current' = "none"
  /\ pc' = "ranging"
  /\ UNCHANGED <<clientVars, session, losses, brokerVars, source, inbox, todo, plan,
                 crashes>>

Settle ==
  /\ \/ pc = "forwarding" /\ todo = <<>> /\ Answer("ack")
     \/ pc = "failed" /\ Answer("nack")
  /\ current' = "none"
  /\ pc' = "ranging"
  /\ UNCHANGED <<clientVars, session, losses, brokerVars, source, inbox, todo, plan,
                 crashes>>

Worker ==
  Listen \/ Take \/ DeliveriesClosed \/ Resolve \/ ResolveFails \/ Skip \/ Forward
    \/ Unsupported \/ Settle

------------------------------------------------------------------------------
(***************************************************************************)
(* The broker, and the process and its peers starting and stopping.        *)
(***************************************************************************)

\* Deliver a waiting message to a consumer, whose client may be gone already.
Deliver(c) ==
  /\ c \in consumers /\ session[c] = "open"
  /\ \E m \in queue :
       /\ queue' = queue \ {m}
       /\ unacked' = [unacked EXCEPT ![c] = @ \cup {m}]
       /\ inbox' = IF ~SourceClosed /\ c = source THEN inbox \cup {m} ELSE inbox
  /\ UNCHANGED <<amqpVars, settled, bound, arrived, unrouted, consumers, pc, source,
                 current, todo, plan, crashes>>

Route(copy) ==
  IF RoutingKey(copy.endpoint) \in bound
  THEN arrived' = [arrived EXCEPT ![copy] = @ + 1] /\ UNCHANGED unrouted
  ELSE unrouted' = unrouted \cup {copy} /\ UNCHANGED arrived

\* A bug that asks for redelivery of what could not be processed.
NackRequeued(c, m) ==
  /\ unacked' = [unacked EXCEPT ![c] = @ \ {m}]
  /\ queue' = queue \cup {m}
  /\ UNCHANGED settled

\* Nack(false, false): not requeued, and no dead letter exchange is declared.
Nacked(c, m) ==
  /\ unacked' = [unacked EXCEPT ![c] = @ \ {m}]
  /\ settled' = [settled EXCEPT ![m] = "nacked"]
  /\ UNCHANGED queue

Acked(c, m) ==
  /\ unacked' = [unacked EXCEPT ![c] = @ \ {m}]
  /\ settled' = [settled EXCEPT ![m] = "acked"]
  /\ UNCHANGED queue

\* The broker processes the next frame of a connection.
Arrive(c) ==
  /\ session[c] = "open" /\ wire[c] # <<>>
  /\ LET f == Head(wire[c]) IN
       \/ f.kind = "publish" /\ Route(f.copy) /\ UNCHANGED <<queue, unacked, settled>>
       \/ f.kind = "ack" /\ Acked(c, f.msg) /\ UNCHANGED <<arrived, unrouted>>
       \/ f.kind = "nack" /\ Nacked(c, f.msg) /\ UNCHANGED <<arrived, unrouted>>
  /\ wire' = [wire EXCEPT ![c] = Tail(@)]
  /\ UNCHANGED <<clientVars, session, losses, bound, consumers, workerVars, crashes>>

\* What a lost connection had not settled goes back to the queue.
SessionEnds(c) ==
  /\ EndSession(c)
  /\ queue' = queue \cup unacked[c]
  /\ unacked' = [unacked EXCEPT ![c] = {}]
  /\ UNCHANGED <<settled, bound, arrived, unrouted, consumers, workerVars, crashes>>

\* The broker restarts: all messages are transient, its queues are not.
BrokerRestarts ==
  /\ Loss
  /\ session' = [c \in Connections |-> IF session[c] = "open" THEN "ended" ELSE session[c]]
  /\ wire' = [c \in Connections |-> <<>>]
  /\ settled' = [m \in Messages |-> IF settled[m] = "no" THEN "lost" ELSE settled[m]]
  /\ queue' = {}
  /\ unacked' = [c \in Connections |-> {}]
  /\ UNCHANGED <<clientVars, bound, arrived, unrouted, consumers, workerVars, crashes>>

\* An egress application declares and binds its queue.
EgressStarts ==
  /\ \E k \in Keys \ bound : bound' = bound \cup {k}
  /\ UNCHANGED <<amqpVars, queue, unacked, settled, arrived, unrouted, consumers,
                 workerVars, crashes>>

\* The resolver is stopped or dies, and is started again.
Restart ==
  /\ crashes < MaxCrashes
  /\ crashes' = crashes + 1
  /\ RestartClient
  /\ pc' = "listening" /\ source' = 0 /\ inbox' = {} /\ current' = "none" /\ todo' = <<>>
  /\ UNCHANGED <<brokerVars, plan>>

Client == ClientNext /\ UNCHANGED <<brokerVars, workerVars, crashes>>

Next ==
  \/ Client
  \/ Worker
  \/ \E c \in Connections : Deliver(c) \/ Arrive(c) \/ SessionEnds(c)
  \/ BrokerRestarts \/ EgressStarts \/ Restart

Spec == Init /\ [][Next]_vars

(***************************************************************************)
(* Fairness: goroutines and the broker run, the registry answers, and the  *)
(* broker ends the sessions of clients that are gone (heartbeats).         *)
(***************************************************************************)
Fairness ==
  /\ ClientFairness
  /\ WF_vars(Listen) /\ WF_vars(Take) /\ WF_vars(DeliveriesClosed)
  /\ WF_vars(Resolve \/ ResolveFails)
  /\ WF_vars(Skip \/ Forward \/ Unsupported) /\ WF_vars(Settle)
  /\ \A c \in Connections :
       /\ WF_vars(Deliver(c)) /\ WF_vars(Arrive(c))
       /\ WF_vars(SessionEnds(c) /\ ~(up /\ c = conn))

FairSpec == Spec /\ Fairness

------------------------------------------------------------------------------
(***************************************************************************)
(* Properties.                                                             *)
(***************************************************************************)

Done(m, e) ==
  LET copy == [msg |-> m, endpoint |-> e]
  IN arrived[copy] > 0 \/ copy \in unrouted

\* A message waits, or is with one connection, or is settled: what the broker
\* does when connections break neither loses nor doubles it.
OnePlace ==
  \A m \in Messages :
    /\ settled[m] = "no" <=> m \in queue \/ \E c \in Connections : m \in unacked[c]
    /\ m \in queue => \A c \in Connections : m \notin unacked[c]
    /\ \A c, d \in Connections : m \in unacked[c] \cap unacked[d] => c = d

\* An acknowledged message has reached the broker once more for every endpoint
\* of its receivers, although Publish returns before the broker has anything
\* and may write to another connection than the acknowledgement.
AckedIsForwarded ==
  \A m \in Messages : settled[m] = "acked" => \A e \in plan[m] : Done(m, e)

\* A receiver gets a copy again only after a connection broke or the resolver
\* was restarted, once for each time that happened.  (The answers used list no
\* endpoint twice.)
CopiesAreBounded ==
  \A c \in Copy : arrived[c] <= 1 + losses + crashes

\* A copy of a message that is settled already reaches the egress only when two
\* connections were lost: the copy's own, and the one that redelivered it.
LateCopiesNeedTwoLosses ==
  [][\A c \in Copy : arrived'[c] > arrived[c] /\ settled[c.msg] \in {"acked", "nacked"} =>
       losses + crashes >= 2]_vars

\* Every message is settled in the end, unless the client abandons its broker.
EveryMessageSettled ==
  \A m \in Messages : <>(settled[m] # "no") \/ <>[]Abandoned

------------------------------------------------------------------------------
(***************************************************************************)
(* The inductive invariant behind AckedIsForwarded.                        *)
(***************************************************************************)

Held == inbox \cup ({current} \ {"none"})

Verdict(f, m) == f.kind \in {"ack", "nack"} /\ f.msg = m

Written(c, m, e, n) ==
  \E j \in 1 .. n : wire[c][j] = [kind |-> "publish", copy |-> [msg |-> m, endpoint |-> e]]

\* The goroutine's place in the loop and the message it has go together.
Busy ==
  /\ current = "none" <=> pc \in {"listening", "ranging"}
  /\ current \notin inbox

\* Connections are numbered as dialled; only open sessions hold anything.
Sessions ==
  /\ up => conn # 0
  /\ \A c \in {conn, source} : c # 0 => session[c] # "none"
  /\ \A c \in Connections :
       session[c] # "open" => wire[c] = <<>> /\ unacked[c] = {}

\* What the goroutine holds from a live connection is not settled yet.
HeldIsUnacked ==
  ~SourceClosed /\ session[source] = "open" => Held \subseteq unacked[source]

\* A settled message is not being processed.
SettledIsReleased ==
  \A m \in Messages : settled[m] \in {"acked", "nacked"} => m \notin Held

\* A verdict on its way is the only one, and the goroutine has let go.
VerdictsAreFinal ==
  \A c \in Connections : \A i \in DOMAIN wire[c] : \A m \in Messages :
    Verdict(wire[c][i], m) =>
      /\ m \in unacked[c] /\ m \notin Held
      /\ \A j \in DOMAIN wire[c] : Verdict(wire[c][j], m) => j = i

\* The copies of an acknowledgement on its way are ahead of it.
AcksFollowCopies ==
  \A c \in Connections : \A i \in DOMAIN wire[c] : \A m \in Messages :
    wire[c][i] = [kind |-> "ack", msg |-> m] =>
      \A e \in plan[m] : Done(m, e) \/ Written(c, m, e, i - 1)

\* While its connection lives, what was resolved and is not to do is written.
ForwardingIsComplete ==
  pc = "forwarding" /\ ~SourceClosed /\ session[source] = "open" =>
    \A e \in plan[current] :
      \/ e \in ToSet(todo)
      \/ Done(current, e)
      \/ Written(source, current, e, Len(wire[source]))

ResolverInvariant ==
  /\ Busy
  /\ Sessions
  /\ HeldIsUnacked
  /\ SettledIsReleased
  /\ VerdictsAreFinal
  /\ AcksFollowCopies
  /\ ForwardingIsComplete

------------------------------------------------------------------------------
(***************************************************************************)
(* What the documentation says and the code does not keep.                 *)
(***************************************************************************)

\* docs: the message is published to egress.<PROTOCOL> for each receiving
\* endpoint.
EachEndpointIsServed ==
  \A m \in Messages : settled[m] \in {"acked", "nacked"} =>
    \A e \in plan[m] : Supported(e) => Done(m, e)
=============================================================================
