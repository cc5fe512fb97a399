---------------------------- MODULE HttpsEndpoints ----------------------------
(***************************************************************************)
(* The way of an interaction message through the HTTPS endpoints: an AAS   *)
(* posts it to the ingress, which publishes it for the skill; the skill    *)
(* publishes its reply, the resolver publishes a copy of it to the queue   *)
(* of the HTTPS egress, which posts it to the AAS that is to have it.      *)
(* Ingress, skill and egress have a client of module AmqpTs each.  A       *)
(* message and the reply to it share a name; what the skill does with a    *)
(* message is in module Skill.                                             *)
(*                                                                         *)
(* Exchange and queues are durable, messages are not.  Consumers do not    *)
(* acknowledge: the broker forgets a message when it has sent it.  Only    *)
(* the resolver does: a reply it has not acknowledged when its connection  *)
(* breaks is delivered to it again, whether it published a copy or not.    *)
(* Here it listens or does not; module EndpointResolver has the details.   *)
(***************************************************************************)
EXTENDS AmqpTs

CONSTANTS
  Messages,
  MaxFaults   \* bound on faults

ASSUME HttpsAssumption ==
  /\ Services = {"ingress", "skill", "egress"}
  /\ Publishers = {"ingress", "skill"}
  /\ Listeners = {"skill", "egress"}
  /\ MaxFaults \in Nat

VARIABLES
  boots,      \* starts of the skill: every one declares a queue of its own
  bound,      \* queues that are bound to the exchange
  queued,     \* parcels in queues
  outgoing,   \* published, on their way to the broker
  incoming,   \* sent to consumers
  handled,    \* parcels the skill, the resolver or the egress is at work on
  listens,    \* whether the resolver consumes from its queue
  unacked,    \* parcels delivered to the resolver and not settled
  breaks,     \* times the broker took them back from it (history)
  answer,     \* what the ingress answered
  posts,      \* per parcel, times the AAS received it
  faults,
  safe        \* accepted with all services usable, and no fault since (history)

resolverVars == <<listens, unacked, breaks>>
flowVars == <<boots, bound, queued, outgoing, incoming, handled, resolverVars, answer, posts,
              faults, safe>>
vars == <<client, flowVars>>

\* A message or the reply to it, and how often the resolver got that again.
Parcels == Messages \X (0 .. MaxFaults)
First(m) == <<m, 0>>
Again(p) == <<p[1], p[2] + 1>>

Workers == Services \cup {"resolver"}
Queues == ({"skill"} \X (1 .. (MaxFaults + 1))) \cup ((Workers \ {"skill"}) \X {0})

\* server.ts of the skill draws a name for its queue, the others are fixed.
Queue(s) == <<s, IF s = "skill" THEN boots ELSE 0>>
LiveQueues == {Queue(s) : s \in Workers}

\* Who is to have what s publishes: the skill's routing key is the resolver's.
Receiver(s) == CASE s = "ingress" -> "skill"
                 [] s = "skill" -> "resolver"
                 [] OTHER -> "egress"

\* Queues a message published by s is routed to.
Routed(s) == {q \in bound : q[1] = Receiver(s)}

OnWire == Services \X Connections \X Parcels

TypeOK ==
  /\ client \in [Services -> Client]
  /\ boots \in 1 .. (MaxFaults + 1)
  /\ bound \subseteq Queues
  /\ queued \subseteq Queues \X Parcels
  /\ outgoing \subseteq OnWire
  /\ incoming \subseteq OnWire
  /\ handled \subseteq Workers \X Parcels
  /\ listens \in BOOLEAN
  /\ unacked \subseteq Parcels
  /\ breaks \in 0 .. faults
  /\ answer \in [Messages -> {"none", "ok", "refused", "error"}]
  /\ posts \in [Parcels -> 0 .. 2]
  /\ faults \in 0 .. MaxFaults
  /\ safe \subseteq Messages

Init ==
  /\ ClientInit
  /\ boots = 1
  /\ bound = {}
  /\ queued = {} /\ outgoing = {} /\ incoming = {} /\ handled = {}
  /\ listens = FALSE /\ unacked = {} /\ breaks = 0
  /\ answer = [m \in Messages |-> "none"]
  /\ posts = [p \in Parcels |-> 0]
  /\ faults = 0
  /\ safe = {}

------------------------------------------------------------------------------
(* The clients *)

Works(s) ==
  /\ ClientStep(s)
  /\ UNCHANGED flowVars

\* The queue is declared, bound and consumed from.
Subscribe(s, o) ==
  /\ Subscribes(s, o)
  /\ bound' = bound \cup {Queue(s)}
  /\ UNCHANGED <<boots, queued, outgoing, incoming, handled, resolverVars, answer, posts, faults,
                 safe>>

Fault ==
  /\ faults < MaxFaults
  /\ faults' = faults + 1
  /\ safe' = {}

LostWith(s, wire) == {w \in wire : w[1] = s}

\* What is on its way to or from a connection ends with it.
Disconnect(s) ==
  /\ Fault
  /\ \E n \in Connections : Closes(s, n)
  /\ outgoing' = outgoing \ LostWith(s, outgoing)
  /\ incoming' = incoming \ LostWith(s, incoming)
  /\ UNCHANGED <<boots, bound, queued, handled, resolverVars, answer, posts>>

Crash(s) ==
  /\ Fault
  /\ Crashes(s)
  /\ outgoing' = outgoing \ LostWith(s, outgoing)
  /\ incoming' = incoming \ LostWith(s, incoming)
  /\ handled' = {h \in handled : h[1] # s}
  /\ UNCHANGED <<boots, bound, queued, resolverVars, answer, posts>>

Interrupt(s) ==
  /\ Fault
  /\ Interrupted(s)
  /\ outgoing' = outgoing \ LostWith(s, outgoing)
  /\ incoming' = incoming \ LostWith(s, incoming)
  /\ handled' = IF client'[s].up THEN handled ELSE {h \in handled : h[1] # s}
  /\ UNCHANGED <<boots, bound, queued, resolverVars, answer, posts>>

Restart(s) ==
  /\ Restarts(s)
  /\ boots' = IF s = "skill" THEN boots + 1 ELSE boots
  /\ UNCHANGED <<bound, queued, outgoing, incoming, handled, resolverVars, answer, posts, faults,
                 safe>>

\* What the resolver is at work on, and may publish on its next connection or drop.
InHand == {h \in handled : h[1] = "resolver"}

\* The broker stops and starts: it closes all connections and keeps no message.
BrokerRestarts ==
  /\ Fault
  /\ client' = [s \in Services |->
       CASE client[s].live = {} -> client[s]
         [] \E n \in client[s].live : Awaited(client[s], n) -> Down
         [] OTHER -> Closed(client[s], CHOOSE n \in client[s].live : TRUE)]
  /\ queued' = {} /\ outgoing' = {} /\ incoming' = {}
  /\ listens' = FALSE /\ unacked' = {}
  /\ \E kept \in SUBSET InHand : handled' = {h \in handled \ InHand : client'[h[1]].up} \cup kept
  /\ UNCHANGED <<boots, bound, breaks, answer, posts>>

------------------------------------------------------------------------------
(* The broker *)

Route(s, n, p) ==
  /\ <<s, n, p>> \in outgoing
  /\ outgoing' = outgoing \ {<<s, n, p>>}
  /\ queued' = queued \cup (Routed(s) \X {p})
  /\ UNCHANGED <<client, boots, bound, incoming, handled, resolverVars, answer, posts, faults,
                 safe>>

\* noAck: what is sent is gone from the queue.
Deliver(s, n, p) ==
  /\ n \in client[s].consuming
  /\ <<Queue(s), p>> \in queued
  /\ queued' = queued \ {<<Queue(s), p>>}
  /\ incoming' = incoming \cup {<<s, n, p>>}
  /\ UNCHANGED <<client, boots, bound, outgoing, handled, resolverVars, answer, posts, faults,
                 safe>>

------------------------------------------------------------------------------
(* The services *)

AllUsable == \A s \in Services : Usable(s)

Publish(s, p) == outgoing' = outgoing \cup {<<s, client[s].pub, p>>}

\* POST /interaction.
Answer(m, status) ==
  /\ client["ingress"].up
  /\ answer[m] = "none"
  /\ answer' = [answer EXCEPT ![m] = status]
  /\ UNCHANGED <<client, boots, bound, queued, incoming, handled, resolverVars, posts, faults>>

\* The middleware cannot read the frame.
PostRefused(m) ==
  /\ Answer(m, "refused")
  /\ UNCHANGED <<outgoing, safe>>

\* Without a connection the controller returns an error, and the route answers
\* 200 with it.
PostUnsent(m) ==
  /\ client["ingress"].closed
  /\ Answer(m, "ok")
  /\ UNCHANGED <<outgoing, safe>>

\* What publish() throws becomes a 500.
PostThrows(m) ==
  /\ ~client["ingress"].closed /\ ~Publishable(client["ingress"])
  /\ Answer(m, "error")
  /\ UNCHANGED <<outgoing, safe>>

PostPublished(m) ==
  /\ Publishable(client["ingress"])
  /\ Answer(m, "ok")
  /\ Publish("ingress", First(m))
  /\ safe' = IF AllUsable /\ listens THEN safe \cup {m} ELSE safe

Post(m) == PostRefused(m) \/ PostUnsent(m) \/ PostThrows(m) \/ PostPublished(m)

\* receive() is called with the message.
Receive(s, n, p) ==
  /\ <<s, n, p>> \in incoming
  /\ incoming' = incoming \ {<<s, n, p>>}
  /\ handled' = handled \cup {<<s, p>>}
  /\ UNCHANGED <<client, boots, bound, queued, outgoing, resolverVars, answer, posts, faults,
                 safe>>

\* The skill replies; what it cannot publish is lost.
Reply(p) ==
  /\ <<"skill", p>> \in handled
  /\ handled' = handled \ {<<"skill", p>>}
  /\ IF Publishable(client["skill"]) THEN Publish("skill", p) ELSE UNCHANGED outgoing
  /\ UNCHANGED <<client, boots, bound, queued, incoming, resolverVars, answer, posts, faults,
                 safe>>

\* The resolver declares, binds and consumes from its queue, when it starts or has a
\* connection again.  A client that missed the end of its connection never does.
ResolverListens ==
  /\ ~listens
  /\ listens' = TRUE
  /\ bound' = bound \cup {Queue("resolver")}
  /\ UNCHANGED <<client, boots, queued, outgoing, incoming, handled, unacked, breaks, answer,
                 posts, faults, safe>>

\* The broker delivers to the resolver, and waits for an answer.
Take(p) ==
  /\ listens /\ <<Queue("resolver"), p>> \in queued
  /\ queued' = queued \ {<<Queue("resolver"), p>>}
  /\ handled' = handled \cup {<<"resolver", p>>}
  /\ unacked' = unacked \cup {p}
  /\ UNCHANGED <<client, boots, bound, outgoing, incoming, listens, breaks, answer, posts,
                 faults, safe>>

\* A copy is published for the endpoint of the receiver.
Resolve(p) ==
  /\ <<"resolver", p>> \in handled
  /\ handled' = handled \ {<<"resolver", p>>}
  /\ queued' = queued \cup (Routed("resolver") \X {p})
  /\ UNCHANGED <<client, boots, bound, outgoing, incoming, resolverVars, answer, posts, faults, safe>>

\* Only then the broker may forget the reply.
Acknowledge(p) ==
  /\ p \in unacked /\ <<"resolver", p>> \notin handled
  /\ unacked' = unacked \ {p}
  /\ UNCHANGED <<client, boots, bound, queued, outgoing, incoming, handled, listens, breaks,
                 answer, posts, faults, safe>>

\* A bug that rejects a reply to have it delivered again.
UnresolvedRequeued(p) ==
  /\ <<"resolver", p>> \in handled
  /\ handled' = handled \ {<<"resolver", p>>}
  /\ unacked' = unacked \ {p}
  /\ queued' = queued \cup {<<Queue("resolver"), Again(p)>>}
  /\ Fault
  /\ UNCHANGED <<client, boots, bound, outgoing, incoming, listens, breaks, answer, posts>>

\* The reply has no receiver the registry knows of, or it cannot be asked: rejected
\* or acknowledged without a copy.
Unresolved(p) ==
  /\ <<"resolver", p>> \in handled
  /\ handled' = handled \ {<<"resolver", p>>}
  /\ unacked' = unacked \ {p}
  /\ Fault
  /\ UNCHANGED <<client, boots, bound, queued, outgoing, incoming, listens, breaks, answer, posts>>

\* The resolver loses its connection or ends: what is not settled waits in the
\* queue again.  Of what it has in hand it publishes some on its next connection.
ResolverBreaks ==
  /\ Fault
  /\ listens' = FALSE /\ breaks' = breaks + 1
  /\ queued' = queued \cup {<<Queue("resolver"), Again(p)>> : p \in unacked}
  /\ unacked' = {}
  /\ \E kept \in SUBSET InHand : handled' = (handled \ InHand) \cup kept
  /\ UNCHANGED <<client, boots, bound, outgoing, incoming, answer, posts>>

\* A bug that returns before the POST.
ForwardUnposted(p) ==
  /\ <<"egress", p>> \in handled
  /\ handled' = handled \ {<<"egress", p>>}
  /\ UNCHANGED <<client, boots, bound, queued, outgoing, incoming, resolverVars, answer, posts,
                 faults, safe>>

\* The egress posts to the AAS.
Forward(p) ==
  /\ <<"egress", p>> \in handled
  /\ handled' = handled \ {<<"egress", p>>}
  /\ posts' = [posts EXCEPT ![p] = @ + 1]
  /\ UNCHANGED <<client, boots, bound, queued, outgoing, incoming, resolverVars, answer, faults,
                 safe>>

\* A bug that puts the message back when its POST failed.
ForwardFailsRequeued(p) ==
  /\ <<"egress", p>> \in handled
  /\ handled' = handled \ {<<"egress", p>>}
  /\ queued' = queued \cup {<<Queue("egress"), p>>}
  /\ \/ UNCHANGED posts
     \/ posts' = [posts EXCEPT ![p] = @ + 1]
  /\ Fault
  /\ UNCHANGED <<client, boots, bound, outgoing, incoming, resolverVars, answer>>

\* The egress cannot read the message, or the POST fails, before or after the
\* AAS had it: only logged.
ForwardFails(p) ==
  /\ <<"egress", p>> \in handled
  /\ handled' = handled \ {<<"egress", p>>}
  /\ \/ UNCHANGED posts
     \/ posts' = [posts EXCEPT ![p] = @ + 1]
  /\ Fault
  /\ UNCHANGED <<client, boots, bound, queued, outgoing, incoming, resolverVars, answer>>

\* Callbacks, frames and handlers.
Progress ==
  \/ \E s \in Services :
       \/ Works(s) \/ Restart(s)
       \/ \E o \in Callbacks \X Connections : Subscribe(s, o)
       \/ \E n \in Connections, p \in Parcels :
            Route(s, n, p) \/ Deliver(s, n, p) \/ Receive(s, n, p)
  \/ \E p \in Parcels : Reply(p) \/ Take(p) \/ Resolve(p) \/ Acknowledge(p) \/ Forward(p)

Faults ==
  \/ \E s \in Services : Disconnect(s) \/ Crash(s) \/ Interrupt(s)
  \/ BrokerRestarts \/ ResolverBreaks
  \/ \E p \in Parcels : Unresolved(p) \/ ForwardFails(p)

Next == Progress \/ Faults \/ ResolverListens \/ \E m \in Messages : Post(m)

Spec == Init /\ [][Next]_vars

\* The event loops run, a broker that is there accepts connections, and a
\* process that ended is started again.  The resolver need not come back.
FairSpec == Spec /\ WF_vars(Progress)

------------------------------------------------------------------------------
(* Properties *)

\* Where a message can be between its acceptance and the AAS.  A queue of an
\* earlier start of the skill has no consumer any more.
OnItsWay(p) ==
  \/ \E q \in LiveQueues : <<q, p>> \in queued
  \/ \E w \in outgoing \cup incoming : w[3] = p
  \/ \E h \in handled : h[2] = p

\* Whatever breaks, a reply is received once at most, and once more for every time
\* the resolver broke after it got it and before it acknowledged it; nobody
\* receives one to a message whose sender was told that it failed: to post it again
\* is safe.
AtMostOnce ==
  \A p \in Parcels :
    /\ posts[p] <= 1
    /\ posts[p] = 1 => p[2] <= breaks
    /\ answer[p[1]] # "ok" => posts[p] = 0 /\ ~OnItsWay(p) /\ p \notin unacked

\* A message accepted while the services were usable and the resolver listened
\* reaches its AAS, unless something breaks before.
AcceptedArrives == \A m \in Messages : m \in safe ~> (posts[First(m)] = 1 \/ m \notin safe)

\* After the last fault every client becomes usable, connection, channel and
\* consumer, and stays so; one that got SIGINT need not.
ClientsRecover == <>[](\A s \in Services : Usable(s) \/ client[s].destroyed)

==============================================================================
