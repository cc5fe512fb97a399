------------------------------- MODULE GrpcHop -------------------------------
(***************************************************************************)
(* Messages on their way from one installation to the next: the gRPC       *)
(* egress takes them from its queue one at a time and calls the ingress of *)
(* the receiver, where every RPC waits for the one goroutine that          *)
(* publishes.  Nothing has a deadline: an RPC waits until it has a status  *)
(* or its connection breaks, and what it handed over is published all the  *)
(* same.                                                                   *)
(*                                                                         *)
(* The egress stands on module AmqpGo.  Of the ingress' client it matters  *)
(* only that Publish returns no error: it tries until a connection takes   *)
(* the message.                                                            *)
(***************************************************************************)
EXTENDS AmqpGo, FiniteSets

CONSTANTS
  Messages,     \* in the queue of the egress
  Calls,        \* what other callers send to the ingress
  Kinds,        \* what the messages can be
  Cert,         \* per message: the receiver's certificate, as registered
  Certs,
  MaxAttempts,  \* maxAttempts of SendInteractionMessage
  MaxTroubles   \* bound on what breaks or crashes, losses before it included

\* silent: the egress cannot read the message or cannot or need not send it.
\* roleless: its receiver has no role.  empty: without interaction elements,
\* which the egress does not let pass.
ASSUME HopAssumption ==
  /\ \A k \in Kinds :
       /\ k \in [Messages \cup Calls -> {"fine", "silent", "roleless", "empty"}]
       /\ \A m \in Messages : k[m] # "empty"
       /\ \A m \in Calls : k[m] # "silent"
  /\ Cert \in [Messages -> Certs]
  /\ Messages \cap Calls = {} /\ "none" \notin Messages \cup Calls \cup Certs
  /\ IsFiniteSet(Calls)
  /\ MaxAttempts \in Nat /\ MaxTroubles \in Nat

VARIABLES
  kind,      \* per message: what it is
  queue,     \* broker: messages waiting
  unacked,   \* broker: per connection, delivered and not settled
  settled,   \* broker: what became of each message
  consumers, \* broker: connections with a consumer
  pc,        \* the egress' goroutine
  source,    \* the connection its deliveries come from, 0 before the first Listen
  inbox,     \* deliveries the driver holds for it
  current,   \* the message it sends
  attempts,  \* calls that failed
  pool,      \* its client for the receiver: the certificate it was made with, state
  rpc,       \* its call: none, open, answered, or hung
  serving,   \* certificate of the ingress, "none" while it is down
  iQueue,    \* calls that wait for the ingress' goroutine
  handling,  \* the call it is at work on
  status,    \* per call of others: no, waiting, ok, error
  published, \* per message: how often
  fell,      \* the ingress has been down (history)
  crashes,
  breaks

brokerVars == <<queue, unacked, settled, consumers>>
egressVars == <<pc, source, inbox, current, attempts, pool, rpc>>
ingressVars == <<kind, serving, iQueue, handling, status, published, fell>>
vars == <<amqpVars, brokerVars, egressVars, ingressVars, crashes, breaks>>

\* live: the egress waits for this call.
Call == [msg : Messages \cup Calls, live : BOOLEAN]
Nothing == [msg |-> "none", live |-> FALSE]
NoClient == [cert |-> "none", state |-> "none"]

Frame == [kind : {"ack", "nack"}, msg : Messages]

TypeOK ==
  /\ AmqpTypeOK(Frame)
  /\ kind \in Kinds
  /\ queue \subseteq Messages
  /\ unacked \in [Connections -> SUBSET Messages]
  /\ settled \in [Messages -> {"no", "acked", "nacked"}]
  /\ consumers \subseteq Connections
  /\ pc \in {"listening", "ranging", "calling", "waiting", "sent", "failed"}
  /\ source \in Connections \cup {0}
  /\ inbox \subseteq Messages
  /\ current \in Messages \cup {"none"}
  /\ attempts \in 0 .. MaxAttempts + 1
  /\ pool \in [cert : Certs, state : {"idle", "ready", "failing"}] \cup {NoClient}
  /\ rpc \in {"none", "open", "answered", "hung"}
  /\ rpc # "none" <=> pc = "waiting"
  /\ serving \in Certs \cup {"none"}
  /\ iQueue \in Seq(Call) /\ handling \in Call \cup {Nothing}
  /\ status \in [Calls -> {"no", "waiting", "ok", "error"}]
  /\ published \in [Messages \cup Calls -> Nat]
  /\ fell \in BOOLEAN
  /\ crashes \in 0 .. MaxCrashes /\ breaks \in 0 .. MaxTroubles

Init ==
  /\ AmqpInit
  /\ kind \in Kinds
  /\ queue = Messages
  /\ unacked = [c \in Connections |-> {}]
  /\ settled = [m \in Messages |-> "no"]
  /\ consumers = {}
  /\ pc = "listening" /\ source = 0 /\ inbox = {} /\ current = "none"
  /\ attempts = 0 /\ pool = NoClient /\ rpc = "none"
  /\ serving \in Certs
  /\ iQueue = <<>> /\ handling = Nothing
  /\ status = [c \in Calls |-> "no"]
  /\ published = [m \in Messages \cup Calls |-> 0]
  /\ fell = FALSE
  /\ crashes = 0 /\ breaks = 0

------------------------------------------------------------------------------
(* The egress *)

Listen ==
  /\ pc = "listening"
  /\ Usable /\ session[conn] = "open"
  /\ consumers' = consumers \cup {conn}
  /\ source' = conn
  /\ inbox' = {}
  /\ pc' = "ranging"
  /\ UNCHANGED <<amqpVars, queue, unacked, settled, current, attempts, pool, rpc, ingressVars, crashes, breaks>>

SourceClosed == ~up \/ source # conn

DeliveriesClosed ==
  /\ pc = "ranging" /\ SourceClosed
  /\ inbox' = {}
  /\ pc' = "listening"
  /\ UNCHANGED <<amqpVars, brokerVars, source, current, attempts, pool, rpc, ingressVars, crashes,
                 breaks>>

\* continue, or the end of the loop's body: the delivery is never answered.
TakeSilent(m) ==
  /\ pc = "ranging"
  /\ m \in inbox /\ kind[m] = "silent"
  /\ inbox' = inbox \ {m}
  /\ UNCHANGED <<amqpVars, brokerVars, pc, source, current, attempts, pool, rpc, ingressVars,
                 crashes, breaks>>

\* A client for the same URL is reused with the certificate it has, unless it is
\* found failing; while it tries again by itself it is not.
ObtainClient(cert) ==
  \/ /\ pool.state \in {"none", "failing"}
     /\ pool' = [cert |-> cert, state |-> "idle"]
  \/ /\ pool # NoClient
     /\ pool' = IF pool.state = "ready" THEN pool ELSE [pool EXCEPT !.state = "idle"]

Take(m) ==
  /\ pc = "ranging"
  /\ m \in inbox /\ kind[m] # "silent"
  /\ inbox' = inbox \ {m}
  /\ current' = m
  /\ ObtainClient(Cert[m])
  /\ attempts' = 0
  /\ pc' = "calling"
  /\ UNCHANGED <<amqpVars, brokerVars, source, rpc, ingressVars, crashes, breaks>>

Reachable == serving # "none" /\ (pool.state = "ready" \/ pool.cert = serving)

CallIngress ==
  /\ pc = "calling" /\ Reachable
  /\ pool' = [pool EXCEPT !.state = "ready"]
  /\ rpc' = "open"
  /\ pc' = "waiting"
  /\ iQueue' = Append(iQueue, [msg |-> current, live |-> TRUE])
  /\ UNCHANGED <<amqpVars, brokerVars, source, inbox, current, attempts, kind, serving, handling, status,
                 published, fell, crashes, breaks>>

\* A bug that gives up without the error of the last attempt.
AttemptFailsQuietly ==
  /\ attempts' = attempts + 1
  /\ pc' = IF attempts' > MaxAttempts THEN "sent" ELSE "calling"
  /\ rpc' = "none"

\* A bug that compares the attempts made before this one.
AttemptFailsLate ==
  /\ attempts' = attempts + 1
  /\ pc' = IF attempts > MaxAttempts THEN "failed" ELSE "calling"
  /\ rpc' = "none"

\* The call fails; after the pause it is made again, maxAttempts times.
AttemptFails ==
  /\ attempts' = attempts + 1
  /\ pc' = IF attempts' > MaxAttempts THEN "failed" ELSE "calling"
  /\ rpc' = "none"

CallFails ==
  /\ pc = "calling" /\ ~Reachable
  /\ pool' = [pool EXCEPT !.state = "failing"]
  /\ AttemptFails
  /\ UNCHANGED <<amqpVars, brokerVars, source, inbox, current, ingressVars, crashes, breaks>>

Returns ==
  /\ rpc = "answered"
  /\ rpc' = "none"
  /\ pc' = "sent"
  /\ UNCHANGED <<amqpVars, brokerVars, source, inbox, current, attempts, pool, ingressVars, crashes,
                 breaks>>

\* d.Ack and d.Nack go to the delivery's own connection; their error is ignored.
Answer(verdict) ==
  IF SourceClosed THEN UNCHANGED wire
  ELSE Send(source, [kind |-> verdict, msg |-> current])

\* A bug that leaves a message alone that could not be sent.
SettleOnlySent ==
  /\ \/ pc = "sent" /\ Answer("ack")
     \/ pc = "failed" /\ UNCHANGED wire
  /\ current' = "none"
  /\ pc' = "ranging"
  /\ UNCHANGED <<clientVars, session, losses, brokerVars, source, inbox, attempts, pool, rpc,
                 ingressVars, crashes, breaks>>

\* The status of the answer is not looked at.
Settle ==
  /\ \/ pc = "sent" /\ Answer("ack")
     \/ pc = "failed" /\ Answer("nack")
  /\ current' = "none"
  /\ pc' = "ranging"
  /\ UNCHANGED <<clientVars, session, losses, brokerVars, source, inbox, attempts, pool, rpc,
                 ingressVars, crashes, breaks>>

------------------------------------------------------------------------------
(* Its broker *)

Deliver(c, m) ==
  /\ c \in consumers /\ session[c] = "open"
  /\ m \in queue
  /\ queue' = queue \ {m}
  /\ unacked' = [unacked EXCEPT ![c] = @ \cup {m}]
  /\ inbox' = IF ~SourceClosed /\ c = source THEN inbox \cup {m} ELSE inbox
  /\ UNCHANGED <<amqpVars, settled, consumers, pc, source, current, attempts, pool, rpc, ingressVars, crashes,
                 breaks>>

\* Nacked messages are not requeued.
Arrive(c) ==
  /\ session[c] = "open" /\ wire[c] # <<>>
  /\ LET f == Head(wire[c]) IN
       /\ settled' = [settled EXCEPT ![f.msg] = IF f.kind = "ack" THEN "acked" ELSE "nacked"]
       /\ unacked' = [unacked EXCEPT ![c] = @ \ {f.msg}]
  /\ wire' = [wire EXCEPT ![c] = Tail(@)]
  /\ UNCHANGED <<clientVars, session, losses, queue, consumers, egressVars, ingressVars, crashes, breaks>>

SessionEnds(c) ==
  /\ EndSession(c)
  /\ queue' = queue \cup unacked[c]
  /\ unacked' = [unacked EXCEPT ![c] = {}]
  /\ UNCHANGED <<settled, consumers, egressVars, ingressVars, crashes, breaks>>

------------------------------------------------------------------------------
(* The ingress *)

CallOther(m) ==
  /\ serving # "none" /\ status[m] = "no"
  /\ status' = [status EXCEPT ![m] = "waiting"]
  /\ iQueue' = Append(iQueue, [msg |-> m, live |-> FALSE])
  /\ UNCHANGED <<amqpVars, brokerVars, egressVars, kind, serving, handling, published, fell, crashes, breaks>>

\* The queue is not buffered: its senders wait in order.
Handle ==
  /\ handling = Nothing /\ iQueue # <<>>
  /\ handling' = Head(iQueue)
  /\ iQueue' = Tail(iQueue)
  /\ UNCHANGED <<amqpVars, brokerVars, egressVars, kind, serving, status, published, fell, crashes, breaks>>

\* Published and answered with a status, which the RPC finds if anyone waits.
Publish ==
  /\ handling # Nothing /\ kind[handling.msg] = "fine"
  /\ published' = [published EXCEPT ![handling.msg] = @ + 1]
  /\ handling' = Nothing
  /\ rpc' = IF handling.live THEN "answered" ELSE rpc
  /\ status' = [c \in Calls |-> IF c = handling.msg THEN "ok" ELSE status[c]]
  /\ UNCHANGED <<amqpVars, brokerVars, pc, source, inbox, current, attempts, pool, kind, serving, iQueue,
                 fell, crashes, breaks>>

\* continue without a status: the RPC polls for ever.
SkipEmpty ==
  /\ handling # Nothing /\ kind[handling.msg] = "empty"
  /\ handling' = Nothing
  /\ UNCHANGED <<amqpVars, brokerVars, egressVars, kind, serving, iQueue, status, published, fell, crashes,
                 breaks>>

\* The ingress ends, and the calls it has with it.
IngressEnds ==
  /\ serving' = "none"
  /\ fell' = TRUE
  /\ iQueue' = <<>>
  /\ handling' = Nothing
  /\ status' = [c \in Calls |-> IF status[c] = "waiting" THEN "error" ELSE status[c]]
  /\ pool' = IF pool = NoClient THEN pool ELSE [pool EXCEPT !.state = "idle"]
  /\ IF rpc \in {"open", "answered"} THEN AttemptFails ELSE UNCHANGED <<attempts, pc, rpc>>
  /\ UNCHANGED <<amqpVars, brokerVars, source, inbox, current, kind, published, crashes>>

\* The routing key is made of a role that is not there: the process panics.
Panic ==
  /\ handling # Nothing /\ kind[handling.msg] = "roleless"
  /\ IngressEnds
  /\ UNCHANGED breaks

IngressStarts ==
  /\ serving = "none"
  /\ serving' \in Certs
  /\ UNCHANGED <<amqpVars, brokerVars, egressVars, kind, iQueue, handling, status, published, fell, crashes,
                 breaks>>

------------------------------------------------------------------------------
(* Faults *)

Troubles == losses + crashes + breaks

Break == Troubles < MaxTroubles /\ breaks' = breaks + 1

IngressStops ==
  /\ serving # "none"
  /\ Break
  /\ IngressEnds

Abandon(call) == [call EXCEPT !.live = FALSE]
NoneLive ==
  /\ iQueue' = [i \in DOMAIN iQueue |-> Abandon(iQueue[i])]
  /\ handling' = Abandon(handling)

\* The connection breaks under a call.  What the ingress has of it goes on.
CallBreaks ==
  /\ rpc \in {"open", "answered"}
  /\ Break
  /\ AttemptFails
  /\ pool' = [pool EXCEPT !.state = "idle"]
  /\ NoneLive
  /\ UNCHANGED <<amqpVars, brokerVars, source, inbox, current, kind, serving, status, published, fell, crashes>>

\* The receiver is gone without a trace: there is no deadline and no keepalive.
CallHangs ==
  /\ rpc \in {"open", "answered"}
  /\ Break
  /\ rpc' = "hung"
  /\ NoneLive
  /\ UNCHANGED <<amqpVars, brokerVars, pc, source, inbox, current, attempts, pool, kind, serving, status,
                 published, fell, crashes>>

\* The egress is stopped or dies, and is started again.
Restart ==
  /\ crashes < MaxCrashes /\ Troubles < MaxTroubles
  /\ crashes' = crashes + 1
  /\ RestartClient
  /\ pc' = "listening" /\ source' = 0 /\ inbox' = {} /\ current' = "none"
  /\ attempts' = 0 /\ pool' = NoClient /\ rpc' = "none"
  /\ NoneLive
  /\ UNCHANGED <<brokerVars, kind, serving, status, published, fell, breaks>>

Client == ClientNext /\ UNCHANGED <<brokerVars, egressVars, ingressVars, crashes, breaks>>

Egress ==
  \/ Listen \/ DeliveriesClosed
  \/ \E m \in Messages : TakeSilent(m) \/ Take(m)
  \/ CallIngress \/ CallFails \/ Returns \/ Settle

Ingress == Handle \/ Publish \/ SkipEmpty \/ Panic \/ IngressStarts

Next ==
  \/ Client \/ Egress \/ Ingress
  \/ \E c \in Connections : Arrive(c) \/ SessionEnds(c) \/ \E m \in Messages : Deliver(c, m)
  \/ \E m \in Calls : CallOther(m)
  \/ IngressStops \/ CallBreaks \/ CallHangs \/ Restart

Spec == Init /\ [][Next]_vars

\* As in EndpointResolver; the ingress runs and is started again.
FairSpec ==
  /\ Spec
  /\ ClientFairness
  /\ WF_vars(Egress) /\ WF_vars(Ingress)
  /\ \A c \in Connections :
       /\ WF_vars(Arrive(c)) /\ WF_vars(\E m \in Messages : Deliver(c, m))
       /\ WF_vars(SessionEnds(c) /\ ~(up /\ c = conn))

------------------------------------------------------------------------------
(* Properties *)

Roleless(M) == {m \in M : kind[m] = "roleless"}

\* What the queue of the egress forgets as sent has been published by the ingress,
\* once more at most for everything that broke.  While nothing has broken, a message
\* that is registered with the ingress' certificate is given up only if the client
\* for the receiver was made with the certificate of another.
HopKeeps ==
  \A m \in Messages :
    /\ settled[m] = "acked" => published[m] > 0
    /\ published[m] <= 1 + Troubles + Cardinality(Roleless(Calls))
    /\ pc = "failed" /\ current = m /\ Cert[m] = serving /\ breaks = 0 /\ ~fell
         => pool.cert # serving

\* The egress answers every delivery it can read, whatever else it has to send,
\* unless its client abandons the broker or a call hangs: nothing lets go of either.
\* A call that others make gets a status or an error.
EverybodyAnswered ==
  /\ \/ <>(\A m \in Messages : kind[m] # "silent" => settled[m] # "no")
     \/ <>[](Abandoned \/ rpc = "hung")
  /\ \A c \in Calls : []<>(status[c] = "waiting" => kind[c] = "empty")

==============================================================================
