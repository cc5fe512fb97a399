-------------------------------- MODULE AmqpTs --------------------------------
(***************************************************************************)
(* The TypeScript services' AMQP client (package AMQP-Client): connecting, *)
(* opening the channel to publish on, subscribing, and what happens when a *)
(* connection ends.  Everything is a callback of amqplib; the callbacks of *)
(* one process run one at a time.                                          *)
(*                                                                         *)
(* amqplib reports the end of a connection with 'close', and first with    *)
(* 'error' unless the broker closed it in an orderly way.  Nobody listens  *)
(* to 'error', and the callbacks of channels that cannot be opened throw:  *)
(* both end the process, which its container starts again.                 *)
(***************************************************************************)
EXTENDS Naturals, FiniteSets

CONSTANTS
  Services,       \* processes with a client of their own
  Publishers,     \* those that call setupPublishing when they start
  Listeners,      \* those that subscribe, publishers once they can publish
  MaxConnections  \* bound on the connections a process knows at a time

ASSUME AmqpTsAssumption ==
  /\ Publishers \cup Listeners = Services
  /\ MaxConnections \in Nat \ {0}

VARIABLE client   \* per service, its process and the fields of its AmqpClient

Connections == 1 .. MaxConnections

\* Callbacks that have been handed to connect or createChannel.
Callbacks == {"publish", "listen", "reconnect", "republish"}

Client == [up : BOOLEAN, destroyed : BOOLEAN, subscribed : BOOLEAN,
           closed : BOOLEAN,                       \* connectionClosed
           conn : Connections \cup {0},            \* connection, 0 for undefined
           pub : Connections \cup {0},             \* the connection of pubChannel
           live : SUBSET Connections,              \* connections that are open
           dialing : SUBSET Callbacks,             \* calls of connect
           opening : SUBSET (Callbacks \X Connections),    \* createChannel
           declaring : SUBSET (Callbacks \X Connections),  \* assertQueue
           consuming : SUBSET Connections]

NewClient == [up |-> TRUE, destroyed |-> FALSE, subscribed |-> FALSE, closed |-> TRUE,
              conn |-> 0, pub |-> 0, live |-> {}, dialing |-> {}, opening |-> {},
              declaring |-> {}, consuming |-> {}]

\* A bug that leaves fields of the client undefined.
Undefined == [up |-> FALSE]

Down == [NewClient EXCEPT !.up = FALSE]

------------------------------------------------------------------------------
(* The methods, as functions of the client *)

NotConnected(c) == c.conn = 0 \/ c.closed

Dial(c, k) == [c EXCEPT !.dialing = @ \cup {k}]

OpenChannel(c, k) == [c EXCEPT !.opening = @ \cup {<<k, c.conn>>}]

SetupPublishing(c, k) == IF NotConnected(c) THEN Dial(c, k) ELSE OpenChannel(c, k)

\* What doSubscription calls in the end: a reconnection goes on to publishing.
AfterSubscription(c, k) == IF k = "reconnect" THEN SetupPublishing(c, "republish") ELSE c

DoSubscription(c, k) ==
  CASE ~c.subscribed -> AfterSubscription(c, k)
    [] c.subscribed /\ c.closed -> c
    [] OTHER -> OpenChannel(c, k)

ConnectAndDoSubscription(c, k) == IF NotConnected(c) THEN Dial(c, k) ELSE DoSubscription(c, k)

StartListening(c) == ConnectAndDoSubscription([c EXCEPT !.subscribed = TRUE], "listen")

Boot(s) == IF s \in Publishers THEN SetupPublishing(NewClient, "publish")
                               ELSE StartListening(NewClient)

Connect(c, k, n) ==
  LET new == [c EXCEPT !.conn = n, !.closed = FALSE, !.live = @ \cup {n}, !.dialing = @ \ {k}]
  IN  IF k \in {"publish", "republish"} THEN OpenChannel(new, k) ELSE DoSubscription(new, k)

\* The channel of the subscription, too, is kept for publishing.  A service that
\* also listens starts to when its publishing is set up.
ChannelOpened(s, c, o) ==
  LET new == [c EXCEPT !.pub = o[2], !.opening = @ \ {o}]
  IN  CASE o[1] \in {"listen", "reconnect"} -> [new EXCEPT !.declaring = @ \cup {o}]
        [] o[1] = "publish" /\ s \in Listeners -> StartListening(new)
        [] OTHER -> new

QueueDeclared(c, o) ==
  AfterSubscription([c EXCEPT !.declaring = @ \ {o}, !.consuming = @ \cup {o[2]}], o[1])

\* A bug that dials anew without saying that the connection is closed.
SilentlyClosed(c, n) ==
  LET rest == [c EXCEPT !.live = @ \ {n}, !.consuming = @ \ {n}]
  IN  IF c.destroyed THEN rest ELSE ConnectAndDoSubscription(rest, "reconnect")

\* A bug that dials without the callback that sets publishing up again.
ClosedForListening(c, n) ==
  LET rest == [c EXCEPT !.live = @ \ {n}, !.consuming = @ \ {n}]
  IN  IF c.destroyed THEN rest
                     ELSE ConnectAndDoSubscription([rest EXCEPT !.closed = TRUE], "listen")

\* The handler of 'close'.
Closed(c, n) ==
  LET rest == [c EXCEPT !.live = @ \ {n}, !.consuming = @ \ {n}]
  IN  IF c.destroyed THEN rest
                     ELSE ConnectAndDoSubscription([rest EXCEPT !.closed = TRUE], "reconnect")

Awaited(c, n) == \E o \in c.opening \cup c.declaring : o[2] = n

\* SIGINT: the process stays, its connection is closed and not replaced.
Cleanup(c) ==
  CASE c.closed -> [c EXCEPT !.destroyed = TRUE]
    [] ~c.closed /\ Awaited(c, c.conn) -> Down
    [] OTHER -> [c EXCEPT !.destroyed = TRUE, !.closed = TRUE, !.live = @ \ {c.conn},
                          !.consuming = @ \ {c.conn}]

\* publish() does not throw.
Publishable(c) == ~c.closed /\ c.pub # 0 /\ c.pub \in c.live

\* Connected, with a channel of this connection to publish on, and consuming.
Usable(s) ==
  LET c == client[s]
  IN  /\ c.up /\ ~c.closed /\ c.conn \in c.live
      /\ s \in Publishers => c.pub = c.conn /\ c.opening = {} /\ c.declaring = {}
      /\ s \in Listeners => c.conn \in c.consuming

------------------------------------------------------------------------------
(* Steps of one client *)

ClientInit == client = [s \in Services |-> Boot(s)]

\* A failed attempt to connect sleeps and is made again: no change.
Connects(s, k, n) ==
  /\ k \in client[s].dialing
  /\ n \notin client[s].live /\ n # client[s].pub
  /\ \A m \in Connections : m < n => m \in client[s].live \/ m = client[s].pub
  /\ client' = [client EXCEPT ![s] = Connect(@, k, n)]

OpensChannel(s, o) ==
  /\ o \in client[s].opening
  /\ o[2] \in client[s].live
  /\ client' = [client EXCEPT ![s] = ChannelOpened(s, @, o)]

Subscribes(s, o) ==
  /\ o \in client[s].declaring
  /\ o[2] \in client[s].live
  /\ client' = [client EXCEPT ![s] = QueueDeclared(@, o)]

ClientStep(s) ==
  \/ \E k \in Callbacks, n \in Connections : Connects(s, k, n)
  \/ \E o \in Callbacks \X Connections : OpensChannel(s, o)

\* The broker closes a connection in an orderly way.
Closes(s, n) ==
  /\ n \in client[s].live
  /\ ~Awaited(client[s], n)
  /\ client' = [client EXCEPT ![s] = Closed(@, n)]

\* A connection breaks, or ends with a callback pending.
Crashes(s) ==
  /\ client[s].live # {}
  /\ client' = [client EXCEPT ![s] = Down]

Interrupted(s) ==
  /\ client[s].up /\ ~client[s].destroyed
  /\ client' = [client EXCEPT ![s] = Cleanup(@)]

Restarts(s) ==
  /\ ~client[s].up
  /\ client' = [client EXCEPT ![s] = Boot(s)]

------------------------------------------------------------------------------
(* Properties *)

\* However connections end, a process has one connection or one attempt to get
\* one: reconnections neither pile up nor die out.  All its pending callbacks
\* are about that connection.
OneConnection ==
  \A s \in Services :
    LET c == client[s]
    IN  c.up /\ ~c.destroyed =>
          \/ /\ c.closed /\ c.live = {} /\ \E k \in Callbacks : c.dialing = {k}
             /\ c.opening = {} /\ c.declaring = {}
          \/ /\ ~c.closed /\ c.live = {c.conn} /\ c.dialing = {}
             /\ \A o \in c.opening \cup c.declaring : o[2] = c.conn

\* connectionClosed says nothing about pubChannel, which can belong to an earlier
\* connection so that publish() throws: but then its successor is on its way.
StaleChannelIsReplaced ==
  \A s \in Publishers :
    LET c == client[s]
    IN  c.up /\ ~c.destroyed /\ ~c.closed /\ c.pub # c.conn => c.opening # {}

==============================================================================
