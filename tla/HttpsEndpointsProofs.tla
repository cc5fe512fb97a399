------------------------- MODULE HttpsEndpointsProofs -------------------------
(***************************************************************************)
(* Proofs about module HttpsEndpoints.  First the AMQP clients: whatever   *)
(* breaks, a process has one connection or one attempt to get one, and a   *)
(* channel of a past connection is about to be replaced.  Then the         *)
(* messages: a parcel is in one place and leaves the resolver before it    *)
(* gets the next of its message, and what was accepted while the services  *)
(* were usable goes on to its AAS.                                         *)
(***************************************************************************)
EXTENDS HttpsEndpoints, TLAPS

\* The conditions a process can be in; it is silent after SIGINT only.
Seeking(c) ==
  /\ c.closed /\ c.live = {} /\ \E k \in Callbacks : c.dialing = {k}
  /\ c.opening = {} /\ c.declaring = {}

Connected(c) ==
  /\ ~c.closed /\ c.conn # 0 /\ c.live = {c.conn} /\ c.dialing = {}
  /\ \A o \in c.opening \cup c.declaring : o[2] = c.conn

Silent(c) ==
  /\ c.destroyed
  /\ c.live = {} /\ c.dialing = {} /\ c.opening = {} /\ c.declaring = {}

\* Who dials in order to listen has subscribed, so that a channel is opened as
\* soon as there is a connection.
SubscribedFirst(c) == "listen" \in c.dialing => c.subscribed

Replaced(s, c) == s \in Publishers /\ ~c.closed /\ c.pub # c.conn => c.opening # {}

ClientInv(s, c) ==
  /\ c \in Client
  /\ c.up => (Seeking(c) \/ Connected(c) \/ Silent(c)) /\ SubscribedFirst(c) /\ Replaced(s, c)

------------------------------------------------------------------------------
(* Every callback keeps a client in one of the two conditions *)

LEMMA ConnectionNumbers == 0 \notin Connections /\ Connections \subseteq Nat
BY AmqpTsAssumption DEF Connections

LEMMA DownIsSafe == ASSUME NEW s \in Services PROVE ClientInv(s, Down)
BY DEF ClientInv, Down, NewClient, Client

LEMMA BootIsSafe == ASSUME NEW s \in Services PROVE ClientInv(s, Boot(s))
<1>1. NewClient \in Client /\ NewClient.conn = 0 /\ NewClient.closed
  BY DEF NewClient, Client
<1>2. CASE s \in Publishers
  <2>1. Boot(s) = [NewClient EXCEPT !.dialing = {"publish"}]
    BY <1>1, <1>2 DEF Boot, SetupPublishing, NotConnected, Dial, NewClient
  <2> DEFINE new == [NewClient EXCEPT !.dialing = {"publish"}]
  <2>2. new \in Client /\ new.closed /\ new.dialing = {"publish"} /\ "publish" \in Callbacks
    BY <1>1 DEF NewClient, Client, Callbacks
  <2>3. new.live = {} /\ new.opening = {} /\ new.declaring = {}
    BY DEF NewClient
  <2> HIDE DEF new
  <2>4. Seeking(new) /\ SubscribedFirst(new) /\ Replaced(s, new)
    BY <2>2, <2>3 DEF Seeking, SubscribedFirst, Replaced
  <2> QED
    BY <2>1, <2>2, <2>4 DEF ClientInv, new
<1>3. CASE s \notin Publishers
  <2>1. Boot(s) = [NewClient EXCEPT !.subscribed = TRUE, !.dialing = {"listen"}]
    BY <1>1, <1>3 DEF Boot, StartListening, ConnectAndDoSubscription, NotConnected, Dial, NewClient
  <2> DEFINE new == [NewClient EXCEPT !.subscribed = TRUE, !.dialing = {"listen"}]
  <2>2. /\ new \in Client /\ new.closed /\ new.subscribed /\ new.dialing = {"listen"}
        /\ "listen" \in Callbacks
    BY <1>1 DEF NewClient, Client, Callbacks
  <2>3. new.live = {} /\ new.opening = {} /\ new.declaring = {}
    BY DEF NewClient
  <2> HIDE DEF new
  <2>4. Seeking(new) /\ SubscribedFirst(new) /\ Replaced(s, new)
    BY <1>3, <2>2, <2>3 DEF Seeking, SubscribedFirst, Replaced
  <2> QED
    BY <2>1, <2>2, <2>4 DEF ClientInv, new
<1> QED
  BY <1>2, <1>3

\* Opening a channel on a connection that is there.
LEMMA OpenChannelIsSafe ==
  ASSUME NEW s \in Services, NEW c, c \in Client, NEW k \in Callbacks,
         c.conn # 0,
         c.up => Connected(c)
  PROVE  ClientInv(s, OpenChannel(c, k))
<1> DEFINE new == [c EXCEPT !.opening = @ \cup {<<k, c.conn>>}]
<1>1. <<k, c.conn>> \in Callbacks \X Connections
  BY DEF Client
<1>2. new \in Client /\ new.opening = c.opening \cup {<<k, c.conn>>}
  BY <1>1 DEF Client
<1>3. /\ new.up = c.up /\ new.destroyed = c.destroyed /\ new.subscribed = c.subscribed
      /\ new.closed = c.closed /\ new.conn = c.conn /\ new.live = c.live
      /\ new.dialing = c.dialing /\ new.declaring = c.declaring
  BY DEF Client
<1>4. OpenChannel(c, k) = new
  BY DEF OpenChannel
<1> HIDE DEF new
<1>5. ASSUME new.up PROVE Connected(new) /\ SubscribedFirst(new) /\ Replaced(s, new)
  <2>1. Connected(c)
    BY <1>3, <1>5
  <2>2. <<k, c.conn>>[2] = new.conn
    BY <1>3
  <2>3. \A o \in new.opening \cup new.declaring : o[2] = new.conn
    BY <2>1, <2>2, <1>2, <1>3 DEF Connected
  <2>4. Connected(new)
    BY <2>1, <2>3, <1>3 DEF Connected
  <2>5. SubscribedFirst(new)
    BY <2>1, <1>3 DEF Connected, SubscribedFirst
  <2>6. Replaced(s, new)
    BY <1>2 DEF Replaced
  <2> QED
    BY <2>4, <2>5, <2>6
<1> QED
  BY <1>2, <1>4, <1>5 DEF ClientInv

LEMMA SetupPublishingIsSafe ==
  ASSUME NEW s \in Services, NEW c, c \in Client, NEW k \in Callbacks,
         c.up => Connected(c)
  PROVE  k # "listen" => ClientInv(s, SetupPublishing(c, k))
<1>1. CASE ~NotConnected(c)
  BY <1>1, OpenChannelIsSafe DEF SetupPublishing, NotConnected
<1>2. CASE NotConnected(c)
  <2>1. ~c.up
    BY <1>2 DEF Connected, NotConnected
  <2> QED
    BY <1>2, <2>1 DEF SetupPublishing, Dial, ClientInv, Client
<1> QED
  BY <1>1, <1>2

\* What doSubscription does on a connection that is there.
LEMMA DoSubscriptionIsSafe ==
  ASSUME NEW s \in Services, NEW c, c \in Client, NEW k \in Callbacks,
         c.conn # 0, ~c.closed,
         c.up => Connected(c),
         s \in Publishers => c.pub = c.conn \/ c.opening # {} \/ c.subscribed \/ k = "reconnect"
  PROVE  ClientInv(s, DoSubscription(c, k))
<1>1. CASE c.subscribed
  <2>1. DoSubscription(c, k) = OpenChannel(c, k)
    BY <1>1 DEF DoSubscription
  <2> QED
    BY <2>1, OpenChannelIsSafe
<1>2. CASE ~c.subscribed /\ k = "reconnect"
  <2>1. DoSubscription(c, k) = OpenChannel(c, "republish")
    BY <1>2 DEF DoSubscription, AfterSubscription, SetupPublishing, NotConnected
  <2>2. "republish" \in Callbacks
    BY DEF Callbacks
  <2> QED
    BY <2>1, <2>2, OpenChannelIsSafe
<1>3. CASE ~c.subscribed /\ k # "reconnect"
  <2>1. DoSubscription(c, k) = c
    BY <1>3 DEF DoSubscription, AfterSubscription
  <2> QED
    BY <1>3, <2>1 DEF ClientInv, Connected, SubscribedFirst, Replaced
<1> QED
  BY <1>1, <1>2, <1>3

\* A dial that succeeds: the only way to a connection.
LEMMA ConnectIsSafe ==
  ASSUME NEW s \in Services, NEW c, ClientInv(s, c), NEW k \in c.dialing,
         NEW n \in Connections
  PROVE  ClientInv(s, Connect(c, k, n))
<1> DEFINE new == [c EXCEPT !.conn = n, !.closed = FALSE, !.live = @ \cup {n}, !.dialing = @ \ {k}]
<1>1. c \in Client /\ k \in Callbacks
  BY DEF ClientInv, Client
<1>2. new \in Client /\ new.conn = n /\ new.conn # 0 /\ ~new.closed
  BY <1>1, ConnectionNumbers DEF Client
<1>3. new.live = c.live \cup {n} /\ new.dialing = c.dialing \ {k} /\ new.subscribed = c.subscribed
  BY <1>1 DEF Client
<1>4. new.opening = c.opening /\ new.declaring = c.declaring /\ new.up = c.up
  BY <1>1 DEF Client
<1>5. ASSUME new.up PROVE Connected(new) /\ Seeking(c) /\ SubscribedFirst(c)
  <2>1. Seeking(c) /\ SubscribedFirst(c)
    BY <1>4, <1>5 DEF ClientInv, Connected, Silent
  <2>2. new.live = {n} /\ new.dialing = {} /\ new.opening = {} /\ new.declaring = {}
    BY <2>1, <1>3, <1>4 DEF Seeking
  <2> QED
    BY <2>1, <2>2, <1>2 DEF Connected
<1> HIDE DEF new
<1>6. CASE k \in {"publish", "republish"}
  <2>1. Connect(c, k, n) = OpenChannel(new, k)
    BY <1>6 DEF Connect, new
  <2> QED
    BY <2>1, <1>1, <1>2, <1>5, OpenChannelIsSafe
<1>7. CASE k \notin {"publish", "republish"}
  <2>1. Connect(c, k, n) = DoSubscription(new, k)
    BY <1>7 DEF Connect, new
  <2>2. CASE new.up
    <3>1. new.subscribed \/ k = "reconnect"
      BY <1>1, <1>3, <1>5, <1>7, <2>2 DEF SubscribedFirst, Callbacks
    <3> QED
      BY <2>1, <3>1, <1>1, <1>2, <1>5, DoSubscriptionIsSafe
  <2>3. CASE ~new.up
    <3>1. Connect(c, k, n) \in {new, OpenChannel(new, k), OpenChannel(new, "republish")}
      BY <1>2, <2>1 DEF DoSubscription, AfterSubscription, SetupPublishing, NotConnected
    <3>2. ClientInv(s, new)
      BY <1>2, <2>3 DEF ClientInv
    <3>3. "republish" \in Callbacks
      BY DEF Callbacks
    <3> QED
      BY <1>1, <1>2, <2>3, <3>1, <3>2, <3>3, OpenChannelIsSafe
  <2> QED
    BY <2>2, <2>3
<1> QED
  BY <1>6, <1>7
\* A channel that is opened becomes the one to publish on.
LEMMA ChannelOpenedIsSafe ==
  ASSUME NEW s \in Services, NEW c, ClientInv(s, c), NEW o \in c.opening
  PROVE  ClientInv(s, ChannelOpened(s, c, o))
<1> DEFINE new == [c EXCEPT !.pub = o[2], !.opening = @ \ {o}]
<1>1. c \in Client /\ o \in Callbacks \X Connections
  BY DEF ClientInv, Client
<1>2. new \in Client /\ new.pub = o[2] /\ new.opening = c.opening \ {o}
  BY <1>1 DEF Client
<1>3. /\ new.up = c.up /\ new.destroyed = c.destroyed /\ new.subscribed = c.subscribed
      /\ new.closed = c.closed /\ new.conn = c.conn /\ new.live = c.live
      /\ new.dialing = c.dialing /\ new.declaring = c.declaring
  BY <1>1 DEF Client
<1> HIDE DEF new
<1>4. ASSUME new.up PROVE Connected(new) /\ new.pub = new.conn /\ new.dialing = {}
  <2>1. Connected(c) /\ o[2] = c.conn
    BY <1>3, <1>4 DEF ClientInv, Seeking, Connected, Silent
  <2> QED
    BY <2>1, <1>2, <1>3 DEF Connected
<1>5. ClientInv(s, new)
  BY <1>2, <1>4 DEF ClientInv, SubscribedFirst, Replaced
<1>6. CASE o[1] \in {"listen", "reconnect"}
  <2> DEFINE next == [new EXCEPT !.declaring = @ \cup {o}]
  <2>1. ChannelOpened(s, c, o) = next
    BY <1>6 DEF ChannelOpened, new
  <2>2. next \in Client /\ next.declaring = new.declaring \cup {o}
    BY <1>1, <1>2 DEF Client
  <2>3. /\ next.up = new.up /\ next.destroyed = new.destroyed /\ next.closed = new.closed
        /\ next.conn = new.conn /\ next.live = new.live /\ next.dialing = new.dialing
        /\ next.opening = new.opening /\ next.pub = new.pub
    BY <1>2 DEF Client
  <2> HIDE DEF next
  <2>4. ASSUME next.up PROVE Connected(next) /\ SubscribedFirst(next) /\ Replaced(s, next)
    <3>1. Connected(new) /\ new.pub = new.conn /\ new.dialing = {}
      BY <1>4, <2>3, <2>4
    <3>2. o[2] = next.conn
      BY <3>1, <1>2, <2>3
    <3>3. Connected(next)
      BY <3>1, <3>2, <2>2, <2>3 DEF Connected
    <3> QED
      BY <3>1, <3>3, <2>3 DEF SubscribedFirst, Replaced
  <2> QED
    BY <2>1, <2>2, <2>4 DEF ClientInv
<1>7. CASE o[1] = "publish" /\ s \in Listeners
  <2> DEFINE sub == [new EXCEPT !.subscribed = TRUE]
  <2>1. ChannelOpened(s, c, o) = ConnectAndDoSubscription(sub, "listen")
    BY <1>7 DEF ChannelOpened, StartListening, new
  <2>2. sub \in Client /\ sub.subscribed /\ "listen" \in Callbacks
    BY <1>2 DEF Client, Callbacks
  <2>3. /\ sub.up = new.up /\ sub.destroyed = new.destroyed /\ sub.closed = new.closed
        /\ sub.conn = new.conn /\ sub.live = new.live /\ sub.dialing = new.dialing
        /\ sub.opening = new.opening /\ sub.declaring = new.declaring
    BY <1>2 DEF Client
  <2> HIDE DEF sub
  <2>4. sub.up => Connected(sub)
    BY <1>4, <2>3 DEF Connected
  <2>5. CASE NotConnected(sub)
    <3>1. ~sub.up
      BY <2>4, <2>5 DEF NotConnected, Connected
    <3>2. ConnectAndDoSubscription(sub, "listen") = Dial(sub, "listen")
      BY <2>5 DEF ConnectAndDoSubscription
    <3> QED
      BY <2>1, <2>2, <3>1, <3>2 DEF Dial, ClientInv, Client
  <2>6. CASE ~NotConnected(sub)
    <3>1. ConnectAndDoSubscription(sub, "listen") = DoSubscription(sub, "listen")
      BY <2>6 DEF ConnectAndDoSubscription
    <3> QED
      BY <2>1, <2>2, <2>4, <2>6, <3>1, DoSubscriptionIsSafe DEF NotConnected
  <2> QED
    BY <2>5, <2>6
<1>8. CASE o[1] \notin {"listen", "reconnect"} /\ ~(o[1] = "publish" /\ s \in Listeners)
  <2>1. ChannelOpened(s, c, o) = new
    BY <1>8 DEF ChannelOpened, new
  <2> QED
    BY <2>1, <1>5
<1> QED
  BY <1>6, <1>7, <1>8

\* A subscription that is complete.
LEMMA QueueDeclaredIsSafe ==
  ASSUME NEW s \in Services, NEW c, ClientInv(s, c), NEW o \in c.declaring
  PROVE  ClientInv(s, QueueDeclared(c, o))
<1> DEFINE new == [c EXCEPT !.declaring = @ \ {o}, !.consuming = @ \cup {o[2]}]
<1>1. c \in Client /\ o \in Callbacks \X Connections
  BY DEF ClientInv, Client
<1>2. new \in Client /\ new.declaring = c.declaring \ {o}
  BY <1>1 DEF Client
<1>3. /\ new.up = c.up /\ new.destroyed = c.destroyed /\ new.subscribed = c.subscribed
      /\ new.closed = c.closed /\ new.conn = c.conn /\ new.live = c.live
      /\ new.dialing = c.dialing /\ new.opening = c.opening /\ new.pub = c.pub
  BY <1>1 DEF Client
<1>4. QueueDeclared(c, o) = AfterSubscription(new, o[1])
  BY DEF QueueDeclared
<1> HIDE DEF new
<1>5. ASSUME new.up PROVE Connected(new)
  <2>1. Connected(c)
    BY <1>3, <1>5 DEF ClientInv, Seeking, Silent
  <2> QED
    BY <2>1, <1>2, <1>3 DEF Connected
<1>6. ClientInv(s, new)
  BY <1>2, <1>3, <1>5 DEF ClientInv, SubscribedFirst, Replaced
<1>7. "republish" \in Callbacks /\ "republish" # "listen"
  BY DEF Callbacks
<1>8. AfterSubscription(new, o[1]) \in {new, SetupPublishing(new, "republish")}
  BY DEF AfterSubscription
<1> QED
  BY <1>2, <1>4, <1>5, <1>6, <1>7, <1>8, SetupPublishingIsSafe

\* The handler of 'close' dials again; nothing is left that waits for the
\* connection that ended.
LEMMA ClosedIsSafe ==
  ASSUME NEW s \in Services, NEW c, ClientInv(s, c), NEW n \in c.live, ~Awaited(c, n)
  PROVE  ClientInv(s, Closed(c, n))
<1> DEFINE rest == [c EXCEPT !.live = @ \ {n}, !.consuming = @ \ {n}]
           new == [rest EXCEPT !.closed = TRUE, !.dialing = @ \cup {"reconnect"}]
<1>1. c \in Client /\ "reconnect" \in Callbacks
  BY DEF ClientInv, Callbacks
<1>2. rest \in Client /\ rest.destroyed = c.destroyed
  BY <1>1 DEF Client
<1>3. CASE c.destroyed
  <2>1. Closed(c, n) = rest
    BY <1>3 DEF Closed
  <2>2. /\ rest.up = c.up /\ rest.live = c.live \ {n} /\ rest.dialing = c.dialing
        /\ rest.opening = c.opening /\ rest.declaring = c.declaring /\ rest.conn = c.conn
        /\ rest.pub = c.pub /\ rest.closed = c.closed /\ rest.subscribed = c.subscribed
    BY <1>1 DEF Client
  <2> HIDE DEF rest
  <2>3. ASSUME rest.up PROVE Connected(c) /\ n = c.conn
    BY <2>2, <2>3 DEF ClientInv, Seeking, Silent, Connected
  <2>4. ASSUME rest.up PROVE Silent(rest)
    BY <1>2, <1>3, <2>2, <2>3, <2>4 DEF Connected, Awaited, Silent
  <2>5. rest.up => Silent(rest) /\ SubscribedFirst(rest) /\ Replaced(s, rest)
    BY <2>2, <2>4 DEF ClientInv, SubscribedFirst, Replaced
  <2> QED
    BY <2>1, <2>5, <1>2 DEF ClientInv
<1>4. CASE ~c.destroyed
  <2>1. Closed(c, n) = new
    BY <1>2, <1>4 DEF Closed, ConnectAndDoSubscription, NotConnected, Dial, Client
  <2>2. new \in Client /\ new.closed /\ new.dialing = c.dialing \cup {"reconnect"}
    BY <1>1 DEF Client
  <2>3. /\ new.up = c.up /\ new.destroyed = c.destroyed /\ new.live = c.live \ {n}
        /\ new.opening = c.opening /\ new.declaring = c.declaring
    BY <1>1 DEF Client
  <2> HIDE DEF new
  <2>4. ASSUME new.up PROVE Seeking(new) /\ SubscribedFirst(new) /\ Replaced(s, new)
    <3>1. Connected(c)
      BY <2>3, <2>4 DEF ClientInv, Seeking, Silent
    <3>2. n = c.conn /\ new.live = {} /\ new.dialing = {"reconnect"}
      BY <3>1, <2>2, <2>3 DEF Connected
    <3>3. new.opening = {} /\ new.declaring = {}
      BY <3>1, <3>2, <2>3 DEF Connected, Awaited
    <3> QED
      BY <1>1, <2>2, <3>2, <3>3 DEF Seeking, SubscribedFirst, Replaced
  <2> QED
    BY <2>1, <2>2, <2>4 DEF ClientInv
<1> QED
  BY <1>3, <1>4

\* SIGINT.
LEMMA CleanupIsSafe ==
  ASSUME NEW s \in Services, NEW c, ClientInv(s, c)
  PROVE  ClientInv(s, Cleanup(c))
<1>1. c \in Client
  BY DEF ClientInv
<1> DEFINE last == [c EXCEPT !.destroyed = TRUE]
           shut == [c EXCEPT !.destroyed = TRUE, !.closed = TRUE, !.live = @ \ {c.conn},
                             !.consuming = @ \ {c.conn}]
<1>2. CASE c.closed
  <2>1. Cleanup(c) = last
    BY <1>2 DEF Cleanup
  <2>2. last \in Client /\ last.destroyed
    BY <1>1 DEF Client
  <2>3. /\ last.up = c.up /\ last.live = c.live /\ last.dialing = c.dialing
        /\ last.opening = c.opening /\ last.declaring = c.declaring /\ last.conn = c.conn
        /\ last.pub = c.pub /\ last.closed = c.closed /\ last.subscribed = c.subscribed
    BY <1>1 DEF Client
  <2> HIDE DEF last
  <2>4. last.up => Seeking(last) \/ Silent(last)
    BY <1>2, <2>2, <2>3 DEF ClientInv, Seeking, Connected, Silent
  <2>5. last.up => SubscribedFirst(last) /\ Replaced(s, last)
    BY <2>3 DEF ClientInv, SubscribedFirst, Replaced
  <2> QED
    BY <2>1, <2>2, <2>4, <2>5 DEF ClientInv
<1>3. CASE ~c.closed /\ Awaited(c, c.conn)
  BY <1>3, DownIsSafe DEF Cleanup
<1>4. CASE ~c.closed /\ ~Awaited(c, c.conn)
  <2>1. Cleanup(c) = shut
    BY <1>4 DEF Cleanup
  <2>2. shut \in Client /\ shut.destroyed /\ shut.closed
    BY <1>1 DEF Client
  <2>3. /\ shut.up = c.up /\ shut.live = c.live \ {c.conn} /\ shut.dialing = c.dialing
        /\ shut.opening = c.opening /\ shut.declaring = c.declaring
    BY <1>1 DEF Client
  <2> HIDE DEF shut
  <2>4. shut.up => Silent(shut)
    BY <1>4, <2>2, <2>3 DEF ClientInv, Seeking, Connected, Silent, Awaited
  <2>5. shut.up => SubscribedFirst(shut) /\ Replaced(s, shut)
    BY <2>2, <2>4 DEF Silent, SubscribedFirst, Replaced
  <2> QED
    BY <2>1, <2>2, <2>4, <2>5 DEF ClientInv
<1> QED
  BY <1>2, <1>3, <1>4

------------------------------------------------------------------------------
(* The clients of all services *)

ClientsInv == client \in [Services -> Client] /\ \A s \in Services : ClientInv(s, client[s])

\* One client that changes safely leaves all of them safe.
LEMMA OneChanges ==
  ASSUME ClientsInv, NEW s \in Services, NEW c, ClientInv(s, c),
         client' = [client EXCEPT ![s] = c]
  PROVE  ClientsInv'
BY DEF ClientsInv, ClientInv

LEMMA ClientsInitially == ASSUME Init PROVE ClientsInv
BY BootIsSafe DEF Init, ClientInit, ClientsInv, ClientInv

LEMMA ClientsStep == ASSUME ClientsInv, [Next]_vars PROVE ClientsInv'
<1>1. ASSUME NEW s \in Services, Works(s) PROVE ClientsInv'
  <2>1. CASE \E k \in Callbacks, n \in Connections : Connects(s, k, n)
    BY <2>1, ConnectIsSafe, OneChanges DEF Connects, ClientsInv
  <2>2. CASE \E o \in Callbacks \X Connections : OpensChannel(s, o)
    BY <2>2, ChannelOpenedIsSafe, OneChanges DEF OpensChannel, ClientsInv
  <2> QED
    BY <1>1, <2>1, <2>2 DEF Works, ClientStep
<1>2. ASSUME NEW s \in Services, NEW o, Subscribe(s, o) PROVE ClientsInv'
  BY <1>2, QueueDeclaredIsSafe, OneChanges DEF Subscribe, Subscribes, ClientsInv
<1>3. ASSUME NEW s \in Services, Disconnect(s) PROVE ClientsInv'
  BY <1>3, ClosedIsSafe, OneChanges DEF Disconnect, Closes, ClientsInv
<1>4. ASSUME NEW s \in Services, Crash(s) PROVE ClientsInv'
  BY <1>4, DownIsSafe, OneChanges DEF Crash, Crashes
<1>5. ASSUME NEW s \in Services, Interrupt(s) PROVE ClientsInv'
  BY <1>5, CleanupIsSafe, OneChanges DEF Interrupt, Interrupted, ClientsInv
<1>6. ASSUME NEW s \in Services, Restart(s) PROVE ClientsInv'
  BY <1>6, BootIsSafe, OneChanges DEF Restart, Restarts
<1>7. ASSUME BrokerRestarts PROVE ClientsInv'
  <2> SUFFICES ASSUME NEW s \in Services PROVE ClientInv(s, client'[s])
    BY <1>7 DEF BrokerRestarts, ClientsInv, ClientInv
  <2>1. ClientInv(s, client[s])
    BY DEF ClientsInv
  <2>2. CASE client[s].live = {}
    BY <1>7, <2>1, <2>2 DEF BrokerRestarts
  <2>3. CASE \E n \in client[s].live : Awaited(client[s], n)
    <3>1. client'[s] = Down
      BY <1>7, <2>3 DEF BrokerRestarts
    <3> QED
      BY <3>1, DownIsSafe
  <2>4. CASE client[s].live # {} /\ \A n \in client[s].live : ~Awaited(client[s], n)
    <3>1. PICK n \in client[s].live : client'[s] = Closed(client[s], n)
      BY <1>7, <2>4 DEF BrokerRestarts
    <3> QED
      BY <2>1, <2>4, <3>1, ClosedIsSafe
  <2> QED
    BY <2>2, <2>3, <2>4
<1>8. ASSUME UNCHANGED client PROVE ClientsInv'
  BY <1>8 DEF ClientsInv
<1>9. CASE Progress
  <2>1. ASSUME NEW s \in Services, NEW n, NEW m, Route(s, n, m) \/ Deliver(s, n, m) \/ Receive(s, n, m)
        PROVE  UNCHANGED client
    BY <2>1 DEF Route, Deliver, Receive
  <2>2. ASSUME NEW p, Reply(p) \/ Take(p) \/ Resolve(p) \/ Acknowledge(p) \/ Forward(p)
        PROVE  UNCHANGED client
    BY <2>2 DEF Reply, Take, Resolve, Acknowledge, Forward
  <2> QED
    BY <1>1, <1>2, <1>6, <1>8, <1>9, <2>1, <2>2 DEF Progress
<1>10. CASE Faults
  <2>1. ASSUME NEW p, Unresolved(p) \/ ForwardFails(p) \/ ResolverBreaks PROVE UNCHANGED client
    BY <2>1 DEF Unresolved, ForwardFails, ResolverBreaks
  <2> QED
    BY <1>3, <1>4, <1>5, <1>7, <1>8, <1>10, <2>1 DEF Faults
<1>11. CASE \E m \in Messages : Post(m)
  BY <1>8, <1>11 DEF Post, PostRefused, PostUnsent, PostThrows, PostPublished, Answer
<1>12. CASE ResolverListens \/ UNCHANGED vars
  BY <1>8, <1>12 DEF ResolverListens, vars
<1> QED
  BY <1>9, <1>10, <1>11, <1>12 DEF Next

LEMMA ClientsAlways == Spec => []ClientsInv
BY ClientsInitially, ClientsStep, PTL DEF Spec

\* Whatever breaks, however often: a process has one connection or one attempt
\* to get one, and its callbacks wait for that connection only.
THEOREM OneConnectionHolds == Spec => []OneConnection
<1>1. ClientsInv => OneConnection
  BY DEF ClientsInv, ClientInv, OneConnection, Seeking, Connected, Silent
<1> QED
  BY <1>1, ClientsAlways, PTL

\* Whatever breaks, a channel to publish on that outlived its connection is
\* about to be replaced.
THEOREM StaleChannelIsReplacedHolds == Spec => []StaleChannelIsReplaced
<1>1. ClientsInv => StaleChannelIsReplaced
  BY HttpsAssumption DEF ClientsInv, ClientInv, StaleChannelIsReplaced, Replaced
<1> QED
  BY <1>1, ClientsAlways, PTL
------------------------------------------------------------------------------
(* A parcel is in one place, and the resolver gets one again only when the   *)
(* one before is not on its way to it any more.                              *)

\* The places a parcel is at, each with who publishes, reads or handles it there.
\* What is in the queue of an earlier start of the skill nobody will read.
Places(p) ==
  ({"outgoing"} \X {w \in outgoing : w[3] = p})
    \cup ({"incoming"} \X {w \in incoming : w[3] = p})
    \cup ({"handled"} \X {h \in handled : h[2] = p})
    \cup ({"queued"} \X {q \in LiveQueues : <<q, p>> \in queued})

\* It is in one of them until the AAS has it.
InOnePlace(p) ==
  /\ \A a, b \in Places(p) : a = b
  /\ Places(p) # {} => posts[p] = 0
  /\ posts[p] \in {0, 1}

\* The places before the resolver has it.
Upstream(place) ==
  \/ place[2][1] \in {"ingress", "skill"}
  \/ place[1] = "queued" /\ place[2][1] = "resolver"

Leading(p) == p \in unacked \/ \E place \in Places(p) : Upstream(place)

Fresh(p) == Places(p) = {} /\ posts[p] = 0 /\ p \notin unacked

\* While a parcel is on its way to the resolver, or not settled by it, there is no
\* later one of its message.  As many as the breaks of the resolver there can be, and
\* none of a message without an answer, or with a bad one.
InOrder(p) ==
  /\ Leading(p) => \A q \in Parcels : q[1] = p[1] /\ q[2] > p[2] => Fresh(q)
  /\ p \in unacked => \A place \in Places(p) : ~Upstream(place)
  /\ ~Fresh(p) => p[2] <= breaks /\ answer[p[1]] = "ok"

\* The queue the skill declares when it starts once more is a new one.
NumberedQueues ==
  /\ boots \in Nat
  /\ \A q \in bound : q[1] = "skill" => q[2] \in 0 .. boots
  /\ \A r \in queued : r[1][1] = "skill" => r[1][2] \in 0 .. boots

FlowInv ==
  /\ NumberedQueues
  /\ answer \in [Messages -> {"none", "ok", "refused", "error"}]
  /\ posts \in [Parcels -> Nat]
  /\ unacked \subseteq Parcels
  /\ breaks \in Nat
  /\ \A p \in Parcels : InOnePlace(p) /\ InOrder(p)

\* What a step may do to a parcel, unless it makes a new one.
Kept(p) ==
  /\ InOnePlace(p)'
  /\ Fresh(p) => Fresh(p)'
  /\ Leading(p)' => Leading(p)
  /\ p \in unacked' => p \in unacked /\ \A place \in Places(p)' : ~Upstream(place)

LEMMA FlowInitially == ASSUME Init PROVE FlowInv
<1>1. ASSUME NEW p \in Parcels PROVE Places(p) = {} /\ posts[p] = 0 /\ p \notin unacked
  BY DEF Init, Places
<1>2. ASSUME NEW p \in Parcels PROVE InOnePlace(p) /\ InOrder(p)
  BY <1>1 DEF InOnePlace, InOrder, Leading, Fresh
<1> QED
  BY <1>2 DEF Init, FlowInv, NumberedQueues

\* A step that keeps every parcel keeps the flow.
LEMMA KeptInOrder ==
  ASSUME FlowInv, NumberedQueues', posts' \in [Parcels -> Nat], \A p \in Parcels : Kept(p),
         UNCHANGED <<answer, breaks>>, unacked' \subseteq Parcels
  PROVE  FlowInv'
<1> SUFFICES ASSUME NEW p \in Parcels PROVE InOnePlace(p)' /\ InOrder(p)'
  BY DEF FlowInv
<1>1. InOrder(p) /\ Kept(p)
  BY DEF FlowInv
<1>2. Leading(p)' => \A q \in Parcels : q[1] = p[1] /\ q[2] > p[2] => Fresh(q)'
  BY <1>1 DEF InOrder, Kept
<1>3. p \in unacked' => \A place \in Places(p)' : ~Upstream(place)
  BY <1>1 DEF Kept
<1>4. ~Fresh(p)' => p[2] <= breaks' /\ answer'[p[1]] = "ok"
  BY <1>1 DEF InOrder, Kept
<1> QED
  BY <1>1, <1>2, <1>3, <1>4 DEF InOrder, Kept

\* Losing places is safe, and so is staying.
LEMMA LosingIsSafe ==
  ASSUME NEW p \in Parcels, InOnePlace(p), InOrder(p), Places(p)' \subseteq Places(p),
         posts'[p] = posts[p], p \in unacked' => p \in unacked
  PROVE  Kept(p)
BY DEF InOnePlace, InOrder, Kept, Fresh, Leading

\* So is going from one place to another, unless back.
LEMMA MovingIsSafe ==
  ASSUME NEW p \in Parcels, InOnePlace(p), InOrder(p), NEW from \in Places(p), NEW to,
         Places(p)' \subseteq (Places(p) \ {from}) \cup {to},
         Upstream(to) => Upstream(from),
         UNCHANGED posts, p \in unacked' => p \in unacked
  PROVE  Kept(p)
<1>1. InOnePlace(p)'
  BY DEF InOnePlace
<1>2. \A place \in Places(p)' : Upstream(place) => Upstream(from)
  BY DEF InOnePlace
<1>3. ~Fresh(p) /\ (Leading(p)' => Leading(p))
  BY <1>2 DEF Fresh, Leading
<1> QED
  BY <1>1, <1>2, <1>3 DEF Kept, InOrder

\* So is arriving, with or without a POST that the AAS received.
LEMMA ArrivingIsSafe ==
  ASSUME NEW p \in Parcels, InOnePlace(p), InOrder(p), NEW from \in Places(p),
         Places(p)' \subseteq Places(p) \ {from},
         posts'[p] \in {posts[p], posts[p] + 1}, p \in unacked' => p \in unacked
  PROVE  Kept(p)
<1>1. Places(p)' = {} /\ posts[p] = 0 /\ ~Fresh(p)
  BY DEF InOnePlace, Fresh
<1> QED
  BY <1>1 DEF InOnePlace, Kept, Leading

\* Most faults take parcels away, and add none.
LEMMA FaultKeepsFlow ==
  ASSUME FlowInv, UNCHANGED <<boots, bound, breaks, answer, posts>>,
         queued' \subseteq queued, outgoing' \subseteq outgoing,
         incoming' \subseteq incoming, handled' \subseteq handled, unacked' \subseteq unacked
  PROVE  FlowInv'
<1>1. NumberedQueues'
  BY DEF FlowInv, NumberedQueues
<1>2. ASSUME NEW p \in Parcels PROVE Kept(p)
  <2>1. Places(p)' \subseteq Places(p)
    BY DEF Places, LiveQueues, Queue
  <2> QED
    BY <2>1, LosingIsSafe DEF FlowInv
<1> QED
  BY <1>1, <1>2, KeptInOrder DEF FlowInv

\* The skill starts again, and reads another queue.
LEMMA RestartKeepsFlow == ASSUME FlowInv, NEW s \in Services, Restart(s) PROVE FlowInv'
<1>1. boots \in Nat /\ boots' \in {boots, boots + 1}
  BY DEF FlowInv, NumberedQueues, Restart
<1>2. NumberedQueues'
  BY <1>1 DEF FlowInv, NumberedQueues, Restart
<1>3. ASSUME NEW p \in Parcels PROVE Kept(p)
  <2>1. <<<<"skill", boots + 1>>, p>> \notin queued
    <3> SUFFICES ASSUME <<<<"skill", boots + 1>>, p>> \in queued PROVE FALSE
      OBVIOUS
    <3>1. boots + 1 \in 0 .. boots
      BY DEF FlowInv, NumberedQueues
    <3> QED
      BY <1>1, <3>1
  <2>2. LiveQueues' \subseteq LiveQueues \cup {<<"skill", boots + 1>>}
    BY <1>1 DEF LiveQueues, Queue
  <2>3. Places(p)' \subseteq Places(p)
    BY <2>1, <2>2 DEF Places, Restart
  <2> QED
    BY <2>3, LosingIsSafe DEF FlowInv, Restart, resolverVars
<1> QED
  BY <1>2, <1>3, KeptInOrder DEF FlowInv, Restart, resolverVars

\* The broker routes to the queue that is read, and maybe to others.
LEMMA RouteKeepsFlow ==
  ASSUME FlowInv, NEW s \in Services, NEW n, NEW p \in Parcels, Route(s, n, p)
  PROVE  FlowInv'
<1> DEFINE from == <<"outgoing", <<s, n, p>>>>
           to == <<"queued", Queue(Receiver(s))>>
<1>1. NumberedQueues'
  BY DEF FlowInv, NumberedQueues, Route, Routed
<1>2. \A q \in LiveQueues : q \in Routed(s) => q = Queue(Receiver(s))
  BY DEF Routed, LiveQueues, Queue
<1>3. Kept(p)
  <2>1. from \in Places(p)
    BY DEF Places, Route
  <2>2. Places(p)' \subseteq (Places(p) \ {from}) \cup {to}
    BY <1>2 DEF Places, Route, LiveQueues, Queue
  <2>3. Upstream(to) => Upstream(from)
    BY HttpsAssumption DEF Upstream, Receiver, Queue
  <2> HIDE DEF to, from
  <2> QED
    BY <2>1, <2>2, <2>3, MovingIsSafe DEF FlowInv, Route, resolverVars
<1>4. ASSUME NEW o \in Parcels \ {p} PROVE Kept(o)
  <2>1. Places(o)' \subseteq Places(o)
    BY DEF Places, Route, LiveQueues, Queue
  <2> QED
    BY <2>1, LosingIsSafe DEF FlowInv, Route, resolverVars
<1> QED
  BY <1>1, <1>3, <1>4, KeptInOrder DEF FlowInv, Route, resolverVars

LEMMA DeliverKeepsFlow ==
  ASSUME FlowInv, NEW s \in Services, NEW n, NEW p \in Parcels, Deliver(s, n, p)
  PROVE  FlowInv'
<1> DEFINE from == <<"queued", Queue(s)>>
           to == <<"incoming", <<s, n, p>>>>
<1>1. NumberedQueues'
  BY DEF FlowInv, NumberedQueues, Deliver
<1>2. Kept(p)
  <2>1. from \in Places(p)
    BY DEF Places, Deliver, LiveQueues, Workers
  <2>2. Places(p)' \subseteq (Places(p) \ {from}) \cup {to}
    BY DEF Places, Deliver, LiveQueues, Queue
  <2>3. Upstream(to) => Upstream(from)
    BY DEF Upstream, Queue
  <2> HIDE DEF to, from
  <2> QED
    BY <2>1, <2>2, <2>3, MovingIsSafe DEF FlowInv, Deliver, resolverVars
<1>3. ASSUME NEW o \in Parcels \ {p} PROVE Kept(o)
  <2>1. Places(o)' \subseteq Places(o)
    BY DEF Places, Deliver, LiveQueues, Queue
  <2> QED
    BY <2>1, LosingIsSafe DEF FlowInv, Deliver, resolverVars
<1> QED
  BY <1>1, <1>2, <1>3, KeptInOrder DEF FlowInv, Deliver, resolverVars

LEMMA ReceiveKeepsFlow ==
  ASSUME FlowInv, NEW s \in Services, NEW n, NEW p \in Parcels, Receive(s, n, p)
  PROVE  FlowInv'
<1> DEFINE from == <<"incoming", <<s, n, p>>>>
           to == <<"handled", <<s, p>>>>
<1>1. NumberedQueues'
  BY DEF FlowInv, NumberedQueues, Receive
<1>2. Kept(p)
  <2>1. from \in Places(p)
    BY DEF Places, Receive
  <2>2. Places(p)' \subseteq (Places(p) \ {from}) \cup {to}
    BY DEF Places, Receive, LiveQueues, Queue
  <2>3. Upstream(to) => Upstream(from)
    BY DEF Upstream
  <2> HIDE DEF to, from
  <2> QED
    BY <2>1, <2>2, <2>3, MovingIsSafe DEF FlowInv, Receive, resolverVars
<1>3. ASSUME NEW o \in Parcels \ {p} PROVE Kept(o)
  <2>1. Places(o)' \subseteq Places(o)
    BY DEF Places, Receive, LiveQueues, Queue
  <2> QED
    BY <2>1, LosingIsSafe DEF FlowInv, Receive, resolverVars
<1> QED
  BY <1>1, <1>2, <1>3, KeptInOrder DEF FlowInv, Receive, resolverVars

LEMMA ReplyKeepsFlow == ASSUME FlowInv, NEW p \in Parcels, Reply(p) PROVE FlowInv'
<1> DEFINE reply == <<"skill", client["skill"].pub, p>>
           from == <<"handled", <<"skill", p>>>>
           to == <<"outgoing", reply>>
<1>1. outgoing' \in {outgoing, outgoing \cup {reply}}
  BY DEF Reply, Publish
<1>2. NumberedQueues'
  BY DEF FlowInv, NumberedQueues, Reply
<1>3. Kept(p)
  <2>1. from \in Places(p)
    BY DEF Places, Reply
  <2>2. Places(p)' \subseteq (Places(p) \ {from}) \cup {to}
    BY <1>1 DEF Places, Reply, LiveQueues, Queue
  <2>3. Upstream(to) => Upstream(from)
    BY DEF Upstream
  <2> HIDE DEF to, from
  <2> QED
    BY <2>1, <2>2, <2>3, MovingIsSafe DEF FlowInv, Reply, resolverVars
<1>4. ASSUME NEW o \in Parcels \ {p} PROVE Kept(o)
  <2>1. Places(o)' \subseteq Places(o)
    BY <1>1 DEF Places, Reply, LiveQueues, Queue
  <2> QED
    BY <2>1, LosingIsSafe DEF FlowInv, Reply, resolverVars
<1> QED
  BY <1>2, <1>3, <1>4, KeptInOrder DEF FlowInv, Reply, resolverVars

\* What the broker delivers to the resolver is in nobody else's way to it.
LEMMA TakeKeepsFlow == ASSUME FlowInv, NEW p \in Parcels, Take(p) PROVE FlowInv'
<1> DEFINE from == <<"queued", Queue("resolver")>>
           to == <<"handled", <<"resolver", p>>>>
<1>1. NumberedQueues'
  BY DEF FlowInv, NumberedQueues, Take
<1>2. InOnePlace(p) /\ InOrder(p)
  BY DEF FlowInv
<1>3. from \in Places(p)
  BY DEF Places, Take, LiveQueues, Workers
<1>4. Upstream(from) /\ ~Upstream(to)
  BY DEF Upstream, Queue
<1>5. Places(p)' \subseteq (Places(p) \ {from}) \cup {to}
  BY DEF Places, Take, LiveQueues, Queue
<1> HIDE DEF from, to
<1>6. Places(p)' \subseteq {to} /\ Leading(p) /\ ~Fresh(p) /\ posts[p] = 0
  BY <1>2, <1>3, <1>4, <1>5 DEF InOnePlace, Leading, Fresh
<1>7. InOnePlace(p)'
  BY <1>6 DEF InOnePlace, Take
<1>8. ASSUME NEW o \in Parcels \ {p} PROVE Kept(o)
  <2>1. Places(o)' \subseteq Places(o)
    BY DEF Places, Take, LiveQueues, Queue
  <2> QED
    BY <2>1, LosingIsSafe DEF FlowInv, Take
<1>9. ASSUME NEW q \in Parcels PROVE InOrder(q)'
  <2>1. \A o \in Parcels : (Fresh(o) => Fresh(o)') /\ (Leading(o)' => Leading(o))
    BY <1>6, <1>8 DEF Kept
  <2>2. InOrder(q)
    BY DEF FlowInv
  <2>3. Leading(q)' => \A o \in Parcels : o[1] = q[1] /\ o[2] > q[2] => Fresh(o)'
    BY <2>1, <2>2 DEF InOrder
  <2>4. q \in unacked' => \A place \in Places(q)' : ~Upstream(place)
    BY <1>4, <1>6, <1>8 DEF Kept
  <2>5. ~Fresh(q)' => q[2] <= breaks' /\ answer'[q[1]] = "ok"
    BY <2>1, <2>2 DEF InOrder, Take
  <2> QED
    BY <2>3, <2>4, <2>5 DEF InOrder
<1>10. \A q \in Parcels : InOnePlace(q)'
  BY <1>7, <1>8 DEF Kept
<1> QED
  BY <1>1, <1>9, <1>10 DEF FlowInv, Take

\* A copy is published where the parcel was in hand, still unsettled or not any more.
LEMMA ResolveKeepsFlow == ASSUME FlowInv, NEW p \in Parcels, Resolve(p) PROVE FlowInv'
<1> DEFINE from == <<"handled", <<"resolver", p>>>>
           to == <<"queued", Queue("egress")>>
<1>1. NumberedQueues'
  BY DEF FlowInv, NumberedQueues, Resolve, Routed, Receiver
<1>2. \A q \in LiveQueues : q \in Routed("resolver") => q = Queue("egress")
  BY DEF Routed, Receiver, LiveQueues, Queue
<1>3. Kept(p)
  <2>1. from \in Places(p)
    BY DEF Places, Resolve
  <2>2. Places(p)' \subseteq (Places(p) \ {from}) \cup {to}
    BY <1>2 DEF Places, Resolve, LiveQueues, Queue
  <2>3. ~Upstream(to)
    BY DEF Upstream, Queue
  <2> HIDE DEF to, from
  <2> QED
    BY <2>1, <2>2, <2>3, MovingIsSafe DEF FlowInv, Resolve, resolverVars
<1>4. ASSUME NEW o \in Parcels \ {p} PROVE Kept(o)
  <2>1. Places(o)' \subseteq Places(o)
    BY DEF Places, Resolve, LiveQueues, Queue
  <2> QED
    BY <2>1, LosingIsSafe DEF FlowInv, Resolve, resolverVars
<1> QED
  BY <1>1, <1>3, <1>4, KeptInOrder DEF FlowInv, Resolve, resolverVars

\* What the resolver had not settled when it broke is on its way to it again, as
\* parcels that have not been anywhere.
LEMMA BreakKeepsFlow == ASSUME FlowInv, ResolverBreaks PROVE FlowInv'
<1>1. /\ queued' = queued \cup {<<Queue("resolver"), Again(p)>> : p \in unacked}
      /\ unacked' = {} /\ breaks' = breaks + 1 /\ handled' \subseteq handled
      /\ UNCHANGED <<boots, bound, outgoing, incoming, answer, posts>>
  BY DEF ResolverBreaks, InHand
<1>2. NumberedQueues'
  <2>1. Queue("resolver")[1] # "skill"
    BY DEF Queue
  <2> QED
    BY <1>1, <2>1 DEF FlowInv, NumberedQueues
<1>3. unacked \subseteq Parcels /\ breaks \in Nat /\ \A p \in Parcels : InOnePlace(p) /\ InOrder(p)
  BY DEF FlowInv
<1>4. ASSUME NEW p \in Parcels
      PROVE  Places(p)' \subseteq Places(p) \cup {<<"queued", Queue("resolver")>>}
  BY <1>1 DEF Places, LiveQueues, Queue
<1>5. ASSUME NEW p \in Parcels, \A x \in unacked : p # Again(x)
      PROVE  Places(p)' \subseteq Places(p)
  BY <1>1, <1>5 DEF Places, LiveQueues, Queue
<1>6. ASSUME NEW x \in unacked, NEW q \in Parcels, q[1] = x[1], q[2] > x[2]
      PROVE  /\ Fresh(q)
             /\ q # Again(x) => Fresh(q)'
  <2>1. x \in Parcels /\ Leading(x) /\ \A o \in Parcels : o[1] = x[1] /\ o[2] > x[2] => Fresh(o)
    BY <1>3 DEF Leading, InOrder
  <2>2. Fresh(q)
    BY <1>6, <2>1
  <2>3. ASSUME q # Again(x) PROVE \A y \in unacked : q # Again(y)
    <3> SUFFICES ASSUME NEW y \in unacked, q = Again(y) PROVE FALSE
      OBVIOUS
    <3>1. y \in Parcels /\ q[1] = y[1] /\ q[2] = y[2] + 1
      BY <1>3 DEF Again
    <3>2. y[2] # x[2]
      BY <1>6, <2>1, <2>3, <3>1 DEF Again, Parcels
    <3>3. y[1] = x[1] /\ y[2] > x[2]
      BY <1>6, <2>1, <3>1, <3>2 DEF Parcels
    <3>4. Fresh(y)
      BY <2>1, <3>1, <3>3
    <3> QED
      BY <3>4 DEF Fresh
  <2> QED
    BY <1>1, <1>5, <2>2, <2>3 DEF Fresh
<1>7. ASSUME NEW p \in Parcels PROVE InOnePlace(p)' /\ InOrder(p)'
  <2>1. CASE \E x \in unacked : p = Again(x)
    <3>1. PICK x \in unacked : p = Again(x)
      BY <2>1
    <3>2. x \in Parcels /\ p[1] = x[1] /\ p[2] = x[2] + 1
      BY <1>3, <3>1 DEF Again
    <3>3. p[2] > x[2]
      BY <3>2 DEF Parcels
    <3>4. Fresh(p)
      BY <1>6, <3>2, <3>3
    <3>5. Places(p)' \subseteq {<<"queued", Queue("resolver")>>} /\ posts'[p] = 0
      BY <1>1, <1>4, <3>4 DEF Fresh
    <3>6. InOnePlace(p)'
      BY <3>5 DEF InOnePlace
    <3>7. ASSUME NEW q \in Parcels, q[1] = p[1], q[2] > p[2] PROVE Fresh(q)'
      <4>1. q[1] = x[1] /\ q[2] > x[2] /\ q # Again(x)
        BY <3>1, <3>2, <3>7 DEF Parcels, Again
      <4> QED
        BY <1>6, <4>1
    <3>8. p[2] <= breaks' /\ answer'[p[1]] = "ok"
      <4>1. x[2] <= breaks /\ answer[x[1]] = "ok"
        BY <1>3, <3>2 DEF InOrder, Fresh
      <4> QED
        BY <1>1, <1>3, <3>2, <4>1 DEF Parcels
    <3> QED
      BY <1>1, <3>6, <3>7, <3>8 DEF InOrder
  <2>2. CASE \A x \in unacked : p # Again(x)
    <3>1. Places(p)' \subseteq Places(p) /\ posts'[p] = posts[p]
      BY <1>1, <1>5, <2>2
    <3>2. InOnePlace(p)'
      BY <1>3, <3>1 DEF InOnePlace
    <3>3. ASSUME Leading(p)', NEW q \in Parcels, q[1] = p[1], q[2] > p[2] PROVE Fresh(q)'
      <4>1. PICK place \in Places(p) : Upstream(place)
        BY <1>1, <3>1, <3>3 DEF Leading
      <4>2. p \notin unacked /\ Leading(p)
        BY <1>3, <4>1 DEF InOrder, Leading
      <4>3. \A o \in Parcels : o[1] = p[1] /\ o[2] > p[2] => Fresh(o)
        BY <1>3, <4>2 DEF InOrder
      <4>4. ASSUME NEW y \in unacked, q = Again(y) PROVE FALSE
        <5>1. y \in Parcels /\ q[1] = y[1] /\ q[2] = y[2] + 1
          BY <1>3, <4>4 DEF Again
        <5>2. y[1] = p[1] /\ y[2] # p[2]
          <6>1. y = <<y[1], y[2]>> /\ p = <<p[1], p[2]>>
            BY <5>1 DEF Parcels
          <6>2. y[1] = p[1] /\ y # p
            BY <3>3, <4>2, <5>1
          <6> QED
            BY <6>1, <6>2
        <5>3. y[2] > p[2]
          BY <3>3, <5>1, <5>2 DEF Parcels
        <5>4. Fresh(y)
          BY <4>3, <5>1, <5>2, <5>3
        <5> QED
          BY <5>4 DEF Fresh
      <4>5. Fresh(q) /\ Places(q)' \subseteq Places(q)
        BY <1>5, <3>3, <4>3, <4>4
      <4> QED
        BY <1>1, <4>5 DEF Fresh
    <3>4. ~Fresh(p)' => p[2] <= breaks' /\ answer'[p[1]] = "ok"
      <4>1. ~Fresh(p)' => ~Fresh(p)
        BY <1>1, <3>1 DEF Fresh
      <4>2. p[2] <= breaks => p[2] <= breaks'
        BY <1>1, <1>3 DEF Parcels
      <4> QED
        BY <1>1, <1>3, <4>1, <4>2 DEF InOrder
    <3> QED
      BY <1>1, <3>2, <3>3, <3>4 DEF InOrder
  <2> QED
    BY <2>1, <2>2
<1> QED
  BY <1>1, <1>2, <1>3, <1>7 DEF FlowInv

\* The POST of the egress, whether the AAS has it or not.
LEMMA ForwardKeepsFlow ==
  ASSUME FlowInv, NEW p \in Parcels, Forward(p) \/ ForwardFails(p)
  PROVE  FlowInv'
<1>1. /\ <<"egress", p>> \in handled /\ handled' = handled \ {<<"egress", p>>}
      /\ posts' = posts \/ posts' = [posts EXCEPT ![p] = @ + 1]
      /\ UNCHANGED <<boots, bound, queued, outgoing, incoming, resolverVars, answer>>
  BY DEF Forward, ForwardFails
<1>2. posts \in [Parcels -> Nat]
  BY DEF FlowInv
<1>3. NumberedQueues'
  BY <1>1 DEF FlowInv, NumberedQueues
<1>4. Kept(p)
  <2>1. <<"handled", <<"egress", p>>>> \in Places(p)
    BY <1>1 DEF Places
  <2>2. Places(p)' \subseteq Places(p) \ {<<"handled", <<"egress", p>>>>}
    BY <1>1 DEF Places, LiveQueues, Queue
  <2>3. posts'[p] \in {posts[p], posts[p] + 1}
    BY <1>1, <1>2
  <2> QED
    BY <1>1, <2>1, <2>2, <2>3, ArrivingIsSafe DEF FlowInv, resolverVars
<1>5. ASSUME NEW o \in Parcels \ {p} PROVE Kept(o)
  <2>1. Places(o)' \subseteq Places(o) /\ posts'[o] = posts[o]
    BY <1>1, <1>2 DEF Places, LiveQueues, Queue
  <2> QED
    BY <1>1, <2>1, LosingIsSafe DEF FlowInv, resolverVars
<1>6. posts' \in [Parcels -> Nat]
  BY <1>1, <1>2
<1> QED
  BY <1>1, <1>3, <1>4, <1>5, <1>6, KeptInOrder DEF FlowInv, resolverVars

\* A message is published once, with the answer "ok", or not at all.
LEMMA PostKeepsFlow == ASSUME FlowInv, NEW m \in Messages, Post(m) PROVE FlowInv'
<1> DEFINE frame == <<"ingress", client["ingress"].pub, First(m)>>
<1>1. PICK status \in {"ok", "refused", "error"} :
        /\ Answer(m, status)
        /\ outgoing' = outgoing \/ (outgoing' = outgoing \cup {frame} /\ status = "ok")
  BY DEF Post, PostRefused, PostUnsent, PostThrows, PostPublished, Publish
<1>2. /\ answer \in [Messages -> {"none", "ok", "refused", "error"}] /\ answer[m] = "none"
      /\ UNCHANGED <<posts, unacked, breaks>>
  BY <1>1 DEF FlowInv, Answer, resolverVars
<1>3. /\ answer' \in [Messages -> {"none", "ok", "refused", "error"}] /\ answer'[m] = status
      /\ \A o \in Messages \ {m} : answer'[o] = answer[o]
  BY <1>1, <1>2 DEF Answer
<1>4. NumberedQueues'
  BY <1>1 DEF FlowInv, NumberedQueues, Answer
<1>5. \A p \in Parcels : p[1] = m => Fresh(p)
  BY <1>2 DEF FlowInv, InOrder
<1>6. First(m) \in Parcels /\ First(m)[1] = m /\ First(m)[2] = 0
  BY HttpsAssumption DEF First, Parcels
<1>7. Places(First(m))' \subseteq {<<"outgoing", frame>>}
  <2>1. Places(First(m)) = {}
    BY <1>5, <1>6 DEF Fresh
  <2> QED
    BY <1>1, <2>1 DEF Places, Answer, LiveQueues, Queue
<1>8. status # "ok" => Places(First(m))' = {}
  <2>1. Places(First(m)) = {}
    BY <1>5, <1>6 DEF Fresh
  <2> QED
    BY <1>1, <2>1 DEF Places, Answer, LiveQueues, Queue
<1>9. ASSUME NEW p \in Parcels \ {First(m)} PROVE Kept(p)
  <2>1. Places(p)' \subseteq Places(p)
    BY <1>1 DEF Places, Answer, LiveQueues, Queue
  <2> QED
    BY <1>2, <2>1, LosingIsSafe DEF FlowInv
<1>10. InOnePlace(First(m))' /\ InOrder(First(m))'
  <2>1. posts'[First(m)] = 0 /\ First(m) \notin unacked'
    BY <1>2, <1>5, <1>6 DEF Fresh
  <2>2. InOnePlace(First(m))'
    BY <1>7, <2>1 DEF InOnePlace
  <2>3. \A q \in Parcels : q[1] = m /\ q[2] > 0 => Fresh(q)'
    <3> SUFFICES ASSUME NEW q \in Parcels, q[1] = m, q[2] > 0 PROVE Fresh(q)'
      OBVIOUS
    <3>1. q # First(m) /\ Fresh(q)
      BY <1>5, <1>6
    <3> QED
      BY <1>9, <3>1 DEF Kept
  <2>4. ~Fresh(First(m))' => status = "ok" /\ 0 <= breaks'
    BY <1>2, <1>8, <2>1 DEF Fresh, FlowInv
  <2> QED
    BY <1>3, <1>6, <2>1, <2>2, <2>3, <2>4 DEF InOrder
<1>11. ASSUME NEW p \in Parcels \ {First(m)} PROVE InOrder(p)'
  <2>1. InOrder(p) /\ Kept(p) /\ p[1] \in Messages
    BY <1>9 DEF FlowInv, Parcels
  <2>2. CASE p[1] = m
    <3>1. Fresh(p)'
      BY <1>5, <2>1, <2>2 DEF Kept
    <3>2. ~Leading(p)' /\ p \notin unacked'
      BY <3>1 DEF Fresh, Leading
    <3> QED
      BY <3>1, <3>2 DEF InOrder
  <2>3. CASE p[1] # m
    <3>1. Leading(p)' => \A q \in Parcels : q[1] = p[1] /\ q[2] > p[2] => Fresh(q)'
      <4> SUFFICES ASSUME Leading(p)', NEW q \in Parcels, q[1] = p[1], q[2] > p[2]
                   PROVE  Fresh(q)'
        OBVIOUS
      <4>1. Kept(q)
        BY <1>6, <1>9, <2>3
      <4> QED
        BY <2>1, <4>1 DEF InOrder, Kept
    <3>2. ~Fresh(p)' => p[2] <= breaks' /\ answer'[p[1]] = "ok"
      BY <1>2, <1>3, <2>1, <2>3 DEF InOrder, Kept
    <3> QED
      BY <2>1, <3>1, <3>2 DEF InOrder, Kept
  <2> QED
    BY <2>2, <2>3
<1>12. \A p \in Parcels : InOnePlace(p)' /\ InOrder(p)'
  BY <1>9, <1>10, <1>11 DEF Kept
<1> QED
  BY <1>2, <1>3, <1>4, <1>12 DEF FlowInv

\* The queue of the skill that is bound has the number of this start.
LEMMA ListenKeepsFlow ==
  ASSUME FlowInv, ResolverListens \/ \E s \in Services, o \in Callbacks \X Connections : Subscribe(s, o)
  PROVE  FlowInv'
<1>1. PICK s \in Workers : bound' = bound \cup {Queue(s)}
  BY DEF ResolverListens, Subscribe, Workers
<1>2. UNCHANGED <<boots, queued, outgoing, incoming, handled, unacked, breaks, answer, posts>>
  BY DEF ResolverListens, Subscribe, resolverVars
<1>3. NumberedQueues'
  BY <1>1, <1>2 DEF FlowInv, NumberedQueues, Queue
<1>4. ASSUME NEW p \in Parcels PROVE Kept(p)
  <2>1. Places(p)' \subseteq Places(p)
    BY <1>2 DEF Places, LiveQueues, Queue
  <2> QED
    BY <1>2, <2>1, LosingIsSafe DEF FlowInv
<1> QED
  BY <1>2, <1>3, <1>4, KeptInOrder DEF FlowInv

LEMMA FlowStep == ASSUME FlowInv, [Next]_vars PROVE FlowInv'
<1>1. CASE Progress
  <2>1. ASSUME NEW s \in Services, Works(s) PROVE FlowInv'
    BY <2>1, FaultKeepsFlow DEF Works, flowVars, resolverVars
  <2>2. ASSUME NEW p \in Parcels, Acknowledge(p) PROVE FlowInv'
    BY <2>2, FaultKeepsFlow DEF Acknowledge
  <2> QED
    BY <1>1, <2>1, <2>2, ListenKeepsFlow, RestartKeepsFlow, RouteKeepsFlow, DeliverKeepsFlow,
       ReceiveKeepsFlow, ReplyKeepsFlow, TakeKeepsFlow, ResolveKeepsFlow, ForwardKeepsFlow
       DEF Progress
<1>2. CASE Faults
  <2>1. ASSUME NEW s \in Services, Disconnect(s) PROVE FlowInv'
    BY <2>1, FaultKeepsFlow DEF Disconnect, resolverVars
  <2>2. ASSUME NEW s \in Services, Crash(s) PROVE FlowInv'
    BY <2>2, FaultKeepsFlow DEF Crash, resolverVars
  <2>3. ASSUME NEW s \in Services, Interrupt(s) PROVE FlowInv'
    BY <2>3, FaultKeepsFlow DEF Interrupt, resolverVars
  <2>4. CASE BrokerRestarts
    BY <2>4, FaultKeepsFlow DEF BrokerRestarts, InHand
  <2>5. ASSUME NEW p \in Parcels, Unresolved(p) PROVE FlowInv'
    BY <2>5, FaultKeepsFlow DEF Unresolved
  <2> QED
    BY <1>2, <2>1, <2>2, <2>3, <2>4, <2>5, BreakKeepsFlow, ForwardKeepsFlow DEF Faults
<1>3. CASE \E m \in Messages : Post(m)
  BY <1>3, PostKeepsFlow
<1>4. CASE UNCHANGED vars
  BY <1>4, FaultKeepsFlow DEF vars, flowVars, resolverVars
<1> QED
  BY <1>1, <1>2, <1>3, <1>4, ListenKeepsFlow DEF Next

\* Whatever breaks, and however often: the AAS has a reply once at most and once
\* more for every break of the resolver, and none to a message whose sender was told
\* that it failed.
THEOREM AtMostOnceHolds == Spec => []AtMostOnce
<1>1. FlowInv => AtMostOnce
  <2> SUFFICES ASSUME FlowInv, NEW p \in Parcels
               PROVE  /\ posts[p] <= 1
                      /\ posts[p] = 1 => p[2] <= breaks
                      /\ answer[p[1]] # "ok" => posts[p] = 0 /\ ~OnItsWay(p) /\ p \notin unacked
    BY DEF AtMostOnce
  <2>1. OnItsWay(p) => Places(p) # {}
    <3>1. ASSUME NEW q \in LiveQueues, <<q, p>> \in queued
          PROVE  <<"queued", q>> \in Places(p)
      BY <3>1 DEF Places
    <3>2. ASSUME NEW w \in outgoing, w[3] = p PROVE <<"outgoing", w>> \in Places(p)
      BY <3>2 DEF Places
    <3>3. ASSUME NEW w \in incoming, w[3] = p PROVE <<"incoming", w>> \in Places(p)
      BY <3>3 DEF Places
    <3>4. ASSUME NEW h \in handled, h[2] = p PROVE <<"handled", h>> \in Places(p)
      BY <3>4 DEF Places
    <3> QED
      BY <3>1, <3>2, <3>3, <3>4 DEF OnItsWay
  <2>2. InOnePlace(p) /\ InOrder(p)
    BY DEF FlowInv
  <2> QED
    BY <2>1, <2>2 DEF InOnePlace, InOrder, Fresh
<1> QED
  BY <1>1, FlowInitially, FlowStep, PTL DEF Spec
------------------------------------------------------------------------------
(* Types; what bounds the starts of the skill is the faults before them *)

StartsInv ==
  /\ faults \in 0 .. MaxFaults
  /\ boots \in Nat \ {0}
  /\ boots <= faults + (IF client["skill"].up THEN 1 ELSE 0)
  /\ breaks \in 0 .. faults

WireInv ==
  /\ bound \subseteq Queues
  /\ queued \subseteq Queues \X Parcels
  /\ outgoing \subseteq OnWire
  /\ incoming \subseteq OnWire
  /\ handled \subseteq Workers \X Parcels
  /\ safe \subseteq Messages

\* Who listens has bound its queue.
ResolverInv ==
  /\ listens \in BOOLEAN
  /\ listens => Queue("resolver") \in bound

TypeInv == ClientsInv /\ FlowInv /\ StartsInv /\ WireInv /\ ResolverInv

\* A queue stays bound; only another start of the skill has another one.
LEMMA QueuesStay ==
  ASSUME [Next]_vars, NEW s \in Workers
  PROVE  /\ bound \subseteq bound'
         /\ Queue(s)' = Queue(s) \/ (s = "skill" /\ Restart(s))
<1>1. ASSUME boots' = boots, bound \subseteq bound' PROVE bound \subseteq bound' /\ Queue(s)' = Queue(s)
  BY <1>1 DEF Queue
<1>2. CASE Progress
  <2>1. ASSUME NEW t \in Services, NEW n, NEW p, Route(t, n, p) \/ Deliver(t, n, p) \/ Receive(t, n, p)
        PROVE  UNCHANGED <<boots, bound>>
    BY <2>1 DEF Route, Deliver, Receive
  <2>2. ASSUME NEW p, Reply(p) \/ Take(p) \/ Resolve(p) \/ Acknowledge(p) \/ Forward(p)
        PROVE  UNCHANGED <<boots, bound>>
    BY <2>2 DEF Reply, Take, Resolve, Acknowledge, Forward
  <2>3. ASSUME NEW t \in Services, Works(t) PROVE UNCHANGED <<boots, bound>>
    BY <2>3 DEF Works, flowVars
  <2>4. ASSUME NEW t \in Services, NEW o, Subscribe(t, o)
        PROVE  boots' = boots /\ bound \subseteq bound'
    BY <2>4 DEF Subscribe
  <2>5. ASSUME NEW t \in Services, Restart(t)
        PROVE  /\ bound \subseteq bound'
               /\ Queue(s)' = Queue(s) \/ (s = "skill" /\ Restart(s))
    BY <2>5 DEF Restart, Queue
  <2> QED
    BY <1>1, <1>2, <2>1, <2>2, <2>3, <2>4, <2>5 DEF Progress
<1>3. CASE Faults
  BY <1>1, <1>3 DEF Faults, Disconnect, Crash, Interrupt, BrokerRestarts, ResolverBreaks, Unresolved,
     ForwardFails
<1>4. CASE \E m \in Messages : Post(m)
  BY <1>1, <1>4 DEF Post, PostRefused, PostUnsent, PostThrows, PostPublished, Answer
<1>5. CASE ResolverListens \/ UNCHANGED vars
  BY <1>1, <1>5 DEF ResolverListens, vars, flowVars
<1> QED
  BY <1>2, <1>3, <1>4, <1>5 DEF Next

\* The resolver listens until it breaks, or the broker.
LEMMA ListensStays == ASSUME Progress PROVE listens' = listens
BY DEF Progress, Works, flowVars, Restart, Subscribe, Route, Deliver, Receive, Reply, Take, Resolve,
   Acknowledge, Forward, resolverVars

LEMMA ResolverStep == ASSUME ResolverInv, [Next]_vars PROVE ResolverInv'
<1>1. bound \subseteq bound' /\ Queue("resolver")' = Queue("resolver")
  BY QueuesStay DEF Workers
<1>2. CASE ResolverListens
  BY <1>1, <1>2 DEF ResolverListens, ResolverInv
<1>3. ASSUME listens' = listens \/ listens' = FALSE PROVE ResolverInv'
  <2>1. CASE listens' = listens
    BY <1>1, <2>1 DEF ResolverInv
  <2>2. CASE listens' = FALSE
    <3>1. listens' \in BOOLEAN /\ ~listens'
      BY <2>2
    <3> QED
      BY <3>1 DEF ResolverInv
  <2> QED
    BY <1>3, <2>1, <2>2
<1>4. CASE \E m \in Messages : Post(m)
  BY <1>3, <1>4 DEF Post, PostRefused, PostUnsent, PostThrows, PostPublished, Answer, resolverVars
<1>5. CASE Faults
  <2>1. ASSUME NEW s \in Services, Disconnect(s) \/ Crash(s) \/ Interrupt(s) PROVE listens' = listens
    BY <2>1 DEF Disconnect, Crash, Interrupt, resolverVars
  <2>2. ASSUME NEW p \in Parcels, Unresolved(p) \/ ForwardFails(p) PROVE listens' = listens
    BY <2>2 DEF Unresolved, ForwardFails, resolverVars
  <2>3. ASSUME BrokerRestarts \/ ResolverBreaks PROVE listens' = FALSE
    BY <2>3 DEF BrokerRestarts, ResolverBreaks
  <2> QED
    BY <1>3, <1>5, <2>1, <2>2, <2>3 DEF Faults
<1>6. CASE UNCHANGED vars
  BY <1>3, <1>6 DEF vars, flowVars, resolverVars
<1> QED
  BY <1>2, <1>3, <1>4, <1>5, <1>6, ListensStays DEF Next

\* A callback of amqplib neither ends the process nor starts it.
LEMMA CallbacksKeepUp ==
  ASSUME NEW s, NEW c, c \in Client, NEW k, NEW n, NEW o
  PROVE  /\ Connect(c, k, n).up = c.up
         /\ ChannelOpened(s, c, o).up = c.up
         /\ QueueDeclared(c, o).up = c.up
BY DEF Connect, ChannelOpened, QueueDeclared, AfterSubscription, StartListening,
   ConnectAndDoSubscription, DoSubscription, SetupPublishing, OpenChannel, Dial, Client
LEMMA TypesInitially == ASSUME Init PROVE TypeInv
<1>1. client["skill"].up
  <2>1. Boot("skill").up
    BY HttpsAssumption DEF Boot, SetupPublishing, NotConnected, Dial, NewClient
  <2> QED
    BY <2>1, HttpsAssumption DEF Init, ClientInit
<1>2. StartsInv
  BY <1>1, HttpsAssumption DEF Init, StartsInv
<1> QED
  BY <1>2, ClientsInitially, FlowInitially DEF Init, TypeInv, WireInv, ResolverInv

\* A fault pays for the start it causes.
LEMMA FaultKeepsStarts ==
  ASSUME StartsInv, Fault, UNCHANGED boots, breaks' \in {breaks, breaks + 1}
  PROVE  StartsInv'
BY HttpsAssumption DEF StartsInv, Fault

\* The wire and the queues lose messages, if anything.
LEMMA LosingKeepsTypes ==
  ASSUME WireInv, UNCHANGED bound, queued' \subseteq queued, outgoing' \subseteq outgoing,
         incoming' \subseteq incoming, handled' \subseteq handled, safe' \subseteq safe
  PROVE  WireInv'
BY DEF WireInv

LEMMA TypesStep == ASSUME TypeInv, [Next]_vars PROVE TypeInv'
<1>1. ClientsInv' /\ FlowInv'
  BY ClientsStep, FlowStep DEF TypeInv
<1>2. client \in [Services -> Client] /\ "skill" \in Services
  BY HttpsAssumption DEF TypeInv, ClientsInv
<1>3. \A s \in Workers : Queue(s) \in Queues
  BY HttpsAssumption DEF TypeInv, StartsInv, Queue, Queues, Workers
<1>4. ASSUME UNCHANGED <<boots, breaks, faults>>, client'["skill"].up = client["skill"].up PROVE StartsInv'
  BY <1>4 DEF TypeInv, StartsInv
<1>5. ASSUME NEW s \in Services, Publishable(client[s]), NEW p \in Parcels
      PROVE  <<s, client[s].pub, p>> \in OnWire
  BY <1>2, <1>5 DEF OnWire, Publishable, Client
<1>6. ASSUME NEW s \in Services, Works(s) PROVE StartsInv' /\ WireInv'
  <2>1. client'["skill"].up = client["skill"].up
    BY <1>2, <1>6, CallbacksKeepUp DEF Works, ClientStep, Connects, OpensChannel
  <2> QED
    BY <1>4, <1>6, <2>1, LosingKeepsTypes DEF Works, flowVars, resolverVars, TypeInv
<1>7. ASSUME NEW s \in Services, NEW o, Subscribe(s, o) PROVE StartsInv' /\ WireInv'
  <2>1. client'["skill"].up = client["skill"].up
    BY <1>2, <1>7, CallbacksKeepUp DEF Subscribe, Subscribes
  <2>2. StartsInv'
    BY <1>4, <1>7, <2>1 DEF Subscribe, resolverVars
  <2>3. WireInv'
    BY <1>3, <1>7 DEF Subscribe, TypeInv, WireInv, Workers
  <2> QED
    BY <2>2, <2>3
<1>8. ASSUME NEW s \in Services, Restart(s) PROVE StartsInv' /\ WireInv'
  <2>1. Boot(s).up
    BY DEF Boot, SetupPublishing, StartListening, ConnectAndDoSubscription, NotConnected, Dial, NewClient
  <2>2. StartsInv'
    <3>1. CASE s = "skill"
      <4>1. /\ ~client["skill"].up /\ client'["skill"].up /\ boots' = boots + 1
            /\ UNCHANGED <<faults, breaks>>
        BY <1>2, <1>8, <2>1, <3>1 DEF Restart, Restarts, resolverVars
      <4> QED
        BY <4>1, HttpsAssumption DEF TypeInv, StartsInv
    <3>2. CASE s # "skill"
      BY <1>2, <1>4, <1>8, <3>2 DEF Restart, Restarts, resolverVars
    <3> QED
      BY <3>1, <3>2
  <2> QED
    BY <1>8, <2>2, LosingKeepsTypes DEF Restart, TypeInv
<1>9. ASSUME NEW s \in Services, NEW n \in Connections, NEW p \in Parcels,
             Route(s, n, p) \/ Deliver(s, n, p) \/ Receive(s, n, p)
      PROVE  StartsInv' /\ WireInv'
  <2>1. CASE Route(s, n, p)
    <3>1. Routed(s) \X {p} \subseteq Queues \X Parcels
      BY DEF Routed, TypeInv, WireInv
    <3> QED
      BY <1>4, <2>1, <3>1 DEF Route, TypeInv, WireInv, resolverVars
  <2>2. CASE Deliver(s, n, p)
    <3>1. <<s, n, p>> \in OnWire
      BY DEF OnWire
    <3> QED
      BY <1>4, <2>2, <3>1 DEF Deliver, TypeInv, WireInv, resolverVars
  <2>3. CASE Receive(s, n, p)
    <3>1. <<s, p>> \in Workers \X Parcels
      BY DEF Workers
    <3> QED
      BY <1>4, <2>3, <3>1 DEF Receive, TypeInv, WireInv, resolverVars
  <2> QED
    BY <1>9, <2>1, <2>2, <2>3
<1>10. ASSUME NEW p \in Parcels, Reply(p) PROVE StartsInv' /\ WireInv'
  <2>1. outgoing' \subseteq OnWire
    BY <1>2, <1>5, <1>10 DEF Reply, Publish, TypeInv, WireInv
  <2> QED
    BY <1>4, <1>10, <2>1 DEF Reply, TypeInv, WireInv, resolverVars
<1>11. ASSUME ResolverListens \/ \E p \in Parcels : Take(p) \/ Resolve(p) \/ Acknowledge(p) \/ Forward(p)
       PROVE  StartsInv' /\ WireInv'
  <2>1. UNCHANGED <<client, boots, breaks, faults, outgoing, incoming, safe>>
    BY <1>11 DEF ResolverListens, Take, Resolve, Acknowledge, Forward, resolverVars
  <2>2. CASE ResolverListens
    BY <1>3, <1>4, <2>1, <2>2 DEF ResolverListens, Workers, TypeInv, WireInv
  <2>3. ASSUME NEW p \in Parcels, Take(p) PROVE StartsInv' /\ WireInv'
    <3>1. <<"resolver", p>> \in Workers \X Parcels
      BY DEF Workers
    <3> QED
      BY <1>4, <2>1, <2>3, <3>1 DEF Take, TypeInv, WireInv
  <2>4. ASSUME NEW p \in Parcels, Resolve(p) PROVE StartsInv' /\ WireInv'
    <3>1. Routed("resolver") \X {p} \subseteq Queues \X Parcels
      BY DEF Routed, TypeInv, WireInv
    <3> QED
      BY <1>4, <2>1, <2>4, <3>1 DEF Resolve, TypeInv, WireInv
  <2>5. ASSUME NEW p \in Parcels, Acknowledge(p) \/ Forward(p) PROVE StartsInv' /\ WireInv'
    BY <1>4, <2>1, <2>5, LosingKeepsTypes DEF Acknowledge, Forward, TypeInv
  <2> QED
    BY <1>11, <2>2, <2>3, <2>4, <2>5
<1>12. ASSUME NEW m \in Messages, Post(m) PROVE StartsInv' /\ WireInv'
  <2>1. UNCHANGED <<client, boots, bound, queued, incoming, handled, breaks, posts, faults>>
    BY <1>12 DEF Post, PostRefused, PostUnsent, PostThrows, PostPublished, Answer, resolverVars
  <2>2. outgoing' \subseteq OnWire
    <3>1. First(m) \in Parcels
      BY HttpsAssumption DEF First, Parcels
    <3> QED
      BY <1>5, <1>12, <3>1, HttpsAssumption
         DEF Post, PostRefused, PostUnsent, PostThrows, PostPublished, Publish, TypeInv, WireInv
  <2>3. safe' \subseteq Messages
    BY <1>12 DEF Post, PostRefused, PostUnsent, PostThrows, PostPublished, TypeInv, WireInv
  <2> QED
    BY <1>4, <2>1, <2>2, <2>3 DEF TypeInv, WireInv
<1>13. ASSUME Faults PROVE StartsInv' /\ WireInv'
  <2>1. /\ Fault /\ UNCHANGED <<boots, bound>> /\ breaks' \in {breaks, breaks + 1}
        /\ outgoing' \subseteq outgoing /\ incoming' \subseteq incoming /\ handled' \subseteq handled
        /\ queued' \subseteq queued \/ ResolverBreaks
    <3>1. ASSUME NEW s \in Services, Disconnect(s) \/ Crash(s) \/ Interrupt(s)
          PROVE  /\ Fault /\ UNCHANGED <<boots, bound, breaks, queued>>
                 /\ outgoing' \subseteq outgoing /\ incoming' \subseteq incoming /\ handled' \subseteq handled
      BY <3>1 DEF Disconnect, Crash, Interrupt, resolverVars
    <3>2. CASE BrokerRestarts
      BY <3>2 DEF BrokerRestarts, InHand
    <3>3. CASE ResolverBreaks
      BY <3>3 DEF ResolverBreaks, InHand
    <3>4. ASSUME NEW p \in Parcels, Unresolved(p) \/ ForwardFails(p)
          PROVE  /\ Fault /\ UNCHANGED <<boots, bound, breaks, queued, outgoing, incoming>>
                 /\ handled' \subseteq handled
      BY <3>4 DEF Unresolved, ForwardFails, resolverVars
    <3> QED
      BY <1>13, <3>1, <3>2, <3>3, <3>4 DEF Faults
  <2>2. StartsInv'
    BY <2>1, FaultKeepsStarts DEF TypeInv
  <2>3. safe' \subseteq safe
    BY <2>1 DEF Fault
  <2>4. queued' \subseteq Queues \X Parcels
    <3>1. CASE queued' \subseteq queued
      BY <3>1 DEF TypeInv, WireInv
    <3>2. CASE ResolverBreaks
      <4>1. ASSUME NEW p \in unacked PROVE Again(p) \in Parcels
        <5>1. p \in Parcels /\ p[2] <= breaks /\ breaks < MaxFaults
          <6>1. p \in Parcels /\ InOrder(p) /\ ~Fresh(p)
            BY DEF TypeInv, FlowInv, Fresh
          <6>2. p[2] <= breaks
            BY <6>1 DEF InOrder
          <6>3. breaks < MaxFaults
            BY <2>1, HttpsAssumption DEF Fault, TypeInv, StartsInv
          <6> QED
            BY <6>1, <6>2, <6>3
        <5> QED
          BY <5>1, HttpsAssumption DEF Again, Parcels, TypeInv, StartsInv
      <4>2. \A p \in unacked : <<Queue("resolver"), Again(p)>> \in Queues \X Parcels
        BY <1>3, <4>1 DEF Workers
      <4> QED
        BY <3>2, <4>2 DEF ResolverBreaks, TypeInv, WireInv
    <3> QED
      BY <2>1, <3>1, <3>2
  <2> QED
    BY <2>1, <2>2, <2>3, <2>4 DEF TypeInv, WireInv
<1>14. ASSUME UNCHANGED vars PROVE StartsInv' /\ WireInv'
  <2>1. UNCHANGED <<client, boots, bound, queued, outgoing, incoming, handled, breaks, faults, safe>>
    BY <1>14 DEF vars, flowVars, resolverVars
  <2> QED
    BY <1>4, <2>1, LosingKeepsTypes DEF TypeInv
<1>15. StartsInv' /\ WireInv'
  BY <1>6, <1>7, <1>8, <1>9, <1>10, <1>11, <1>12, <1>13, <1>14 DEF Next, Progress
<1> QED
  BY <1>1, <1>15, ResolverStep DEF TypeInv

\* The model's bounds are not guards of the program: queues are numbered by the
\* starts of the skill, and those are no more than the faults allow.
THEOREM TypesHold == Spec => []TypeOK
<1>1. TypeInv => TypeOK
  <2> SUFFICES ASSUME TypeInv PROVE TypeOK
    OBVIOUS
  <2>1. boots \in 1 .. (MaxFaults + 1) /\ faults \in 0 .. MaxFaults
    BY HttpsAssumption DEF TypeInv, StartsInv
  <2>2. posts \in [Parcels -> 0 .. 2]
    BY DEF TypeInv, FlowInv, InOnePlace
  <2> QED
    BY <2>1, <2>2 DEF TypeInv, StartsInv, ClientsInv, FlowInv, WireInv, ResolverInv, TypeOK
<1> QED
  BY <1>1, TypesInitially, TypesStep, PTL DEF Spec
------------------------------------------------------------------------------
(* What was accepted goes on.  The clients that are usable stay so until     *)
(* something breaks, and the queues they consume from are bound: every place *)
(* on the way has a next one.                                                *)

\* A service that does not subscribe never consumes: a reconnection sets up
\* its publishing only.
OnlyPublishes(c) ==
  /\ ~c.subscribed /\ c.declaring = {} /\ c.consuming = {}
  /\ \A o \in c.opening : o[1] \in {"publish", "republish"}

PublishersInv == \A s \in Services \ Listeners : OnlyPublishes(client[s])

\* Who consumes has bound the queue.
ConsumersInv == \A s \in Listeners : client[s].consuming # {} => Queue(s) \in bound

\* Who reads a queue.
Readers == Listeners \cup {"resolver"}

\* Where a parcel of the way is that somebody will take further.
GoesOn(p) ==
  \/ \E s \in Publishers, n \in Connections : <<s, n, p>> \in outgoing
  \/ \E s \in Readers :
       \/ <<Queue(s), p>> \in queued
       \/ \E n \in Connections : <<s, n, p>> \in incoming
       \/ <<s, p>> \in handled

\* What was accepted while the services were usable, and before anything broke,
\* arrived or is at such a place; and whoever is to take it further can.
AcceptedIsKept ==
  safe # {} =>
    /\ AllUsable /\ listens
    /\ \A s \in Readers : Queue(s) \in bound
    /\ \A m \in safe : posts[First(m)] = 1 \/ GoesOn(First(m))

KeptInv == PublishersInv /\ ConsumersInv /\ AcceptedIsKept

\* Who publishes and does not listen.
LEMMA ConnectOnlyPublishes ==
  ASSUME NEW c, c \in Client, OnlyPublishes(c), NEW k \in Callbacks, NEW n \in Connections
  PROVE  OnlyPublishes(Connect(c, k, n))
<1> DEFINE new == [c EXCEPT !.conn = n, !.closed = FALSE, !.live = @ \cup {n}, !.dialing = @ \ {k}]
<1>1. new \in Client /\ new.conn = n /\ new.conn # 0 /\ ~new.closed /\ OnlyPublishes(new)
  BY ConnectionNumbers DEF Client, OnlyPublishes
<1>2. Connect(c, k, n) = IF k \in {"publish", "republish"} THEN OpenChannel(new, k)
                                                           ELSE DoSubscription(new, k)
  BY DEF Connect
<1> HIDE DEF new
<1>3. ASSUME NEW j \in {"publish", "republish"} PROVE OnlyPublishes(OpenChannel(new, j))
  <2> DEFINE next == [new EXCEPT !.opening = @ \cup {<<j, new.conn>>}]
  <2>1. /\ next.subscribed = new.subscribed /\ next.declaring = new.declaring
        /\ next.consuming = new.consuming /\ next.opening = new.opening \cup {<<j, new.conn>>}
    BY <1>1 DEF Client
  <2>2. OpenChannel(new, j) = next
    BY DEF OpenChannel
  <2> HIDE DEF next
  <2> QED
    BY <1>1, <2>1, <2>2 DEF OnlyPublishes
<1>4. DoSubscription(new, k) \in {new, OpenChannel(new, "republish")}
  BY <1>1 DEF DoSubscription, AfterSubscription, SetupPublishing, NotConnected, OnlyPublishes
<1> QED
  BY <1>1, <1>2, <1>3, <1>4

LEMMA ChannelOpenedOnlyPublishes ==
  ASSUME NEW s \in Services \ Listeners, NEW c, c \in Client, OnlyPublishes(c), NEW o \in c.opening
  PROVE  OnlyPublishes(ChannelOpened(s, c, o))
<1> DEFINE new == [c EXCEPT !.pub = o[2], !.opening = @ \ {o}]
<1>1. ChannelOpened(s, c, o) = new
  BY DEF ChannelOpened, OnlyPublishes
<1>2. /\ new.subscribed = c.subscribed /\ new.declaring = c.declaring
      /\ new.consuming = c.consuming /\ new.opening = c.opening \ {o}
  BY DEF Client
<1> HIDE DEF new
<1> QED
  BY <1>1, <1>2 DEF OnlyPublishes

LEMMA ClosedOnlyPublishes ==
  ASSUME NEW s \in Services, NEW c, ClientInv(s, c), OnlyPublishes(c),
         NEW n \in c.live, ~Awaited(c, n)
  PROVE  OnlyPublishes(Closed(c, n))
<1> DEFINE rest == [c EXCEPT !.live = @ \ {n}, !.consuming = @ \ {n}]
<1>1. c \in Client
  BY DEF ClientInv
<1>2. /\ rest.subscribed = c.subscribed /\ rest.declaring = c.declaring /\ rest.opening = c.opening
      /\ rest.consuming = c.consuming \ {n}
  BY <1>1 DEF Client
<1>3. Closed(c, n) \in {rest, [rest EXCEPT !.closed = TRUE, !.dialing = @ \cup {"reconnect"}]}
  BY <1>1 DEF Closed, ConnectAndDoSubscription, NotConnected, Dial, Client
<1> DEFINE new == [rest EXCEPT !.closed = TRUE, !.dialing = @ \cup {"reconnect"}]
<1>4. /\ new.subscribed = c.subscribed /\ new.declaring = c.declaring /\ new.opening = c.opening
      /\ new.consuming = c.consuming \ {n}
  BY <1>1 DEF Client
<1>5. Closed(c, n) \in {rest, new}
  BY <1>3
<1> HIDE DEF rest, new
<1> QED
  BY <1>2, <1>4, <1>5 DEF OnlyPublishes

LEMMA StartOnlyPublishes ==
  ASSUME NEW s \in Services \ Listeners
  PROVE  OnlyPublishes(Boot(s)) /\ OnlyPublishes(Down)
<1>1. s \in Publishers
  BY AmqpTsAssumption
<1>2. Boot(s) = [NewClient EXCEPT !.dialing = {"publish"}]
  BY <1>1 DEF Boot, SetupPublishing, NotConnected, Dial, NewClient
<1> QED
  BY <1>2 DEF OnlyPublishes, NewClient, Down

LEMMA CleanupOnlyPublishes ==
  ASSUME NEW c, c \in Client, OnlyPublishes(c)
  PROVE  OnlyPublishes(Cleanup(c))
<1> DEFINE last == [c EXCEPT !.destroyed = TRUE]
           shut == [c EXCEPT !.destroyed = TRUE, !.closed = TRUE, !.live = @ \ {c.conn},
                             !.consuming = @ \ {c.conn}]
<1>1. Cleanup(c) \in {last, Down, shut}
  BY DEF Cleanup
<1>2. OnlyPublishes(last) /\ OnlyPublishes(shut) /\ OnlyPublishes(Down)
  BY DEF OnlyPublishes, Client, Down, NewClient
<1> QED
  BY <1>1, <1>2

\* What a step can do to one client.
LEMMA ClientCases ==
  ASSUME ClientsInv, [Next]_vars, NEW s \in Services
  PROVE  \/ client'[s] = client[s]
         \/ \E k \in client[s].dialing, n \in Connections : client'[s] = Connect(client[s], k, n)
         \/ \E o \in client[s].opening : client'[s] = ChannelOpened(s, client[s], o)
         \/ /\ \E o \in client[s].declaring : client'[s] = QueueDeclared(client[s], o)
            /\ Queue(s) \in bound'
         \/ \E n \in client[s].live : ~Awaited(client[s], n) /\ client'[s] = Closed(client[s], n)
         \/ client'[s] \in {Down, Cleanup(client[s]), Boot(s)}
<1> DEFINE Goal ==
      \/ client'[s] = client[s]
      \/ \E k \in client[s].dialing, n \in Connections : client'[s] = Connect(client[s], k, n)
      \/ \E o \in client[s].opening : client'[s] = ChannelOpened(s, client[s], o)
      \/ /\ \E o \in client[s].declaring : client'[s] = QueueDeclared(client[s], o)
         /\ Queue(s) \in bound'
      \/ \E n \in client[s].live : ~Awaited(client[s], n) /\ client'[s] = Closed(client[s], n)
      \/ client'[s] \in {Down, Cleanup(client[s]), Boot(s)}
<1> SUFFICES Goal
  OBVIOUS
<1>1. ASSUME NEW t \in Services \ {s}, NEW c, client' = [client EXCEPT ![t] = c] PROVE Goal
  BY <1>1 DEF ClientsInv
<1>2. ASSUME NEW c, client' = [client EXCEPT ![s] = c] PROVE client'[s] = c
  BY <1>2 DEF ClientsInv
<1>3. ASSUME NEW t \in Services, Works(t) PROVE Goal
  <2>1. CASE \E k \in Callbacks, n \in Connections : Connects(t, k, n)
    BY <1>1, <1>2, <2>1 DEF Connects
  <2>2. CASE \E o \in Callbacks \X Connections : OpensChannel(t, o)
    BY <1>1, <1>2, <2>2 DEF OpensChannel
  <2> QED
    BY <1>3, <2>1, <2>2 DEF Works, ClientStep
<1>4. ASSUME NEW t \in Services, NEW o, Subscribe(t, o) PROVE Goal
  BY <1>1, <1>2, <1>4 DEF Subscribe, Subscribes
<1>5. ASSUME NEW t \in Services, Disconnect(t) PROVE Goal
  BY <1>1, <1>2, <1>5 DEF Disconnect, Closes
<1>6. ASSUME NEW t \in Services, Crash(t) PROVE Goal
  BY <1>1, <1>2, <1>6 DEF Crash, Crashes
<1>7. ASSUME NEW t \in Services, Interrupt(t) PROVE Goal
  BY <1>1, <1>2, <1>7 DEF Interrupt, Interrupted
<1>8. ASSUME NEW t \in Services, Restart(t) PROVE Goal
  BY <1>1, <1>2, <1>8 DEF Restart, Restarts
<1>9. ASSUME BrokerRestarts PROVE Goal
  <2>1. CASE client[s].live = {}
    BY <1>9, <2>1 DEF BrokerRestarts
  <2>2. CASE \E n \in client[s].live : Awaited(client[s], n)
    BY <1>9, <2>2 DEF BrokerRestarts
  <2>3. CASE client[s].live # {} /\ \A n \in client[s].live : ~Awaited(client[s], n)
    BY <1>9, <2>3 DEF BrokerRestarts
  <2> QED
    BY <2>1, <2>2, <2>3
<1>10. ASSUME UNCHANGED client PROVE Goal
  BY <1>10
<1> HIDE DEF Goal
<1>11. CASE Progress
  <2>1. ASSUME NEW t \in Services, NEW n, NEW m, Route(t, n, m) \/ Deliver(t, n, m) \/ Receive(t, n, m)
        PROVE  UNCHANGED client
    BY <2>1 DEF Route, Deliver, Receive
  <2>2. ASSUME NEW p, Reply(p) \/ Take(p) \/ Resolve(p) \/ Acknowledge(p) \/ Forward(p)
        PROVE  UNCHANGED client
    BY <2>2 DEF Reply, Take, Resolve, Acknowledge, Forward
  <2> QED
    BY <1>3, <1>4, <1>8, <1>10, <1>11, <2>1, <2>2 DEF Progress
<1>12. CASE Faults
  <2>1. ASSUME NEW p, Unresolved(p) \/ ForwardFails(p) \/ ResolverBreaks PROVE UNCHANGED client
    BY <2>1 DEF Unresolved, ForwardFails, ResolverBreaks
  <2> QED
    BY <1>5, <1>6, <1>7, <1>9, <1>10, <1>12, <2>1 DEF Faults
<1>13. CASE \E m \in Messages : Post(m)
  BY <1>10, <1>13 DEF Post, PostRefused, PostUnsent, PostThrows, PostPublished, Answer
<1>14. CASE ResolverListens \/ UNCHANGED vars
  BY <1>10, <1>14 DEF ResolverListens, vars
<1> QED
  BY <1>11, <1>12, <1>13, <1>14 DEF Next

LEMMA PublishersStep == ASSUME ClientsInv, PublishersInv, [Next]_vars PROVE PublishersInv'
<1> SUFFICES ASSUME NEW s \in Services \ Listeners PROVE OnlyPublishes(client'[s])
  BY DEF PublishersInv, OnlyPublishes
<1>1. OnlyPublishes(client[s]) /\ ClientInv(s, client[s]) /\ client[s] \in Client
  BY DEF PublishersInv, ClientsInv, ClientInv
<1>2. client[s].declaring = {} /\ client[s].dialing \subseteq Callbacks
  BY <1>1 DEF OnlyPublishes, Client
<1> QED
  BY <1>1, <1>2, ClientCases, ConnectOnlyPublishes, ChannelOpenedOnlyPublishes, ClosedOnlyPublishes,
     CleanupOnlyPublishes, StartOnlyPublishes

\* Of the callbacks only that of assertQueue makes a consumer.
LEMMA CallbacksKeepConsumers ==
  ASSUME NEW s \in Services, NEW c, c \in Client, NEW k, NEW n, NEW o
  PROVE  /\ Connect(c, k, n).consuming = c.consuming
         /\ ChannelOpened(s, c, o).consuming = c.consuming
         /\ Closed(c, n).consuming \subseteq c.consuming
         /\ Cleanup(c).consuming \subseteq c.consuming
         /\ Boot(s).consuming = {} /\ Down.consuming = {}
<1>1. Connect(c, k, n).consuming = c.consuming
  BY DEF Connect, AfterSubscription, DoSubscription, SetupPublishing, OpenChannel, Dial, Client
<1>2. ChannelOpened(s, c, o).consuming = c.consuming
  BY DEF ChannelOpened, AfterSubscription, StartListening, ConnectAndDoSubscription,
         DoSubscription, SetupPublishing, OpenChannel, Dial, Client
<1>3. Closed(c, n).consuming \subseteq c.consuming
  BY DEF Closed, ConnectAndDoSubscription, NotConnected, Dial, Client
<1>4. Cleanup(c).consuming \subseteq c.consuming
  BY DEF Cleanup, Down, NewClient, Client
<1>5. Boot(s).consuming = {} /\ Down.consuming = {}
  BY DEF Boot, Down, NewClient, SetupPublishing, StartListening, ConnectAndDoSubscription,
         NotConnected, Dial
<1> QED
  BY <1>1, <1>2, <1>3, <1>4, <1>5

LEMMA ConsumersStep == ASSUME ClientsInv, ConsumersInv, [Next]_vars PROVE ConsumersInv'
<1> SUFFICES ASSUME NEW s \in Listeners, client'[s].consuming # {} PROVE Queue(s)' \in bound'
  BY DEF ConsumersInv
<1>1. s \in Services /\ client[s] \in Client
  BY AmqpTsAssumption DEF ClientsInv
<1>2. CASE s = "skill" /\ Restart(s)
  <2>1. client'[s] = Boot(s)
    BY <1>1, <1>2 DEF Restart, Restarts, ClientsInv
  <2> QED
    BY <1>1, <2>1, CallbacksKeepConsumers
<1>3. CASE ~(s = "skill" /\ Restart(s))
  <2>1. bound \subseteq bound' /\ Queue(s)' = Queue(s)
    BY <1>1, <1>3, QueuesStay DEF Workers
  <2>2. client'[s].consuming \subseteq client[s].consuming \/ Queue(s) \in bound'
    <3> DEFINE c == client[s]
    <3>1. /\ \A k, n : Connect(c, k, n).consuming = c.consuming
          /\ \A o : ChannelOpened(s, c, o).consuming = c.consuming
          /\ \A n : Closed(c, n).consuming \subseteq c.consuming
      BY <1>1, CallbacksKeepConsumers
    <3>2. \A d \in {Down, Cleanup(c), Boot(s)} : d.consuming \subseteq c.consuming
      BY <1>1, CallbacksKeepConsumers
    <3> QED
      BY <1>1, <3>1, <3>2, ClientCases
  <2> QED
    BY <2>1, <2>2 DEF ConsumersInv
<1> QED
  BY <1>2, <1>3

\* What is fit for use has one connection, and nobody dials.
Fit(s, c) ==
  /\ c.up /\ ~c.closed /\ c.conn \in c.live
  /\ s \in Publishers => c.pub = c.conn /\ c.opening = {} /\ c.declaring = {}
  /\ s \in Listeners => c.conn \in c.consuming

LEMMA FitIsConnected ==
  ASSUME NEW s \in Services, NEW c, ClientInv(s, c), Fit(s, c)
  PROVE  Connected(c) /\ c.dialing = {} /\ c.conn # 0
BY DEF ClientInv, Fit, Seeking, Connected, Silent

\* A service that only listens can get one more channel, or subscribe once
\* more: it goes on consuming.
LEMMA MoreChannelsStayFit ==
  ASSUME NEW s \in Services, NEW c, ClientInv(s, c), Fit(s, c), NEW o \in c.opening
  PROVE  Fit(s, ChannelOpened(s, c, o))
<1> DEFINE new == [c EXCEPT !.pub = o[2], !.opening = @ \ {o}]
<1>1. c \in Client /\ Connected(c) /\ c.conn # 0 /\ ~c.closed
  BY FitIsConnected DEF ClientInv, Connected
<1>2. s \notin Publishers
  BY DEF Fit
<1> DEFINE d == ChannelOpened(s, c, o)
<1>3. d.up = c.up /\ d.closed = c.closed /\ d.conn = c.conn /\ d.live = c.live
  BY <1>1 DEF ChannelOpened, AfterSubscription, StartListening, ConnectAndDoSubscription,
              DoSubscription, SetupPublishing, NotConnected, OpenChannel, Dial, Client
<1>4. d.consuming = c.consuming
  BY <1>1, CallbacksKeepConsumers
<1> HIDE DEF d
<1>5. Fit(s, d)
  BY <1>2, <1>3, <1>4 DEF Fit
<1> QED
  BY <1>5 DEF d

LEMMA MoreConsumersStayFit ==
  ASSUME NEW s \in Services, NEW c, ClientInv(s, c), Fit(s, c), NEW o \in c.declaring
  PROVE  Fit(s, QueueDeclared(c, o))
<1>1. c \in Client /\ Connected(c) /\ c.conn # 0 /\ ~c.closed
  BY FitIsConnected DEF ClientInv, Connected
<1>2. s \notin Publishers
  BY DEF Fit
<1> DEFINE d == QueueDeclared(c, o)
<1>3. /\ d.up = c.up /\ d.closed = c.closed /\ d.conn = c.conn /\ d.live = c.live
      /\ d.consuming = c.consuming \cup {o[2]}
  BY <1>1 DEF QueueDeclared, AfterSubscription, SetupPublishing, NotConnected, OpenChannel, Dial, Client
<1> HIDE DEF d
<1>4. Fit(s, d)
  BY <1>2, <1>3 DEF Fit
<1> QED
  BY <1>4 DEF d

\* Nothing but a fault ends the use of the services.
LEMMA UsableStays ==
  ASSUME ClientsInv, AllUsable, Progress
  PROVE  AllUsable'
<1> DEFINE AllFit == \A s \in Services : Fit(s, client[s])
<1>1. AllUsable <=> AllFit
  BY DEF AllUsable, Usable, Fit
<1>2. AllUsable' <=> \A s \in Services : Fit(s, client'[s])
  BY DEF AllUsable, Usable, Fit
<1>3. \A s \in Services : ClientInv(s, client[s]) /\ Fit(s, client[s])
  BY <1>1 DEF ClientsInv
<1>4. ASSUME NEW s \in Services, NEW c, Fit(s, c), client' = [client EXCEPT ![s] = c]
      PROVE  AllUsable'
  BY <1>2, <1>3, <1>4 DEF ClientsInv
<1>5. ASSUME UNCHANGED client PROVE AllUsable'
  BY <1>2, <1>3, <1>5
<1>6. ASSUME NEW s \in Services, Works(s) PROVE AllUsable'
  <2>1. CASE \E k \in Callbacks, n \in Connections : Connects(s, k, n)
    BY <1>3, <2>1, FitIsConnected DEF Connects
  <2>2. CASE \E o \in Callbacks \X Connections : OpensChannel(s, o)
    BY <1>3, <1>4, <2>2, MoreChannelsStayFit DEF OpensChannel
  <2> QED
    BY <1>6, <2>1, <2>2 DEF Works, ClientStep
<1>7. ASSUME NEW s \in Services, NEW o, Subscribe(s, o) PROVE AllUsable'
  BY <1>3, <1>4, <1>7, MoreConsumersStayFit DEF Subscribe, Subscribes
<1>8. ASSUME NEW s \in Services, Restart(s) PROVE AllUsable'
  BY <1>3, <1>8 DEF Restart, Restarts, Fit
<1>9. ASSUME NEW s \in Services, NEW n, NEW p, Route(s, n, p) \/ Deliver(s, n, p) \/ Receive(s, n, p)
      PROVE  AllUsable'
  BY <1>5, <1>9 DEF Route, Deliver, Receive
<1>10. ASSUME NEW p, Reply(p) \/ Take(p) \/ Resolve(p) \/ Acknowledge(p) \/ Forward(p)
       PROVE  AllUsable'
  BY <1>5, <1>10 DEF Reply, Take, Resolve, Acknowledge, Forward
<1> QED
  BY <1>6, <1>7, <1>8, <1>9, <1>10 DEF Progress

\* The broker has a queue for what it is sent.
LEMMA RoutedOn ==
  ASSUME NEW s \in Services, NEW n \in Connections, NEW o \in Parcels, Route(s, n, o),
         \A t \in Readers : Queue(t) \in bound, NEW p \in Parcels, GoesOn(p)
  PROVE  GoesOn(p)'
<1> DEFINE t == Receiver(s)
<1>1. t \in Readers /\ Queue(t)[1] = t
  BY HttpsAssumption DEF Queue, Receiver, Readers
<1>2. <<Queue(t), o>> \in queued'
  BY <1>1 DEF Route, Routed
<1>3. queued \subseteq queued' /\ UNCHANGED <<boots, incoming, handled>>
  BY DEF Route
<1> HIDE DEF t
<1>4. CASE o = p
  BY <1>1, <1>2, <1>3, <1>4 DEF GoesOn, Queue
<1>5. CASE o # p
  <2>1. \A w \in outgoing : w[3] = p => w \in outgoing'
    BY <1>5 DEF Route
  <2> QED
    BY <1>3, <2>1 DEF GoesOn, Queue
<1> QED
  BY <1>4, <1>5

LEMMA DeliveredOn ==
  ASSUME NEW s \in Listeners, NEW n \in Connections, NEW o \in Parcels, Deliver(s, n, o),
         NEW p \in Parcels, GoesOn(p)
  PROVE  GoesOn(p)'
<1>1. <<s, n, o>> \in incoming' /\ incoming \subseteq incoming'
  BY DEF Deliver
<1>2. UNCHANGED <<boots, outgoing, handled>> /\ (\A r \in queued : r[2] # o => r \in queued')
  BY DEF Deliver
<1>3. CASE o = p
  BY <1>1, <1>3 DEF GoesOn, Readers
<1>4. CASE o # p
  BY <1>1, <1>2, <1>4 DEF GoesOn, Queue
<1> QED
  BY <1>3, <1>4

LEMMA ReceivedOn ==
  ASSUME NEW s \in Services, NEW n \in Connections, NEW o \in Parcels, Receive(s, n, o),
         NEW p \in Parcels, GoesOn(p)
  PROVE  GoesOn(p)'
<1>1. <<s, o>> \in handled' /\ handled \subseteq handled'
  BY DEF Receive
<1>2. UNCHANGED <<boots, outgoing, queued>> /\ (\A w \in incoming : w # <<s, n, o>> => w \in incoming')
  BY DEF Receive
<1>3. CASE o = p /\ s \in Readers
  BY <1>1, <1>3 DEF GoesOn
<1>4. CASE ~(o = p /\ s \in Readers)
  <2>1. \A t \in Readers, k \in Connections : <<t, k, p>> \in incoming => <<t, k, p>> \in incoming'
    BY <1>2, <1>4
  <2> QED
    BY <1>1, <1>2, <2>1 DEF GoesOn, Queue
<1> QED
  BY <1>3, <1>4

\* A skill that is usable can publish its reply.
LEMMA RepliedOn ==
  ASSUME ClientsInv, AllUsable, NEW o \in Parcels, Reply(o), NEW p \in Parcels, GoesOn(p)
  PROVE  GoesOn(p)'
<1>1. "skill" \in Services /\ "skill" \in Publishers
  BY HttpsAssumption
<1>2. client["skill"] \in Client /\ ClientInv("skill", client["skill"]) /\ Fit("skill", client["skill"])
  BY <1>1 DEF ClientsInv, AllUsable, Usable, Fit
<1>3. client["skill"].conn \in Connections /\ client["skill"].pub = client["skill"].conn
  BY <1>1, <1>2, FitIsConnected DEF Fit, Client
<1>4. Publishable(client["skill"])
  BY <1>1, <1>2, <1>3, FitIsConnected DEF Publishable, Fit
<1>5. <<"skill", client["skill"].pub, o>> \in outgoing' /\ outgoing \subseteq outgoing'
  BY <1>4 DEF Reply, Publish
<1>6. UNCHANGED <<boots, queued, incoming>> /\ (\A h \in handled : h[2] # o => h \in handled')
  BY DEF Reply
<1>7. CASE o = p
  BY <1>1, <1>3, <1>5, <1>7 DEF GoesOn
<1>8. CASE o # p
  BY <1>5, <1>6, <1>8 DEF GoesOn, Queue
<1> QED
  BY <1>7, <1>8

\* The resolver takes what is in its queue, and publishes a copy of it.
LEMMA ResolvedOn ==
  ASSUME NEW o \in Parcels, Take(o) \/ Resolve(o), \A t \in Readers : Queue(t) \in bound,
         NEW p \in Parcels, GoesOn(p)
  PROVE  GoesOn(p)'
<1>1. UNCHANGED <<boots, outgoing, incoming>>
  BY DEF Take, Resolve
<1>2. "resolver" \in Readers /\ "egress" \in Readers
  BY HttpsAssumption DEF Readers
<1>3. CASE Take(o)
  <2>1. <<"resolver", o>> \in handled' /\ handled \subseteq handled'
        /\ \A r \in queued : r[2] # o => r \in queued'
    BY <1>3 DEF Take
  <2>2. CASE o = p
    BY <1>2, <2>1, <2>2 DEF GoesOn
  <2>3. CASE o # p
    BY <1>1, <2>1, <2>3 DEF GoesOn, Queue
  <2> QED
    BY <2>2, <2>3
<1>4. CASE Resolve(o)
  <2>1. <<Queue("egress"), o>> \in queued' /\ queued \subseteq queued'
        /\ \A h \in handled : h[2] # o => h \in handled'
    BY <1>2, <1>4 DEF Resolve, Routed, Receiver, Queue
  <2>2. CASE o = p
    BY <1>1, <1>2, <2>1, <2>2 DEF GoesOn, Queue
  <2>3. CASE o # p
    BY <1>1, <2>1, <2>3 DEF GoesOn, Queue
  <2> QED
    BY <2>2, <2>3
<1> QED
  BY <1>3, <1>4

\* A parcel that goes on is taken to the next place, whatever is done and
\* whichever parcel it is done with.
LEMMA NextPlace ==
  ASSUME TypeInv, KeptInv, AllUsable, \A s \in Readers : Queue(s) \in bound,
         NEW p \in Parcels, posts[p] = 1 \/ GoesOn(p), Progress
  PROVE  posts'[p] = 1 \/ GoesOn(p)'
<1>1. CASE posts[p] = 1
  <2>1. ASSUME NEW o \in Parcels, Forward(o) PROVE posts'[p] = 1
    <3>1. <<"handled", <<"egress", o>>>> \in Places(o)
      BY <2>1 DEF Forward, Places
    <3>2. posts[o] = 0 /\ posts \in [Parcels -> Nat]
      BY <3>1 DEF TypeInv, FlowInv, InOnePlace
    <3> QED
      BY <1>1, <2>1, <3>2 DEF Forward
  <2>2. CASE UNCHANGED posts
    BY <1>1, <2>2
  <2> QED
    BY <2>1, <2>2 DEF Progress, Works, flowVars, Restart, Subscribe, Route, Deliver, Receive, Reply,
       Take, Resolve, Acknowledge
<1>2. CASE GoesOn(p)
  <2>1. ASSUME NEW s \in Services, Works(s) PROVE GoesOn(p)'
    BY <1>2, <2>1 DEF Works, flowVars, GoesOn, Queue
  <2>2. ASSUME UNCHANGED <<boots, queued, outgoing, incoming, handled>> PROVE GoesOn(p)'
    BY <1>2, <2>2 DEF GoesOn, Queue
  <2>3. ASSUME NEW s \in Services, Restart(s) PROVE GoesOn(p)'
    BY <2>3 DEF Restart, Restarts, AllUsable, Usable
  <2>4. ASSUME NEW s \in Services, NEW n \in Connections, NEW o \in Parcels, Route(s, n, o)
        PROVE  GoesOn(p)'
    BY <1>2, <2>4, RoutedOn
  <2>5. ASSUME NEW s \in Services, NEW n \in Connections, NEW o \in Parcels, Deliver(s, n, o)
        PROVE  GoesOn(p)'
    <3>1. s \in Listeners
      BY <2>5 DEF KeptInv, PublishersInv, OnlyPublishes, Deliver
    <3> QED
      BY <1>2, <2>5, <3>1, DeliveredOn
  <2>6. ASSUME NEW s \in Services, NEW n \in Connections, NEW o \in Parcels, Receive(s, n, o)
        PROVE  GoesOn(p)'
    BY <1>2, <2>6, ReceivedOn
  <2>7. ASSUME NEW o \in Parcels, Reply(o) PROVE GoesOn(p)'
    BY <1>2, <2>7, RepliedOn DEF TypeInv
  <2>8. ASSUME NEW o \in Parcels, Take(o) \/ Resolve(o) PROVE GoesOn(p)'
    BY <1>2, <2>8, ResolvedOn
  <2>9. ASSUME NEW o \in Parcels, Forward(o) PROVE posts'[p] = 1 \/ GoesOn(p)'
    <3>1. CASE o = p
      <4>1. <<"handled", <<"egress", p>>>> \in Places(p)
        BY <2>9, <3>1 DEF Forward, Places
      <4>2. posts[p] = 0 /\ posts \in [Parcels -> Nat]
        BY <4>1 DEF TypeInv, FlowInv, InOnePlace
      <4> QED
        BY <2>9, <3>1, <4>2 DEF Forward
    <3>2. CASE o # p
      BY <1>2, <2>9, <3>2 DEF Forward, GoesOn, Queue
    <3> QED
      BY <3>1, <3>2
  <2>10. ASSUME \/ \E s \in Services, o \in Callbacks \X Connections : Subscribe(s, o)
                \/ \E o \in Parcels : Acknowledge(o)
         PROVE  GoesOn(p)'
    BY <2>2, <2>10 DEF Subscribe, Acknowledge
  <2> QED
    BY <2>1, <2>3, <2>4, <2>5, <2>6, <2>7, <2>8, <2>9, <2>10 DEF Progress
<1> QED
  BY <1>1, <1>2

\* A message is accepted as such only with the services usable, and it is
\* published then.
LEMMA AcceptedStep ==
  ASSUME TypeInv, KeptInv, NEW m \in Messages, Post(m)
  PROVE  AcceptedIsKept'
<1>1. UNCHANGED <<client, boots, bound, queued, incoming, handled, listens, posts>>
      /\ outgoing \subseteq outgoing'
  BY DEF Post, PostRefused, PostUnsent, PostThrows, PostPublished, Answer, Publish, resolverVars
<1>2. AllUsable' <=> AllUsable
  BY <1>1 DEF AllUsable, Usable
<1>3. \A p : GoesOn(p) => GoesOn(p)'
  BY <1>1 DEF GoesOn, Queue
<1>4. CASE safe' = safe
  BY <1>1, <1>2, <1>3, <1>4 DEF KeptInv, AcceptedIsKept, Queue
<1>5. CASE safe' # safe
  <2>1. PostPublished(m) /\ AllUsable /\ listens /\ safe' = safe \cup {m}
    BY <1>5 DEF Post, PostRefused, PostUnsent, PostThrows, PostPublished
  <2>2. "ingress" \in Services /\ "ingress" \in Publishers /\ client \in [Services -> Client]
    BY HttpsAssumption DEF TypeInv, ClientsInv
  <2>3. client["ingress"].pub \in Connections
    BY <2>1, <2>2 DEF PostPublished, Publishable, Client
  <2>4. GoesOn(First(m))'
    BY <2>1, <2>2, <2>3 DEF PostPublished, Publish, GoesOn
  <2>5. \A s \in Readers : Queue(s) \in bound
    <3>1. ASSUME NEW s \in Listeners PROVE client[s].consuming # {}
      <4>1. s \in Services
        BY AmqpTsAssumption
      <4> QED
        BY <2>1, <4>1 DEF AllUsable, Usable
    <3> QED
      BY <2>1, <3>1 DEF KeptInv, ConsumersInv, Readers, TypeInv, ResolverInv
  <2> QED
    BY <1>1, <1>2, <1>3, <2>1, <2>4, <2>5 DEF KeptInv, AcceptedIsKept, Queue
<1> QED
  BY <1>4, <1>5

LEMMA KeptStep == ASSUME TypeInv, KeptInv, [Next]_vars PROVE KeptInv'
<1>1. PublishersInv' /\ ConsumersInv'
  BY PublishersStep, ConsumersStep DEF TypeInv, KeptInv
<1>2. AcceptedIsKept'
  <2>1. CASE Progress
    <3>1. safe' = safe
      BY <2>1 DEF Progress, Works, flowVars, Restart, Subscribe, Route, Deliver, Receive, Reply,
         Take, Resolve, Acknowledge, Forward
    <3> SUFFICES ASSUME safe # {}
                 PROVE  /\ AllUsable' /\ listens'
                        /\ \A s \in Readers : Queue(s)' \in bound'
                        /\ \A m \in safe : posts'[First(m)] = 1 \/ GoesOn(First(m))'
      BY <3>1 DEF AcceptedIsKept
    <3>2. AllUsable /\ listens /\ (\A s \in Readers : Queue(s) \in bound)
      BY DEF KeptInv, AcceptedIsKept
    <3>3. AllUsable' /\ listens'
      BY <2>1, <3>2, UsableStays, ListensStays DEF TypeInv
    <3>4. \A s \in Readers : Queue(s)' \in bound'
      <4> SUFFICES ASSUME NEW s \in Readers PROVE Queue(s)' \in bound'
        OBVIOUS
      <4>1. s \in Workers
        BY AmqpTsAssumption DEF Readers, Workers
      <4>2. ~(s = "skill" /\ Restart(s))
        BY <3>2, HttpsAssumption DEF AllUsable, Usable, Restart, Restarts
      <4> QED
        BY <3>2, <4>1, <4>2, QueuesStay
    <3>5. ASSUME NEW m \in safe PROVE posts'[First(m)] = 1 \/ GoesOn(First(m))'
      <4>1. First(m) \in Parcels
        BY HttpsAssumption DEF TypeInv, WireInv, First, Parcels
      <4>2. posts[First(m)] = 1 \/ GoesOn(First(m))
        BY DEF KeptInv, AcceptedIsKept
      <4> QED
        BY <2>1, <3>2, <4>1, <4>2, NextPlace
    <3> QED
      BY <3>3, <3>4, <3>5
  <2>2. CASE Faults
    <3>1. safe' = {}
      BY <2>2 DEF Faults, Disconnect, Crash, Interrupt, BrokerRestarts, ResolverBreaks, Unresolved,
         ForwardFails, Fault
    <3> QED
      BY <3>1 DEF AcceptedIsKept
  <2>3. CASE \E m \in Messages : Post(m)
    BY <2>3, AcceptedStep
  <2>4. CASE ResolverListens
    BY <2>4 DEF ResolverListens, KeptInv, AcceptedIsKept
  <2>5. CASE UNCHANGED vars
    BY <2>5 DEF vars, flowVars, resolverVars, KeptInv, AcceptedIsKept, AllUsable, Usable, GoesOn, Queue
  <2> QED
    BY <2>1, <2>2, <2>3, <2>4, <2>5 DEF Next
<1> QED
  BY <1>1, <1>2 DEF KeptInv

LEMMA KeptInitially == ASSUME Init PROVE KeptInv
<1>1. ASSUME NEW s \in Services \ Listeners PROVE OnlyPublishes(client[s])
  BY StartOnlyPublishes DEF Init, ClientInit
<1>2. ASSUME NEW s \in Listeners PROVE client[s].consuming = {}
  <2>1. s \in Services /\ client[s] = Boot(s) /\ NewClient \in Client
    BY AmqpTsAssumption DEF Init, ClientInit, NewClient, Client
  <2> QED
    BY <2>1, CallbacksKeepConsumers
<1> QED
  BY <1>1, <1>2 DEF Init, KeptInv, PublishersInv, ConsumersInv, AcceptedIsKept

\* What the ingress accepted while the services were usable is not lost before
\* something breaks: it arrived, or it is where a service that can takes it
\* further.  Fairness then is all that its arrival needs.
THEOREM AcceptedIsKeptHolds == Spec => []AcceptedIsKept
<1>1. KeptInv => AcceptedIsKept
  BY DEF KeptInv
<1>2. Init => TypeInv /\ KeptInv
  BY TypesInitially, KeptInitially
<1>3. TypeInv /\ KeptInv /\ [Next]_vars => (TypeInv /\ KeptInv)'
  BY TypesStep, KeptStep
<1> QED
  BY <1>1, <1>2, <1>3, PTL DEF Spec

------------------------------------------------------------------------------
(* No process is stuck *)

\* Who is to listen has subscribed or will when its publishing is set up; who has
\* subscribed consumes as soon as there is a connection, or is about to.
Listens(c) ==
  c.up /\ ~c.destroyed =>
    /\ c.subscribed \/ c.dialing = {"publish"} \/ \E o \in c.opening : o[1] = "publish"
    /\ c.subscribed => c.dialing \subseteq {"listen", "reconnect"}
    /\ c.subscribed /\ ~c.closed =>
         \/ c.conn \in c.consuming
         \/ \E o \in c.opening \cup c.declaring : o[1] \in {"listen", "reconnect"}

\* A process that cannot be used yet is dialling, or waits for a callback on a
\* connection that is open.
NoClientIsStuck ==
  \A s \in Services :
    LET c == client[s]
    IN  c.up /\ ~c.destroyed =>
          Usable(s) \/ c.dialing # {} \/ \E o \in c.opening \cup c.declaring : o[2] \in c.live

LEMMA BootListens == ASSUME NEW s \in Services PROVE Listens(Boot(s)) /\ Listens(Down)
<1>1. Listens(Down)
  BY DEF Listens, Down, NewClient
<1>2. CASE s \in Publishers
  <2>1. Boot(s) = [NewClient EXCEPT !.dialing = {"publish"}]
    BY <1>2 DEF Boot, SetupPublishing, NotConnected, Dial, NewClient
  <2> QED
    BY <1>1, <2>1 DEF Listens, NewClient
<1>3. CASE s \notin Publishers
  <2>1. Boot(s) = [NewClient EXCEPT !.subscribed = TRUE, !.dialing = {"listen"}]
    BY <1>3 DEF Boot, StartListening, ConnectAndDoSubscription, NotConnected, Dial, NewClient
  <2> QED
    BY <1>1, <2>1 DEF Listens, NewClient
<1> QED
  BY <1>2, <1>3

\* On a connection that is there, a channel is opened for what the callback is.
LEMMA OpenChannelFields ==
  ASSUME NEW c, c \in Client, NEW k
  PROVE  LET new == OpenChannel(c, k)
         IN  /\ new.up = c.up /\ new.destroyed = c.destroyed /\ new.subscribed = c.subscribed
             /\ new.closed = c.closed /\ new.conn = c.conn /\ new.dialing = c.dialing
             /\ new.opening = c.opening \cup {<<k, c.conn>>}
             /\ new.declaring = c.declaring /\ new.consuming = c.consuming
BY DEF OpenChannel, Client

LEMMA ConnectListens ==
  ASSUME NEW s \in Services, NEW c, ClientInv(s, c), Listens(c), NEW k \in c.dialing,
         NEW n \in Connections
  PROVE  Listens(Connect(c, k, n))
<1> DEFINE new == [c EXCEPT !.conn = n, !.closed = FALSE, !.live = @ \cup {n}, !.dialing = @ \ {k}]
<1>1. c \in Client /\ k \in Callbacks
  BY DEF ClientInv, Client
<1>2. new \in Client /\ new.conn = n /\ ~new.closed /\ n # 0
  BY <1>1, ConnectionNumbers DEF Client
<1>3. /\ new.up = c.up /\ new.destroyed = c.destroyed /\ new.subscribed = c.subscribed
      /\ new.dialing = c.dialing \ {k} /\ new.opening = c.opening
  BY <1>1 DEF Client
<1>4. Connect(c, k, n) = IF k \in {"publish", "republish"} THEN OpenChannel(new, k)
                                                           ELSE DoSubscription(new, k)
  BY DEF Connect
<1> HIDE DEF new
<1>5. Connect(c, k, n) \in {new, OpenChannel(new, k), OpenChannel(new, "republish")}
  BY <1>2, <1>4 DEF DoSubscription, AfterSubscription, SetupPublishing, NotConnected
<1>6. CASE ~(c.up /\ ~c.destroyed)
  BY <1>2, <1>3, <1>5, <1>6, OpenChannelFields DEF Listens
<1>7. CASE c.up /\ ~c.destroyed
  <2>1. c.dialing = {k} /\ c.opening = {} /\ new.dialing = {}
    BY <1>3, <1>7 DEF ClientInv, Seeking, Connected, Silent
  <2>2. c.subscribed <=> k \in {"listen", "reconnect"}
    BY <1>1, <1>7, <2>1 DEF Listens
  <2>3. ~c.subscribed => k = "publish"
    BY <1>7, <2>1 DEF Listens
  <2>4. Connect(c, k, n) = OpenChannel(new, k)
    BY <1>1, <1>2, <1>3, <1>4, <2>2, <2>3 DEF DoSubscription
  <2> DEFINE next == Connect(c, k, n)
  <2>5. /\ next.subscribed = c.subscribed /\ next.dialing = {}
        /\ <<k, n>> \in next.opening
    BY <1>2, <1>3, <2>1, <2>4, OpenChannelFields
  <2> HIDE DEF next
  <2>6. <<k, n>>[1] = k
    OBVIOUS
  <2>7. next.subscribed \/ \E o \in next.opening : o[1] = "publish"
    BY <2>3, <2>5, <2>6
  <2>8. next.subscribed => \E o \in next.opening \cup next.declaring : o[1] \in {"listen", "reconnect"}
    BY <2>2, <2>5, <2>6
  <2>9. Listens(next)
    BY <2>5, <2>7, <2>8 DEF Listens
  <2> QED
    BY <2>9 DEF next
<1> QED
  BY <1>6, <1>7

LEMMA ChannelOpenedListens ==
  ASSUME NEW s \in Listeners, NEW c, ClientInv(s, c), Listens(c), NEW o \in c.opening
  PROVE  Listens(ChannelOpened(s, c, o))
<1> DEFINE new == [c EXCEPT !.pub = o[2], !.opening = @ \ {o}]
<1>1. c \in Client /\ o \in Callbacks \X Connections
  BY DEF ClientInv, Client
<1>2. new \in Client /\ new.opening = c.opening \ {o}
  BY <1>1 DEF Client
<1>3. /\ new.up = c.up /\ new.destroyed = c.destroyed /\ new.subscribed = c.subscribed
      /\ new.closed = c.closed /\ new.conn = c.conn /\ new.dialing = c.dialing
      /\ new.declaring = c.declaring /\ new.consuming = c.consuming
  BY <1>1 DEF Client
<1> HIDE DEF new
<1>4. ASSUME c.up, ~c.destroyed
      PROVE  ~c.closed /\ c.conn # 0 /\ c.dialing = {}
  BY <1>4 DEF ClientInv, Seeking, Connected, Silent
<1>5. CASE o[1] \in {"listen", "reconnect"}
  <2> DEFINE next == [new EXCEPT !.declaring = @ \cup {o}]
  <2>1. ChannelOpened(s, c, o) = next
    BY <1>5 DEF ChannelOpened, new
  <2>2. next.declaring = new.declaring \cup {o}
    BY <1>2 DEF Client
  <2>3. /\ next.up = new.up /\ next.destroyed = new.destroyed /\ next.closed = new.closed
        /\ next.conn = new.conn /\ next.dialing = new.dialing
        /\ next.opening = new.opening /\ next.subscribed = new.subscribed
    BY <1>2 DEF Client
  <2> HIDE DEF next
  <2>4. c.up /\ ~c.destroyed => c.subscribed \/ \E p \in c.opening \ {o} : p[1] = "publish"
    BY <1>4, <1>5 DEF Listens
  <2> QED
    BY <1>2, <1>3, <1>4, <1>5, <2>1, <2>2, <2>3, <2>4 DEF Listens
<1>6. CASE o[1] = "publish"
  <2> DEFINE sub == [new EXCEPT !.subscribed = TRUE]
  <2>1. ChannelOpened(s, c, o) = ConnectAndDoSubscription(sub, "listen")
    BY <1>6 DEF ChannelOpened, StartListening, new
  <2>2. sub \in Client /\ sub.subscribed
    BY <1>2 DEF Client
  <2>3. /\ sub.up = new.up /\ sub.destroyed = new.destroyed /\ sub.closed = new.closed
        /\ sub.conn = new.conn /\ sub.dialing = new.dialing
    BY <1>2 DEF Client
  <2> HIDE DEF sub
  <2>4. CASE ~(c.up /\ ~c.destroyed)
    <3>1. ConnectAndDoSubscription(sub, "listen") \in {Dial(sub, "listen"), sub, OpenChannel(sub, "listen")}
      BY <2>2 DEF ConnectAndDoSubscription, DoSubscription
    <3>2. Dial(sub, "listen").up = sub.up /\ Dial(sub, "listen").destroyed = sub.destroyed
      BY <2>2 DEF Dial, Client
    <3> QED
      BY <1>3, <2>1, <2>2, <2>3, <2>4, <3>1, <3>2, OpenChannelFields DEF Listens
  <2>5. CASE c.up /\ ~c.destroyed
    <3>1. ConnectAndDoSubscription(sub, "listen") = OpenChannel(sub, "listen")
      BY <1>3, <1>4, <2>2, <2>3, <2>5 DEF ConnectAndDoSubscription, NotConnected, DoSubscription
    <3>2. <<"listen", sub.conn>>[1] = "listen" /\ sub.dialing = {}
      BY <1>3, <1>4, <2>3, <2>5
    <3> DEFINE next == OpenChannel(sub, "listen")
    <3>3. /\ next.subscribed = sub.subscribed /\ next.dialing = sub.dialing
          /\ <<"listen", sub.conn>> \in next.opening
      <4>1. /\ next.subscribed = sub.subscribed /\ next.dialing = sub.dialing
            /\ next.opening = sub.opening \cup {<<"listen", sub.conn>>}
        BY <2>2, OpenChannelFields
      <4> QED
        BY <4>1
    <3> HIDE DEF next
    <3>4. \E p \in next.opening \cup next.declaring : p[1] \in {"listen", "reconnect"}
      BY <3>2, <3>3
    <3>5. Listens(next)
      BY <2>2, <3>2, <3>3, <3>4 DEF Listens
    <3> QED
      BY <2>1, <3>1, <3>5 DEF next
  <2> QED
    BY <2>4, <2>5
<1>7. CASE o[1] \notin {"listen", "reconnect", "publish"}
  <2>1. ChannelOpened(s, c, o) = new
    BY <1>7 DEF ChannelOpened, new
  <2> QED
    BY <1>2, <1>3, <1>7, <2>1 DEF Listens
<1> QED
  BY <1>5, <1>6, <1>7

LEMMA QueueDeclaredListens ==
  ASSUME NEW s \in Services, NEW c, ClientInv(s, c), Listens(c), NEW o \in c.declaring
  PROVE  Listens(QueueDeclared(c, o))
<1> DEFINE new == [c EXCEPT !.declaring = @ \ {o}, !.consuming = @ \cup {o[2]}]
<1>1. c \in Client /\ o \in Callbacks \X Connections
  BY DEF ClientInv, Client
<1>2. new \in Client /\ new.consuming = c.consuming \cup {o[2]}
  BY <1>1 DEF Client
<1>3. /\ new.up = c.up /\ new.destroyed = c.destroyed /\ new.subscribed = c.subscribed
      /\ new.closed = c.closed /\ new.conn = c.conn /\ new.dialing = c.dialing
      /\ new.opening = c.opening
  BY <1>1 DEF Client
<1>4. QueueDeclared(c, o) \in {new, SetupPublishing(new, "republish")}
  BY DEF QueueDeclared, AfterSubscription
<1> HIDE DEF new
<1>5. ASSUME c.up, ~c.destroyed
      PROVE  ~c.closed /\ c.conn # 0 /\ o[2] = c.conn
  BY <1>5 DEF ClientInv, Seeking, Connected, Silent
<1>6. Listens(new)
  BY <1>2, <1>3, <1>5 DEF Listens
<1>7. Listens(SetupPublishing(new, "republish"))
  <2>1. CASE NotConnected(new)
    <3>1. ~(new.up /\ ~new.destroyed)
      BY <1>3, <1>5, <2>1 DEF NotConnected
    <3>2. Dial(new, "republish").up = new.up /\ Dial(new, "republish").destroyed = new.destroyed
      BY <1>2 DEF Dial, Client
    <3> QED
      BY <2>1, <3>1, <3>2 DEF SetupPublishing, Listens
  <2>2. CASE ~NotConnected(new)
    BY <1>2, <1>6, <2>2, OpenChannelFields DEF SetupPublishing, Listens
  <2> QED
    BY <2>1, <2>2
<1> QED
  BY <1>4, <1>6, <1>7

\* Nobody loses a connection in an orderly way before it has subscribed.
LEMMA ClosedListens ==
  ASSUME NEW s \in Services, NEW c, ClientInv(s, c), Listens(c), NEW n \in c.live, ~Awaited(c, n)
  PROVE  Listens(Closed(c, n))
<1> DEFINE rest == [c EXCEPT !.live = @ \ {n}, !.consuming = @ \ {n}]
           new == [rest EXCEPT !.closed = TRUE, !.dialing = @ \cup {"reconnect"}]
<1>1. c \in Client
  BY DEF ClientInv
<1>2. CASE c.destroyed
  <2>1. Closed(c, n) = rest /\ rest.destroyed
    BY <1>1, <1>2 DEF Closed, Client
  <2> QED
    BY <2>1 DEF Listens
<1>3. CASE ~c.destroyed
  <2>1. Closed(c, n) = new
    BY <1>1, <1>3 DEF Closed, ConnectAndDoSubscription, NotConnected, Dial, Client
  <2>2. /\ new.up = c.up /\ new.destroyed = c.destroyed /\ new.subscribed = c.subscribed
        /\ new.closed /\ new.dialing = c.dialing \cup {"reconnect"}
    BY <1>1 DEF Client
  <2> HIDE DEF new
  <2>3. ASSUME c.up
        PROVE  c.subscribed /\ c.dialing = {}
    <3>1. Connected(c) /\ n = c.conn
      BY <1>3, <2>3 DEF ClientInv, Seeking, Connected, Silent
    <3>2. c.opening = {} /\ c.dialing = {}
      BY <3>1 DEF Connected, Awaited
    <3> QED
      BY <1>3, <2>3, <3>2 DEF Listens
  <2> QED
    BY <2>1, <2>2, <2>3 DEF Listens
<1> QED
  BY <1>2, <1>3

LEMMA CleanupListens ==
  ASSUME NEW c, c \in Client
  PROVE  Listens(Cleanup(c))
<1> DEFINE last == [c EXCEPT !.destroyed = TRUE]
           shut == [c EXCEPT !.destroyed = TRUE, !.closed = TRUE, !.live = @ \ {c.conn},
                             !.consuming = @ \ {c.conn}]
<1>1. Cleanup(c) \in {last, Down, shut}
  BY DEF Cleanup
<1>2. last.destroyed /\ shut.destroyed /\ ~Down.up
  BY DEF Client, Down, NewClient
<1> QED
  BY <1>1, <1>2 DEF Listens

ListenersInv == \A s \in Listeners : Listens(client[s])

LEMMA ListenersStep == ASSUME ClientsInv, ListenersInv, [Next]_vars PROVE ListenersInv'
<1> SUFFICES ASSUME NEW s \in Listeners
             PROVE  Listens(client'[s])
  BY DEF ListenersInv
<1>1. s \in Services /\ ClientInv(s, client[s]) /\ client[s] \in Client /\ Listens(client[s])
  BY AmqpTsAssumption DEF ClientsInv, ClientInv, ListenersInv
<1> DEFINE c == client[s]
<1>2. \/ client'[s] = c
      \/ \E k \in c.dialing, n \in Connections : client'[s] = Connect(c, k, n)
      \/ \E o \in c.opening : client'[s] = ChannelOpened(s, c, o)
      \/ \E o \in c.declaring : client'[s] = QueueDeclared(c, o)
      \/ \E n \in c.live : ~Awaited(c, n) /\ client'[s] = Closed(c, n)
      \/ client'[s] \in {Down, Cleanup(c), Boot(s)}
  BY <1>1, ClientCases
<1> HIDE DEF c
<1>3. s \in Services /\ ClientInv(s, c) /\ c \in Client /\ Listens(c)
  BY <1>1 DEF c
<1> QED
  BY <1>2, <1>3, BootListens, ConnectListens, ChannelOpenedListens, QueueDeclaredListens, ClosedListens,
     CleanupListens

\* However connections end, and whatever they end in the middle of: a process that
\* is up and was not told to end is usable, or dials, or has a callback ahead on a
\* connection that is open.  Fairness then is all that ClientsRecover needs.
THEOREM NoClientIsStuckHolds == Spec => []NoClientIsStuck
<1>1. Init => ListenersInv
  BY AmqpTsAssumption, BootListens DEF Init, ClientInit, ListenersInv
<1>2. ClientsInv /\ ListenersInv => NoClientIsStuck
  <2> SUFFICES ASSUME ClientsInv, ListenersInv, NEW s \in Services,
                      client[s].up, ~client[s].destroyed, client[s].dialing = {},
                      \A o \in client[s].opening \cup client[s].declaring : o[2] \notin client[s].live
               PROVE  Usable(s)
    BY DEF NoClientIsStuck
  <2> DEFINE c == client[s]
  <2>1. Connected(c) /\ Replaced(s, c)
    BY DEF ClientsInv, ClientInv, Seeking, Silent
  <2>2. c.opening = {} /\ c.declaring = {} /\ ~c.closed /\ c.conn \in c.live
    BY <2>1 DEF Connected
  <2>3. s \in Publishers => c.pub = c.conn
    BY <2>1, <2>2 DEF Replaced
  <2>4. s \in Listeners => c.conn \in c.consuming
    BY <2>2 DEF ListenersInv, Listens
  <2> QED
    BY <2>2, <2>3, <2>4 DEF Usable
<1>3. ClientsInv /\ ListenersInv /\ [Next]_vars => ListenersInv'
  BY ListenersStep
<1> QED
  BY <1>1, <1>2, <1>3, ClientsAlways, PTL DEF Spec
=============================================================================
