-------------------------------- MODULE AmqpGo --------------------------------
(***************************************************************************)
(* The Go services' AMQP client (package amqpclient) and the connections   *)
(* it dials to the broker.  Connections are numbered in dialling order.    *)
(* What the client writes travels on "wire" in order and is processed by   *)
(* the broker as long as it keeps the connection's session; the two sides  *)
(* notice the end of a connection each in its own time.                    *)
(*                                                                         *)
(* Publish, Listen and the acknowledgements of deliveries are the steps of *)
(* the service that owns the client; this module has what they need.       *)
(***************************************************************************)
EXTENDS Sequences, Integers

CONSTANTS
  MaxLosses,   \* bound on connections that break
  MaxCrashes   \* bound on restarts of the process

ASSUME AmqpAssumption == MaxLosses \in Nat /\ MaxCrashes \in Nat

\* Every connection but the first replaces one that broke or crashed.
Connections == 1 .. (MaxLosses + MaxCrashes + 1)

VARIABLES
  dialer,    \* where Connect is: dialing, dialed, opened, then its goroutine:
             \* watching for the end of the connection, or gone
  conn,      \* c.conn, 0 for nil
  up,        \* ~c.conn.IsClosed()
  channel,   \* connection that c.channel belongs to, 0 for nil
  session,   \* per connection, at the broker: none, open or ended
  wire,      \* per connection: frames on their way to the broker
  losses

clientVars == <<dialer, conn, up, channel>>
amqpVars == <<dialer, conn, up, channel, session, wire, losses>>

AmqpTypeOK(Frame) ==
  /\ dialer \in {"dialing", "dialed", "opened", "watching", "gone"}
  /\ conn \in Connections \cup {0}
  /\ up \in BOOLEAN
  /\ channel \in Connections \cup {0}
  /\ session \in [Connections -> {"none", "open", "ended"}]
  /\ wire \in [Connections -> Seq(Frame)]
  /\ losses \in 0 .. MaxLosses

AmqpInit ==
  /\ dialer = "dialing" /\ conn = 0 /\ up = FALSE /\ channel = 0
  /\ session = [c \in Connections |-> "none"]
  /\ wire = [c \in Connections |-> <<>>]
  /\ losses = 0

------------------------------------------------------------------------------
\* amqp.Dial succeeds; failed attempts only sleep and try again.
Dial ==
  /\ dialer = "dialing"
  /\ \E c \in Connections :
       /\ session[c] = "none" /\ \A d \in Connections : d < c => session[d] # "none"
       /\ conn' = c
       /\ session' = [session EXCEPT ![c] = "open"]
  /\ up' = TRUE
  /\ dialer' = "dialed"
  /\ UNCHANGED <<channel, wire, losses>>

\* conn.Channel(), dialling again when it fails; the error of ExchangeDeclare
\* is not looked at.
OpenChannel ==
  /\ dialer = "dialed"
  /\ IF up
     THEN dialer' = "opened" /\ channel' = conn
     ELSE dialer' = "dialing" /\ UNCHANGED channel
  /\ UNCHANGED <<conn, up, session, wire, losses>>

\* The goroutine asks for notification.  The driver closes the listener of a
\* connection that is closed already, which reads like a regular Close: the
\* goroutine ends and nobody will reconnect.
Watch ==
  /\ dialer = "opened"
  /\ dialer' = IF up THEN "watching" ELSE "gone"
  /\ UNCHANGED <<conn, up, channel, session, wire, losses>>

\* The notification carries an error: Connect again.
Reconnect ==
  /\ dialer = "watching" /\ ~up
  /\ dialer' = "dialing"
  /\ UNCHANGED <<conn, up, channel, session, wire, losses>>

Loss == losses < MaxLosses /\ losses' = losses + 1

\* The client finds the connection broken before the broker does, or after.
ClientLoses ==
  /\ up
  /\ IF session[conn] = "open" THEN Loss ELSE UNCHANGED losses
  /\ up' = FALSE
  /\ UNCHANGED <<dialer, conn, channel, session, wire>>

\* The broker gives up the session of connection c and what is on the wire.
EndSession(c) ==
  /\ session[c] = "open"
  /\ IF up /\ c = conn THEN Loss ELSE UNCHANGED losses
  /\ session' = [session EXCEPT ![c] = "ended"]
  /\ wire' = [wire EXCEPT ![c] = <<>>]
  /\ UNCHANGED clientVars

\* c.conn is open and c.channel, written a moment after it, is a channel of it:
\* otherwise Publish and Listen fail, sleep and try again.
Usable == up /\ channel = conn

\* Write a frame to connection c: nobody learns whether it arrives.
Send(c, f) ==
  wire' = IF session[c] = "open" THEN [wire EXCEPT ![c] = Append(@, f)] ELSE wire

\* The process starts over.  What it wrote may still arrive.
RestartClient ==
  /\ dialer' = "dialing" /\ conn' = 0 /\ up' = FALSE /\ channel' = 0
  /\ UNCHANGED <<session, wire, losses>>

\* The client lost its connection and does not know: it will not reconnect.
Abandoned == dialer = "gone" /\ ~up

ClientNext == Dial \/ OpenChannel \/ Watch \/ Reconnect \/ ClientLoses

\* Goroutines run, dialling succeeds in the end, and a client that does not
\* get through to the broker finds out.
ClientFairness ==
  /\ WF_amqpVars(Dial) /\ WF_amqpVars(OpenChannel)
  /\ WF_amqpVars(Watch) /\ WF_amqpVars(Reconnect)
  /\ WF_amqpVars(ClientLoses /\ session[conn] = "ended")
=============================================================================
