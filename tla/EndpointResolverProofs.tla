------------------------ MODULE EndpointResolverProofs ------------------------
(***************************************************************************)
(* What holds of module EndpointResolver for any number of messages,       *)
(* endpoints, answers, broken connections and restarts.                    *)
(***************************************************************************)
EXTENDS EndpointResolver, AmqpGoProofs, FiniteSetTheorems

(***************************************************************************)
(* Facts about frames, connections and the wire.                           *)
(***************************************************************************)
\* A nil connection is none of the numbered ones.
LEMMA ConnectionFacts == 0 \notin Connections /\ Connections \subseteq Nat
BY AmqpAssumption DEF Connections

\* A frame is a copy or a verdict, and says so.
LEMMA FrameFacts ==
  /\ \A m \in Messages, e \in Endpoints :
       [kind |-> "publish", copy |-> [msg |-> m, endpoint |-> e]] \in Frame
  /\ \A m \in Messages : /\ [kind |-> "ack", msg |-> m] \in Frame
                         /\ [kind |-> "nack", msg |-> m] \in Frame
  /\ \A f \in Frame : f.kind = "publish" => f.copy \in Copy
  /\ \A f \in Frame : f.kind \in {"ack", "nack"} =>
       f.msg \in Messages /\ f = [kind |-> f.kind, msg |-> f.msg]
  /\ \A f \in Frame : f.kind \in {"publish", "ack", "nack"}
BY DEF Frame, Copy

\* Writing a frame leaves what is on the wire alone and puts it behind.
LEMMA SendFacts ==
  ASSUME TypeOK, NEW c \in Connections, NEW f \in Frame, Send(c, f)
  PROVE  /\ wire' \in [Connections -> Seq(Frame)]
         /\ \A d \in Connections : d # c => wire'[d] = wire[d]
         /\ session[c] # "open" => wire' = wire
         /\ session[c] = "open" =>
              /\ Len(wire'[c]) = Len(wire[c]) + 1
              /\ \A i \in 1 .. Len(wire[c]) : wire'[c][i] = wire[c][i]
              /\ wire'[c][Len(wire[c]) + 1] = f
<1>1. wire \in [Connections -> Seq(Frame)]
  BY DEF TypeOK, AmqpTypeOK
<1>2. CASE session[c] = "open"
  <2>1. wire' = [wire EXCEPT ![c] = Append(wire[c], f)]
    BY <1>2 DEF Send
  <2>2. /\ Append(wire[c], f) \in Seq(Frame)
        /\ Len(Append(wire[c], f)) = Len(wire[c]) + 1
        /\ \A i \in 1 .. Len(wire[c]) : Append(wire[c], f)[i] = wire[c][i]
        /\ Append(wire[c], f)[Len(wire[c]) + 1] = f
    BY <1>1, AppendProperties
  <2>3. QED BY <1>1, <1>2, <2>1, <2>2
<1>3. CASE session[c] # "open"
  BY <1>1, <1>3 DEF Send
<1>4. QED BY <1>2, <1>3

\* Processing the first frame moves the others one place up.
LEMMA ArriveFacts ==
  ASSUME TypeOK, NEW c \in Connections, wire[c] # <<>>,
         wire' = [wire EXCEPT ![c] = Tail(@)]
  PROVE  /\ Head(wire[c]) \in Frame
         /\ Head(wire[c]) = wire[c][1]
         /\ 1 \in DOMAIN wire[c]
         /\ wire' \in [Connections -> Seq(Frame)]
         /\ \A d \in Connections : d # c => wire'[d] = wire[d]
         /\ Len(wire'[c]) = Len(wire[c]) - 1
         /\ \A i \in 1 .. Len(wire'[c]) : wire'[c][i] = wire[c][i + 1]
<1>1. wire \in [Connections -> Seq(Frame)]
  BY DEF TypeOK, AmqpTypeOK
<1>2. /\ Head(wire[c]) \in Frame /\ Tail(wire[c]) \in Seq(Frame)
      /\ Len(Tail(wire[c])) = Len(wire[c]) - 1
      /\ \A i \in 1 .. Len(Tail(wire[c])) : Tail(wire[c])[i] = wire[c][i + 1]
  BY <1>1, HeadTailProperties
<1>3. Head(wire[c]) = wire[c][1] /\ 1 \in DOMAIN wire[c]
  BY <1>1
<1>4. QED BY <1>1, <1>2, <1>3

(***************************************************************************)
(* Type correctness.                                                       *)
(***************************************************************************)
\* The initial state is of the types.
LEMMA TypeInit == Init => TypeOK
<1> SUFFICES ASSUME Init PROVE TypeOK
  OBVIOUS
<1>1. AmqpTypeOK(Frame)
  <2>1. losses \in 0 .. MaxLosses
    BY AmqpAssumption DEF Init, AmqpInit
  <2>2. \A F : <<>> \in Seq(F)
    OBVIOUS
  <2>3. wire \in [Connections -> Seq(Frame)]
    BY <2>2 DEF Init, AmqpInit
  <2>4. QED
    BY <2>1, <2>3 DEF Init, AmqpInit, AmqpTypeOK
<1>2. crashes \in 0 .. MaxCrashes
  BY AmqpAssumption DEF Init
<1>3. todo \in Seq(Endpoints \cup {"incomplete"})
  BY DEF Init
<1>4. arrived \in [Copy -> Nat]
  BY DEF Init
<1>5. QED
  BY <1>1, <1>2, <1>3, <1>4 DEF Init, TypeOK

\* A loss is counted up to its bound.
LEMMA LossFacts ==
  ASSUME TypeOK, Loss \/ UNCHANGED losses
  PROVE  losses' \in 0 .. MaxLosses
BY AmqpAssumption DEF Loss, TypeOK, AmqpTypeOK

\* The client keeps its types.
LEMMA TypeClient ==
  ASSUME TypeOK, Sessions, Client
  PROVE  TypeOK'
<1> USE DEF Client, brokerVars, workerVars
<1>1. CASE Dial
  BY <1>1 DEF Dial, TypeOK, AmqpTypeOK
<1>2. CASE OpenChannel
  BY <1>2 DEF OpenChannel, TypeOK, AmqpTypeOK
<1>3. CASE Watch
  BY <1>3 DEF Watch, TypeOK, AmqpTypeOK
<1>4. CASE Reconnect
  BY <1>4 DEF Reconnect, TypeOK, AmqpTypeOK
<1>5. CASE ClientLoses
  <2>1. losses' \in 0 .. MaxLosses
    BY <1>5, LossFacts DEF ClientLoses
  <2>2. QED
    BY <1>5, <2>1 DEF ClientLoses, TypeOK, AmqpTypeOK
<1>6. QED BY <1>1, <1>2, <1>3, <1>4, <1>5 DEF ClientNext

\* The goroutine keeps its types: what it is processing is a message.
LEMMA TypeWorker ==
  ASSUME TypeOK, Busy, Sessions, Worker
  PROVE  TypeOK'
<1> USE DEF brokerVars, workerVars, amqpVars, clientVars
<1>1. CASE Listen
  BY <1>1 DEF Listen, Usable, Sessions, TypeOK, AmqpTypeOK
<1>2. CASE Take
  BY <1>2 DEF Take, TypeOK, AmqpTypeOK
<1>3. CASE DeliveriesClosed
  BY <1>3 DEF DeliveriesClosed, TypeOK, AmqpTypeOK
<1>4. CASE Resolve
  <2>1. PICK answer \in Answers :
          /\ todo' = answer
          /\ plan' = [plan EXCEPT ![current] = ToSet(answer) \ {"incomplete"}]
    BY <1>4 DEF Resolve
  <2>2. answer \in Seq(Endpoints \cup {"incomplete"})
    BY ResolverAssumption
  <2>3. ToSet(answer) \subseteq Endpoints \cup {"incomplete"}
    BY <2>2 DEF ToSet
  <2>4. QED
    BY <1>4, <2>1, <2>2, <2>3 DEF Resolve, TypeOK, AmqpTypeOK
<1>5. CASE ResolveFails
  BY <1>5 DEF ResolveFails, TypeOK, AmqpTypeOK
<1>6. CASE Skip
  BY <1>6, HeadTailProperties DEF Skip, TypeOK, AmqpTypeOK
<1>7. CASE Forward
  <2> DEFINE f == [kind |-> "publish", copy |-> [msg |-> current, endpoint |-> Head(todo)]]
  <2>1. todo \in Seq(Endpoints \cup {"incomplete"}) /\ todo # <<>>
    BY <1>7 DEF Forward, TypeOK
  <2>2. Head(todo) \in Endpoints /\ Tail(todo) \in Seq(Endpoints \cup {"incomplete"})
    BY <1>7, <2>1, HeadTailProperties DEF Forward
  <2>3. conn \in Connections /\ current \in Messages
    BY <1>7 DEF Forward, Usable, Sessions, Busy, TypeOK, AmqpTypeOK
  <2>4. f \in Frame
    BY <2>2, <2>3, FrameFacts
  <2>5. Send(conn, f)
    BY <1>7 DEF Forward
  <2>6. wire' \in [Connections -> Seq(Frame)]
    <3> HIDE DEF f
    <3>1. QED BY <2>3, <2>4, <2>5, SendFacts
  <2>7. QED
    BY <1>7, <2>2, <2>6 DEF Forward, TypeOK, AmqpTypeOK
<1>8. CASE Unsupported
  BY <1>8 DEF Unsupported, TypeOK, AmqpTypeOK
<1>9. CASE Settle
  <2>1. wire' \in [Connections -> Seq(Frame)]
    <3>1. current \in Messages
      BY <1>9 DEF Settle, Busy, TypeOK
    <3>2. /\ [kind |-> "ack", msg |-> current] \in Frame
          /\ [kind |-> "nack", msg |-> current] \in Frame
      BY <3>1, FrameFacts
    <3>3. PICK v \in {"ack", "nack"} : Answer(v)
      BY <1>9 DEF Settle
    <3>4. CASE SourceClosed
      BY <3>3, <3>4 DEF Answer, TypeOK, AmqpTypeOK
    <3>5. CASE ~SourceClosed
      <4>1. source \in Connections
        BY <3>5 DEF SourceClosed, Sessions, TypeOK, AmqpTypeOK
      <4>2. [kind |-> v, msg |-> current] \in Frame
        BY <3>2
      <4>3. Send(source, [kind |-> v, msg |-> current])
        BY <3>3, <3>5 DEF Answer
      <4>4. QED BY <4>1, <4>2, <4>3, SendFacts
    <3>6. QED BY <3>4, <3>5
  <2>2. QED
    BY <1>9, <2>1 DEF Settle, TypeOK, AmqpTypeOK
<1>10. QED
  BY <1>1, <1>2, <1>3, <1>4, <1>5, <1>6, <1>7, <1>8, <1>9 DEF Worker

\* The exchange counts a copy or drops it; what was counted stays counted.
LEMMA RouteFacts ==
  ASSUME NEW copy \in Copy, Route(copy), arrived \in [Copy -> Nat], unrouted \subseteq Copy
  PROVE  /\ arrived' \in [Copy -> Nat] /\ unrouted' \subseteq Copy
         /\ \A x \in Copy : arrived[x] > 0 => arrived'[x] > 0
         /\ unrouted \subseteq unrouted'
         /\ arrived'[copy] > 0 \/ copy \in unrouted'
<1>1. CASE arrived' = [arrived EXCEPT ![copy] = @ + 1] /\ unrouted' = unrouted
  BY <1>1
<1>2. CASE unrouted' = unrouted \cup {copy} /\ arrived' = arrived
  BY <1>2
<1>3. QED BY <1>1, <1>2 DEF Route

\* So do the broker and the processes around it.
LEMMA TypeOthers ==
  ASSUME TypeOK
  PROVE  /\ \A c \in Connections : Deliver(c) \/ Arrive(c) \/ SessionEnds(c) => TypeOK'
         /\ BrokerRestarts => TypeOK'
         /\ EgressStarts => TypeOK'
         /\ Restart => TypeOK'
<1> USE DEF brokerVars, workerVars, amqpVars, clientVars
<1>1. ASSUME NEW c \in Connections, Deliver(c) PROVE TypeOK'
  BY <1>1 DEF Deliver, TypeOK, AmqpTypeOK
<1>2. ASSUME NEW c \in Connections, Arrive(c) PROVE TypeOK'
  <2>1. wire[c] # <<>> /\ wire' = [wire EXCEPT ![c] = Tail(@)]
    BY <1>2 DEF Arrive
  <2>2. wire' \in [Connections -> Seq(Frame)] /\ Head(wire[c]) \in Frame
    BY <2>1, ArriveFacts
  <2>3. CASE Head(wire[c]).kind = "publish"
    <3>1. Head(wire[c]).copy \in Copy
      BY <2>2, <2>3, FrameFacts
    <3>2. Route(Head(wire[c]).copy) /\ UNCHANGED <<queue, unacked, settled>>
      BY <1>2, <2>3 DEF Arrive
    <3>3. arrived' \in [Copy -> Nat] /\ unrouted' \subseteq Copy
      BY <3>1, <3>2, RouteFacts DEF TypeOK
    <3>4. QED
      BY <1>2, <2>2, <3>2, <3>3 DEF Arrive, TypeOK, AmqpTypeOK
  <2>4. CASE Head(wire[c]).kind \in {"ack", "nack"}
    <3>1. Head(wire[c]).msg \in Messages
      BY <2>2, <2>4, FrameFacts
    <3>2. /\ Acked(c, Head(wire[c]).msg) \/ Nacked(c, Head(wire[c]).msg)
          /\ UNCHANGED <<arrived, unrouted>>
      BY <1>2, <2>4 DEF Arrive
    <3>3. /\ unacked' \in [Connections -> SUBSET Messages]
          /\ settled' \in [Messages -> {"no", "acked", "nacked", "lost"}]
          /\ queue' = queue
      <4>1. CASE Acked(c, Head(wire[c]).msg)
        BY <3>1, <4>1 DEF Acked, TypeOK
      <4>2. CASE Nacked(c, Head(wire[c]).msg)
        BY <3>1, <4>2 DEF Nacked, TypeOK
      <4>3. QED BY <3>2, <4>1, <4>2
    <3>4. QED
      BY <1>2, <2>2, <3>2, <3>3 DEF Arrive, TypeOK, AmqpTypeOK
  <2>5. QED BY <2>2, <2>3, <2>4, FrameFacts
<1>3. ASSUME NEW c \in Connections, SessionEnds(c) PROVE TypeOK'
  <2>1. losses' \in 0 .. MaxLosses
    BY <1>3, LossFacts DEF SessionEnds, EndSession
  <2>2. <<>> \in Seq(Frame)
    OBVIOUS
  <2>3. QED
    BY <1>3, <2>1, <2>2 DEF SessionEnds, EndSession, TypeOK, AmqpTypeOK
<1>4. ASSUME BrokerRestarts PROVE TypeOK'
  <2>1. losses' \in 0 .. MaxLosses
    BY <1>4, LossFacts DEF BrokerRestarts
  <2>2. <<>> \in Seq(Frame)
    OBVIOUS
  <2>3. QED
    BY <1>4, <2>1, <2>2 DEF BrokerRestarts, TypeOK, AmqpTypeOK
<1>5. ASSUME EgressStarts PROVE TypeOK'
  BY <1>5 DEF EgressStarts, TypeOK, AmqpTypeOK
<1>6. ASSUME Restart PROVE TypeOK'
  <2>1. crashes' \in 0 .. MaxCrashes
    BY <1>6, AmqpAssumption DEF Restart, TypeOK
  <2>2. todo' \in Seq(Endpoints \cup {"incomplete"})
    BY <1>6 DEF Restart
  <2>3. QED
    BY <1>6, <2>1, <2>2 DEF Restart, RestartClient, TypeOK, AmqpTypeOK
<1>7. QED BY <1>1, <1>2, <1>3, <1>4, <1>5, <1>6

(***************************************************************************)
(* The inductive invariant.  AckedIsForwarded rests on the order of frames *)
(* on one connection; that in turn needs that a verdict is the only one    *)
(* and that the goroutine has let go of the message, which needs OnePlace. *)
(***************************************************************************)
Inv == TypeOK /\ OnePlace /\ ResolverInvariant /\ AckedIsForwarded

\* Nothing is on the wire, held or settled at the start.
LEMMA InvInit == Init => Inv
<1> SUFFICES ASSUME Init PROVE Inv
  OBVIOUS
<1>1. TypeOK
  BY TypeInit
<1>2. OnePlace /\ AckedIsForwarded
  BY DEF Init, OnePlace, AckedIsForwarded
<1>3. Busy /\ HeldIsUnacked /\ SettledIsReleased /\ ForwardingIsComplete
  BY DEF Init, AmqpInit, Busy, HeldIsUnacked, SettledIsReleased, ForwardingIsComplete,
         SourceClosed
<1>4. Sessions
  BY DEF Init, AmqpInit, Sessions
<1>5. VerdictsAreFinal /\ AcksFollowCopies
  BY DEF Init, AmqpInit, VerdictsAreFinal, AcksFollowCopies
<1>6. QED
  BY <1>1, <1>2, <1>3, <1>4, <1>5 DEF Inv, ResolverInvariant

\* A step that leaves the broker's messages and the wire alone has little to
\* show: what it does to the goroutine and to the client's connection.
LEMMA PrivateStep ==
  ASSUME Inv, TypeOK',
         UNCHANGED <<queue, unacked, settled, arrived, unrouted, plan, wire>>,
         Held' \subseteq Held,
         Busy', Sessions', HeldIsUnacked', ForwardingIsComplete'
  PROVE  Inv'
<1> USE DEF Inv, ResolverInvariant
<1>1. OnePlace'
  BY DEF OnePlace
<1>2. AckedIsForwarded'
  BY DEF AckedIsForwarded, Done
<1>3. SettledIsReleased'
  BY DEF SettledIsReleased
<1>4. VerdictsAreFinal'
  BY DEF VerdictsAreFinal, Verdict
<1>5. AcksFollowCopies'
  BY DEF AcksFollowCopies, Done, Written
<1>6. QED BY <1>1, <1>2, <1>3, <1>4, <1>5

\* No step of the client disturbs it: a new connection is never the one that
\* the goroutine's message came from.
LEMMA ClientPreserves ==
  ASSUME Inv, Client
  PROVE  Inv'
<1>1. TypeOK'
  BY TypeClient DEF Inv, ResolverInvariant
<1>2. UNCHANGED <<queue, unacked, settled, arrived, unrouted, plan, wire, pc, source, inbox,
                  current, todo>>
  BY DEF Client, ClientNext, Dial, OpenChannel, Watch, Reconnect, ClientLoses, brokerVars,
         workerVars
<1>3. Held' = Held /\ Busy'
  BY <1>2 DEF Held, Busy, Inv, ResolverInvariant
<1>4. CASE Dial
  <2>1. PICK c \in Connections : /\ session[c] = "none" /\ conn' = c
                                 /\ session' = [session EXCEPT ![c] = "open"]
    BY <1>4 DEF Dial
  <2>2. Sessions /\ session \in [Connections -> {"none", "open", "ended"}]
        /\ source \in Connections \cup {0} /\ c # 0
    BY <2>1, ConnectionFacts DEF Inv, ResolverInvariant, TypeOK, AmqpTypeOK
  <2>3. source # c
    BY <2>1, <2>2 DEF Sessions
  <2>4. SourceClosed'
    BY <1>2, <2>1, <2>3 DEF SourceClosed
  <2>5. Sessions'
    BY <1>2, <2>1, <2>2 DEF Sessions
  <2>6. HeldIsUnacked' /\ ForwardingIsComplete'
    BY <2>4 DEF HeldIsUnacked, ForwardingIsComplete
  <2>7. QED BY <1>1, <1>2, <1>3, <2>5, <2>6, PrivateStep
<1>5. CASE OpenChannel \/ Watch \/ Reconnect \/ ClientLoses
  <2>1. (up' => up) /\ UNCHANGED <<conn, session>>
    BY <1>5 DEF OpenChannel, Watch, Reconnect, ClientLoses
  <2>2. Sessions'
    BY <1>2, <2>1 DEF Sessions, Inv, ResolverInvariant
  <2>3. SourceClosed => SourceClosed'
    BY <1>2, <2>1 DEF SourceClosed
  <2>4. HeldIsUnacked'
    BY <1>2, <1>3, <2>1, <2>3 DEF HeldIsUnacked, Inv, ResolverInvariant
  <2>5. ForwardingIsComplete'
    BY <1>2, <2>1, <2>3 DEF ForwardingIsComplete, Done, Written, Inv, ResolverInvariant
  <2>6. QED BY <1>1, <1>2, <1>3, <2>2, <2>4, <2>5, PrivateStep
<1>6. QED BY <1>4, <1>5 DEF Client, ClientNext

\* What is still to do after the first of a list.
LEMMA ToDoFacts ==
  ASSUME NEW S, NEW s \in Seq(S), s # <<>>
  PROVE  ToSet(s) = {Head(s)} \cup ToSet(Tail(s))
<1>1. /\ Head(s) = s[1] /\ Len(s) \in Nat \ {0}
      /\ Len(Tail(s)) = Len(s) - 1
      /\ \A i \in 1 .. Len(Tail(s)) : Tail(s)[i] = s[i + 1]
  BY HeadTailProperties
<1>2. DOMAIN s = 1 .. Len(s) /\ DOMAIN Tail(s) = 1 .. Len(Tail(s))
  BY HeadTailProperties, LenProperties
<1>3. ASSUME NEW i \in DOMAIN s PROVE s[i] \in {Head(s)} \cup ToSet(Tail(s))
  <2>1. CASE i = 1
    BY <1>1, <2>1
  <2>2. CASE i # 1
    <3>1. i - 1 \in DOMAIN Tail(s)
      BY <1>1, <1>2, <2>2
    <3>2. Tail(s)[i - 1] = s[i]
      BY <1>1, <1>2, <3>1
    <3>3. QED BY <3>1, <3>2 DEF ToSet
  <2>3. QED BY <2>1, <2>2
<1>4. ASSUME NEW i \in DOMAIN Tail(s) PROVE Tail(s)[i] \in ToSet(s)
  <2>1. i + 1 \in DOMAIN s /\ Tail(s)[i] = s[i + 1]
    BY <1>1, <1>2
  <2>2. QED BY <2>1 DEF ToSet
<1>5. Head(s) \in ToSet(s)
  BY <1>1, <1>2 DEF ToSet
<1>6. QED BY <1>3, <1>4, <1>5 DEF ToSet

\* The goroutine's own steps, those that neither resolve nor write.
LEMMA LocalPreserves ==
  ASSUME Inv,
         Listen \/ Take \/ DeliveriesClosed \/ ResolveFails \/ Skip \/ Unsupported
  PROVE  Inv'
<1>1. TypeOK'
  BY TypeWorker DEF Worker, Inv, ResolverInvariant
<1>2. /\ UNCHANGED <<queue, unacked, settled, arrived, unrouted, plan, wire>>
      /\ UNCHANGED <<conn, up, session>>
  BY DEF Listen, Take, DeliveriesClosed, ResolveFails, Skip, Unsupported, amqpVars, brokerVars
<1>3. TypeOK /\ Busy /\ Sessions /\ HeldIsUnacked /\ ForwardingIsComplete
  BY DEF Inv, ResolverInvariant
<1>4. CASE Listen
  <2>1. Held' = {} /\ Busy'
    BY <1>3, <1>4 DEF Listen, Held, Busy
  <2>2. Sessions'
    BY <1>2, <1>3, <1>4 DEF Listen, Sessions
  <2>3. HeldIsUnacked' /\ ForwardingIsComplete'
    BY <1>4, <2>1 DEF Listen, HeldIsUnacked, ForwardingIsComplete
  <2>4. QED BY <1>1, <1>2, <2>1, <2>2, <2>3, PrivateStep
<1>5. CASE Take
  <2>1. PICK m \in inbox : current' = m /\ inbox' = inbox \ {m}
    BY <1>5 DEF Take
  <2>2. m # "none" /\ pc' = "resolving" /\ source' = source
    BY <1>3, <1>5, ResolverAssumption DEF Take, TypeOK
  <2>3. Held' \subseteq Held /\ Busy'
    BY <1>3, <2>1, <2>2 DEF Held, Busy
  <2>4. Sessions'
    BY <1>2, <1>3, <2>2 DEF Sessions
  <2>5. HeldIsUnacked' /\ ForwardingIsComplete'
    BY <1>2, <1>3, <2>2, <2>3 DEF HeldIsUnacked, ForwardingIsComplete, SourceClosed
  <2>6. QED BY <1>1, <1>2, <2>3, <2>4, <2>5, PrivateStep
<1>6. CASE DeliveriesClosed
  <2>1. /\ Held' = {} /\ Busy' /\ pc' = "listening" /\ source' = source
    BY <1>3, <1>6 DEF DeliveriesClosed, Held, Busy
  <2>2. Sessions' /\ HeldIsUnacked' /\ ForwardingIsComplete'
    BY <1>2, <1>3, <2>1 DEF Sessions, HeldIsUnacked, ForwardingIsComplete
  <2>3. QED BY <1>1, <1>2, <2>1, <2>2, PrivateStep
<1>7. CASE ResolveFails \/ Unsupported
  <2>1. /\ pc \in {"resolving", "forwarding"} /\ pc' = "failed"
        /\ UNCHANGED <<source, inbox, current>>
    BY <1>7 DEF ResolveFails, Unsupported
  <2>2. Held' = Held /\ Busy'
    BY <1>3, <2>1 DEF Held, Busy
  <2>3. Sessions' /\ HeldIsUnacked' /\ ForwardingIsComplete'
    BY <1>2, <1>3, <2>1, <2>2 DEF Sessions, HeldIsUnacked, ForwardingIsComplete, SourceClosed
  <2>4. QED BY <1>1, <1>2, <2>2, <2>3, PrivateStep
<1>8. CASE Skip
  <2>1. /\ pc = "forwarding" /\ todo # <<>> /\ Head(todo) = "incomplete"
        /\ todo' = Tail(todo) /\ UNCHANGED <<pc, source, inbox, current>>
    BY <1>8 DEF Skip
  <2>2. Held' = Held /\ Busy'
    BY <1>3, <2>1 DEF Held, Busy
  <2>3. Sessions' /\ HeldIsUnacked'
    BY <1>2, <1>3, <2>1, <2>2 DEF Sessions, HeldIsUnacked, SourceClosed
  <2>4. ForwardingIsComplete'
    <3>1. current \in Messages
      BY <1>3, <2>1 DEF Busy, TypeOK
    <3>2. \A e \in plan[current] : e # "incomplete"
      BY <1>3, <3>1, ResolverAssumption DEF TypeOK
    <3>3. ToSet(todo) = {"incomplete"} \cup ToSet(todo')
      BY <1>3, <2>1, ToDoFacts DEF TypeOK
    <3>4. QED
      BY <1>2, <1>3, <2>1, <3>2, <3>3 DEF ForwardingIsComplete, SourceClosed, Done, Written
  <2>5. QED BY <1>1, <1>2, <2>2, <2>3, <2>4, PrivateStep
<1>9. QED BY <1>4, <1>5, <1>6, <1>7, <1>8

\* A new resolution replaces an old one only while nothing has been decided on
\* the message.
LEMMA ResolvePreserves ==
  ASSUME Inv, Resolve
  PROVE  Inv'
<1> USE DEF Inv, ResolverInvariant
<1>1. TypeOK'
  BY TypeWorker DEF Worker
<1>2. PICK answer \in Answers :
        /\ todo' = answer
        /\ plan' = [plan EXCEPT ![current] = ToSet(answer) \ {"incomplete"}]
  BY DEF Resolve
<1>3. /\ UNCHANGED <<queue, unacked, settled, arrived, unrouted, wire, conn, up, session,
                     source, inbox, current>>
      /\ pc = "resolving" /\ pc' = "forwarding"
  BY DEF Resolve, amqpVars, brokerVars
<1>4. current \in Messages /\ current \in Held /\ Held' = Held
  BY <1>3 DEF Busy, Held, TypeOK
<1>5. \A m \in Messages : m \notin Held => plan'[m] = plan[m]
  BY <1>2, <1>4 DEF TypeOK
<1>6. OnePlace' /\ Busy' /\ Sessions' /\ HeldIsUnacked' /\ SettledIsReleased'
  BY <1>3, <1>4 DEF OnePlace, Busy, Sessions, HeldIsUnacked, SettledIsReleased, SourceClosed
<1>7. VerdictsAreFinal'
  BY <1>3, <1>4 DEF VerdictsAreFinal, Verdict
<1>8. AcksFollowCopies'
  <2>1. ASSUME NEW c \in Connections, NEW i \in DOMAIN wire[c], NEW m \in Messages,
               wire[c][i] = [kind |-> "ack", msg |-> m]
        PROVE  plan'[m] = plan[m]
    <3>1. Verdict(wire[c][i], m)
      BY <2>1 DEF Verdict
    <3>2. QED BY <1>5, <3>1 DEF VerdictsAreFinal
  <2>2. QED BY <1>3, <2>1 DEF AcksFollowCopies, Done, Written
<1>9. AckedIsForwarded'
  BY <1>3, <1>5 DEF AckedIsForwarded, SettledIsReleased, Done
<1>10. ForwardingIsComplete'
  <2>1. plan'[current] \subseteq ToSet(todo')
    BY <1>2, <1>4 DEF TypeOK
  <2>2. QED BY <1>3, <2>1 DEF ForwardingIsComplete
<1>11. QED BY <1>1, <1>6, <1>7, <1>8, <1>9, <1>10

(***************************************************************************)
(* Steps that write to the wire.                                           *)
(***************************************************************************)
\* Every frame on the wire afterwards was there before, at the same place, or
\* is the new one, behind all others of its connection.
LEMMA SendKeeps ==
  ASSUME TypeOK, NEW c \in Connections, NEW f \in Frame, Send(c, f), session[c] = "open"
  PROVE  /\ \A d \in Connections : Len(wire[d]) <= Len(wire'[d])
         /\ \A d \in Connections : \A i \in DOMAIN wire[d] :
              i \in DOMAIN wire'[d] /\ wire'[d][i] = wire[d][i]
         /\ \A d \in Connections : \A i \in DOMAIN wire'[d] :
              \/ i \in DOMAIN wire[d] /\ wire'[d][i] = wire[d][i]
              \/ d = c /\ i = Len(wire[c]) + 1 /\ wire'[d][i] = f
         /\ Len(wire'[c]) = Len(wire[c]) + 1 /\ wire'[c][Len(wire[c]) + 1] = f
         /\ \A d \in Connections : d # c => wire'[d] = wire[d]
<1>1. /\ wire \in [Connections -> Seq(Frame)] /\ wire' \in [Connections -> Seq(Frame)]
      /\ \A d \in Connections : d # c => wire'[d] = wire[d]
      /\ Len(wire'[c]) = Len(wire[c]) + 1
      /\ \A i \in 1 .. Len(wire[c]) : wire'[c][i] = wire[c][i]
      /\ wire'[c][Len(wire[c]) + 1] = f
  BY SendFacts DEF TypeOK, AmqpTypeOK
<1>2. \A d \in Connections : /\ Len(wire[d]) \in Nat /\ DOMAIN wire[d] = 1 .. Len(wire[d])
                             /\ Len(wire'[d]) \in Nat /\ DOMAIN wire'[d] = 1 .. Len(wire'[d])
  BY <1>1, LenProperties
<1>3. \A d \in Connections : d # c => Len(wire[d]) = Len(wire'[d])
  BY <1>1
<1> DEFINE n == Len(wire[c])
<1>4. /\ n \in Nat /\ DOMAIN wire[c] = 1 .. n /\ DOMAIN wire'[c] = 1 .. n + 1
      /\ \A i \in 1 .. n : wire'[c][i] = wire[c][i]
      /\ wire'[c][n + 1] = f
  BY <1>1, <1>2
<1> HIDE DEF n
<1>5. 1 .. n \subseteq 1 .. n + 1 /\ \A i \in 1 .. n + 1 : i \in 1 .. n \/ i = n + 1
  BY <1>4
<1>6. \A d \in Connections : \A i \in DOMAIN wire[d] :
        i \in DOMAIN wire'[d] /\ wire'[d][i] = wire[d][i]
  <2> TAKE d \in Connections
  <2> TAKE i \in DOMAIN wire[d]
  <2>1. CASE d = c
    BY <1>4, <1>5, <2>1 DEF n
  <2>2. CASE d # c
    <3>1. wire'[d] = wire[d]
      BY <1>1, <2>2
    <3>2. QED BY <3>1
  <2>3. QED BY <2>1, <2>2
<1>7. \A d \in Connections : \A i \in DOMAIN wire'[d] :
        \/ i \in DOMAIN wire[d] /\ wire'[d][i] = wire[d][i]
        \/ d = c /\ i = Len(wire[c]) + 1 /\ wire'[d][i] = f
  <2> TAKE d \in Connections
  <2> TAKE i \in DOMAIN wire'[d]
  <2>1. CASE d = c
    BY <1>4, <1>5, <2>1 DEF n
  <2>2. CASE d # c
    <3>1. wire'[d] = wire[d]
      BY <1>1, <2>2
    <3>2. QED BY <3>1
  <2>3. QED BY <2>1, <2>2
<1>8. \A d \in Connections : Len(wire[d]) <= Len(wire'[d])
  BY <1>1, <1>2, <1>3
<1>9. QED BY <1>1, <1>6, <1>7, <1>8

\* A copy that was written before stays written.
LEMMA WrittenStays ==
  ASSUME TypeOK, NEW c \in Connections, NEW f \in Frame, Send(c, f), session[c] = "open",
         NEW d \in Connections, NEW m, NEW e, NEW n \in 0 .. Len(wire[d]),
         Written(d, m, e, n)
  PROVE  \E j \in 1 .. n :
           wire'[d][j] = [kind |-> "publish", copy |-> [msg |-> m, endpoint |-> e]]
<1>1. PICK j \in 1 .. n :
        wire[d][j] = [kind |-> "publish", copy |-> [msg |-> m, endpoint |-> e]]
  BY DEF Written
<1>2. Len(wire[d]) \in Nat /\ DOMAIN wire[d] = 1 .. Len(wire[d])
  BY LenProperties DEF TypeOK, AmqpTypeOK
<1>3. wire'[d][j] = wire[d][j]
  BY <1>2, SendKeeps
<1>4. QED BY <1>1, <1>3

\* A copy goes behind everything on the wire; what is to do shrinks by it.
LEMMA ForwardPreserves ==
  ASSUME Inv, Forward
  PROVE  Inv'
<1> USE DEF Inv, ResolverInvariant
<1> DEFINE f == [kind |-> "publish", copy |-> [msg |-> current, endpoint |-> Head(todo)]]
<1>1. TypeOK'
  BY TypeWorker DEF Worker
<1>2. /\ UNCHANGED <<queue, unacked, settled, arrived, unrouted, plan, conn, up, session, pc,
                     source, inbox, current>>
      /\ pc = "forwarding" /\ todo # <<>> /\ Head(todo) # "incomplete"
      /\ todo' = Tail(todo) /\ Send(conn, f) /\ up
  BY DEF Forward, Usable, brokerVars, clientVars
<1>3. conn \in Connections /\ current \in Messages
  BY <1>2 DEF Sessions, Busy, TypeOK, AmqpTypeOK
<1>4. Head(todo) \in Endpoints /\ ToSet(todo) = {Head(todo)} \cup ToSet(todo')
  BY <1>2, HeadTailProperties, ToDoFacts DEF TypeOK
<1>5. f \in Frame /\ f.kind = "publish"
  BY <1>3, <1>4, FrameFacts
<1>6. f = [kind |-> "publish", copy |-> [msg |-> current, endpoint |-> Head(todo)]]
  OBVIOUS
<1> HIDE DEF f
<1>7. Held' = Held /\ Busy'
  BY <1>2 DEF Held, Busy
<1>8. OnePlace' /\ AckedIsForwarded' /\ HeldIsUnacked' /\ SettledIsReleased'
  BY <1>2, <1>7 DEF OnePlace, AckedIsForwarded, HeldIsUnacked, SettledIsReleased, Done,
                   SourceClosed
<1>9. CASE session[conn] = "open"
  <2>1. /\ \A d \in Connections : Len(wire[d]) <= Len(wire'[d])
        /\ \A d \in Connections : \A i \in DOMAIN wire'[d] :
             \/ i \in DOMAIN wire[d] /\ wire'[d][i] = wire[d][i]
             \/ wire'[d][i] = f
        /\ Len(wire'[conn]) = Len(wire[conn]) + 1 /\ wire'[conn][Len(wire[conn]) + 1] = f
        /\ \A d \in Connections : d # conn => wire'[d] = wire[d]
    BY <1>2, <1>3, <1>5, <1>9, SendKeeps
  <2>2. \A d \in Connections : Len(wire[d]) \in Nat /\ DOMAIN wire[d] = 1 .. Len(wire[d])
    BY LenProperties DEF TypeOK, AmqpTypeOK
  <2>3. \A m : ~Verdict(f, m) /\ f # [kind |-> "ack", msg |-> m]
    BY <1>5 DEF Verdict
  <2>4. Sessions'
    BY <1>2, <1>9, <2>1 DEF Sessions
  <2>5. VerdictsAreFinal'
    <3>1. SUFFICES ASSUME NEW c \in Connections, NEW i \in DOMAIN wire'[c], NEW m \in Messages,
                          Verdict(wire'[c][i], m)
                   PROVE  /\ m \in unacked[c] /\ m \notin Held
                          /\ \A j \in DOMAIN wire'[c] : Verdict(wire'[c][j], m) => j = i
      BY <1>2, <1>7 DEF VerdictsAreFinal, Verdict
    <3>2. i \in DOMAIN wire[c] /\ wire'[c][i] = wire[c][i]
      BY <2>1, <2>3, <3>1
    <3>3. \A j \in DOMAIN wire'[c] : Verdict(wire'[c][j], m) =>
            j \in DOMAIN wire[c] /\ Verdict(wire[c][j], m)
      BY <2>1, <2>3
    <3>4. QED BY <3>1, <3>2, <3>3 DEF VerdictsAreFinal
  <2>6. AcksFollowCopies'
    <3>1. SUFFICES ASSUME NEW c \in Connections, NEW i \in DOMAIN wire'[c], NEW m \in Messages,
                          wire'[c][i] = [kind |-> "ack", msg |-> m],
                          NEW e \in plan[m], ~Done(m, e)
                   PROVE  \E j \in 1 .. i - 1 : wire'[c][j] =
                            [kind |-> "publish", copy |-> [msg |-> m, endpoint |-> e]]
      BY <1>2 DEF AcksFollowCopies, Done, Written
    <3>2. i \in DOMAIN wire[c] /\ wire[c][i] = [kind |-> "ack", msg |-> m]
      BY <2>1, <2>3, <3>1
    <3>3. Written(c, m, e, i - 1)
      BY <3>1, <3>2 DEF AcksFollowCopies
    <3>4. i - 1 \in 0 .. Len(wire[c])
      BY <2>2, <3>2
    <3>5. QED BY <1>2, <1>3, <1>5, <1>9, <3>3, <3>4, WrittenStays
  <2>7. ForwardingIsComplete'
    <3>1. SUFFICES ASSUME ~SourceClosed, session[source] = "open", NEW e \in plan[current],
                          e \notin ToSet(todo'), ~Done(current, e)
                   PROVE  \E j \in 1 .. Len(wire'[source]) : wire'[source][j] =
                            [kind |-> "publish", copy |-> [msg |-> current, endpoint |-> e]]
      BY <1>2 DEF ForwardingIsComplete, Done, Written, SourceClosed
    <3>2. source = conn /\ Len(wire[conn]) \in Nat
      BY <1>3, <2>2, <3>1 DEF SourceClosed
    <3>3. CASE e = Head(todo)
      BY <1>6, <2>1, <3>2, <3>3
    <3>4. CASE e # Head(todo)
      <4>1. Written(conn, current, e, Len(wire[conn]))
        BY <1>2, <1>4, <3>1, <3>2, <3>4 DEF ForwardingIsComplete
      <4>2. PICK j \in 1 .. Len(wire[conn]) : wire'[conn][j] =
              [kind |-> "publish", copy |-> [msg |-> current, endpoint |-> e]]
        BY <1>2, <1>3, <1>5, <1>9, <3>2, <4>1, WrittenStays
      <4>3. QED BY <2>1, <3>2, <4>2
    <3>5. QED BY <3>3, <3>4
  <2>8. QED BY <1>1, <1>7, <1>8, <2>4, <2>5, <2>6, <2>7
<1>10. CASE session[conn] # "open"
  <2>1. wire' = wire
    BY <1>2, <1>10 DEF Send
  <2>2. Sessions'
    BY <1>2, <2>1 DEF Sessions
  <2>3. ForwardingIsComplete'
    BY <1>2, <1>10 DEF ForwardingIsComplete, SourceClosed
  <2>4. QED BY <1>1, <1>2, <1>7, <1>8, <2>1, <2>2, <2>3, PrivateStep
<1>11. QED BY <1>9, <1>10

\* The verdict is written where the copies are, after them, and the goroutine
\* lets go of the message with it.
LEMMA SettlePreserves ==
  ASSUME Inv, Settle
  PROVE  Inv'
<1> USE DEF Inv, ResolverInvariant
<1>1. TypeOK'
  BY TypeWorker DEF Worker
<1>2. PICK v \in {"ack", "nack"} :
        Answer(v) /\ (v = "ack" => pc = "forwarding" /\ todo = <<>>)
  BY DEF Settle
<1>3. /\ UNCHANGED <<queue, unacked, settled, arrived, unrouted, plan, conn, up, session,
                     source, inbox>>
      /\ current' = "none" /\ pc' = "ranging" /\ pc \in {"forwarding", "failed"}
  BY DEF Settle, brokerVars, clientVars
<1>4. current \in Messages /\ current \in Held
  BY <1>3 DEF Busy, Held, TypeOK
<1>5. Held' = Held \ {current} /\ Busy'
  BY <1>3, <1>4, ResolverAssumption DEF Busy, Held, TypeOK
<1>6. OnePlace' /\ AckedIsForwarded' /\ HeldIsUnacked' /\ SettledIsReleased'
  BY <1>3, <1>5 DEF OnePlace, AckedIsForwarded, HeldIsUnacked, SettledIsReleased, Done,
                   SourceClosed
<1>7. ForwardingIsComplete'
  BY <1>3 DEF ForwardingIsComplete
<1>8. CASE SourceClosed \/ session[source] # "open"
  <2>1. wire' = wire
    BY <1>2, <1>8 DEF Answer, Send
  <2>2. Sessions'
    BY <1>3, <2>1 DEF Sessions
  <2>3. QED BY <1>1, <1>3, <1>5, <1>6, <1>7, <2>1, <2>2, PrivateStep
<1>9. CASE ~SourceClosed /\ session[source] = "open"
  <2> DEFINE f == [kind |-> v, msg |-> current]
  <2>1. source \in Connections
    BY <1>9 DEF SourceClosed, Sessions, TypeOK, AmqpTypeOK
  <2>2. f \in Frame /\ Send(source, f)
    BY <1>2, <1>4, <1>9, FrameFacts DEF Answer
  <2>3. f.kind = v /\ f.msg = current /\ \A m : Verdict(f, m) => m = current
    BY DEF Verdict
  <2> HIDE DEF f
  <2>4. /\ \A d \in Connections : \A i \in DOMAIN wire'[d] :
             \/ i \in DOMAIN wire[d] /\ wire'[d][i] = wire[d][i]
             \/ d = source /\ i = Len(wire[source]) + 1 /\ wire'[d][i] = f
        /\ \A d \in Connections : d # source => wire'[d] = wire[d]
    BY <1>9, <2>1, <2>2, SendKeeps
  <2>5. \A d \in Connections : Len(wire[d]) \in Nat /\ DOMAIN wire[d] = 1 .. Len(wire[d])
    BY LenProperties DEF TypeOK, AmqpTypeOK
  <2>6. current \in unacked[source]
    BY <1>4, <1>9 DEF HeldIsUnacked
  <2>7. \A d \in Connections : \A i \in DOMAIN wire[d] : ~Verdict(wire[d][i], current)
    BY <1>4 DEF VerdictsAreFinal
  <2>8. Sessions'
    BY <1>3, <1>9, <2>4 DEF Sessions
  <2>9. VerdictsAreFinal'
    <3>1. SUFFICES ASSUME NEW c \in Connections, NEW i \in DOMAIN wire'[c], NEW m \in Messages,
                          Verdict(wire'[c][i], m)
                   PROVE  /\ m \in unacked[c] /\ m \notin Held'
                          /\ \A j \in DOMAIN wire'[c] : Verdict(wire'[c][j], m) => j = i
      BY <1>3 DEF VerdictsAreFinal, Verdict
    <3>2. CASE i \in DOMAIN wire[c] /\ wire'[c][i] = wire[c][i]
      <4>1. m # current /\ m \in unacked[c] /\ m \notin Held
        BY <2>7, <3>1, <3>2 DEF VerdictsAreFinal
      <4>2. \A j \in DOMAIN wire'[c] : Verdict(wire'[c][j], m) =>
              j \in DOMAIN wire[c] /\ Verdict(wire[c][j], m)
        BY <2>3, <2>4, <4>1
      <4>3. QED BY <1>5, <3>1, <3>2, <4>1, <4>2 DEF VerdictsAreFinal
    <3>3. CASE c = source /\ i = Len(wire[source]) + 1 /\ wire'[c][i] = f
      <4>1. m = current
        BY <2>3, <3>1, <3>3
      <4>2. \A j \in DOMAIN wire'[c] : Verdict(wire'[c][j], m) => j = i
        BY <2>4, <2>7, <3>3, <4>1
      <4>3. QED BY <1>5, <2>6, <3>3, <4>1, <4>2
    <3>4. QED BY <2>4, <3>2, <3>3
  <2>10. AcksFollowCopies'
    <3>1. SUFFICES ASSUME NEW c \in Connections, NEW i \in DOMAIN wire'[c], NEW m \in Messages,
                          wire'[c][i] = [kind |-> "ack", msg |-> m],
                          NEW e \in plan[m], ~Done(m, e)
                   PROVE  \E j \in 1 .. i - 1 : wire'[c][j] =
                            [kind |-> "publish", copy |-> [msg |-> m, endpoint |-> e]]
      BY <1>3 DEF AcksFollowCopies, Done, Written
    <3>2. i - 1 \in 0 .. Len(wire[c]) /\ Written(c, m, e, i - 1)
      <4>1. CASE i \in DOMAIN wire[c] /\ wire'[c][i] = wire[c][i]
        <5>1. Written(c, m, e, i - 1)
          BY <3>1, <4>1 DEF AcksFollowCopies
        <5>2. i - 1 \in 0 .. Len(wire[c])
          BY <2>5, <4>1
        <5>3. QED BY <5>1, <5>2
      <4>2. CASE c = source /\ i = Len(wire[source]) + 1 /\ wire'[c][i] = f
        <5>1. v = "ack" /\ m = current
          BY <2>3, <3>1, <4>2
        <5>2. pc = "forwarding" /\ ToSet(todo) = {}
          BY <1>2, <5>1 DEF ToSet
        <5>3. Written(source, current, e, Len(wire[source]))
          BY <1>9, <3>1, <5>1, <5>2 DEF ForwardingIsComplete
        <5>4. QED BY <2>1, <2>5, <4>2, <5>1, <5>3
      <4>3. QED BY <2>4, <4>1, <4>2
    <3>3. QED BY <1>9, <2>1, <2>2, <3>2, WrittenStays
  <2>11. QED BY <1>1, <1>5, <1>6, <1>7, <2>8, <2>9, <2>10
<1>10. QED BY <1>8, <1>9

(***************************************************************************)
(* Steps of the broker.                                                    *)
(***************************************************************************)
\* What is delivered was waiting: nobody has it and nobody decided on it.
LEMMA DeliverPreserves ==
  ASSUME Inv, NEW c \in Connections, Deliver(c)
  PROVE  Inv'
<1> USE DEF Inv, ResolverInvariant
<1>1. TypeOK'
  BY TypeOthers
<1>2. PICK m \in queue :
        /\ queue' = queue \ {m}
        /\ unacked' = [unacked EXCEPT ![c] = @ \cup {m}]
        /\ inbox' = IF ~SourceClosed /\ c = source THEN inbox \cup {m} ELSE inbox
  BY DEF Deliver
<1>3. /\ UNCHANGED <<settled, arrived, unrouted, plan, wire, conn, up, session, pc, source,
                     current, todo>>
      /\ session[c] = "open"
  BY DEF Deliver, amqpVars
<1>4. /\ m \in Messages /\ m # "none" /\ unacked \in [Connections -> SUBSET Messages]
      /\ settled[m] = "no" /\ \A d \in Connections : m \notin unacked[d]
  BY ResolverAssumption DEF TypeOK, OnePlace
<1>5. /\ unacked'[c] = unacked[c] \cup {m}
      /\ \A d \in Connections : d # c => unacked'[d] = unacked[d]
  BY <1>2, <1>4
<1>6. Held' \subseteq Held \cup {m} /\ (SourceClosed \/ c # source => Held' = Held)
  BY <1>2, <1>3 DEF Held
<1>7. OnePlace'
  BY <1>2, <1>3, <1>4, <1>5 DEF OnePlace
<1>8. AckedIsForwarded' /\ SettledIsReleased'
  BY <1>3, <1>4, <1>6 DEF AckedIsForwarded, SettledIsReleased, Done
<1>9. Busy'
  <2>1. CASE ~SourceClosed /\ c = source
    <3>1. current # m
      BY <1>3, <1>4, <2>1 DEF HeldIsUnacked, Held
    <3>2. QED BY <1>2, <1>3, <3>1 DEF Busy
  <2>2. CASE ~(~SourceClosed /\ c = source)
    BY <1>2, <1>3, <2>2 DEF Busy
  <2>3. QED BY <2>1, <2>2
<1>10. Sessions'
  BY <1>3, <1>5 DEF Sessions
<1>11. HeldIsUnacked'
  <2>1. SUFFICES ASSUME ~SourceClosed, session[source] = "open" PROVE Held' \subseteq unacked'[source]
    BY <1>3 DEF HeldIsUnacked, SourceClosed
  <2>2. source \in Connections
    BY <2>1 DEF SourceClosed, Sessions, TypeOK, AmqpTypeOK
  <2>3. Held \subseteq unacked[source]
    BY <2>1 DEF HeldIsUnacked
  <2>4. QED BY <1>5, <1>6, <2>2, <2>3
<1>12. VerdictsAreFinal'
  <2>1. SUFFICES ASSUME NEW d \in Connections, NEW i \in DOMAIN wire[d], NEW k \in Messages,
                        Verdict(wire[d][i], k)
                 PROVE  /\ k \in unacked'[d] /\ k \notin Held'
                        /\ \A j \in DOMAIN wire[d] : Verdict(wire[d][j], k) => j = i
    BY <1>3 DEF VerdictsAreFinal, Verdict
  <2>2. /\ k \in unacked[d] /\ k \notin Held
        /\ \A j \in DOMAIN wire[d] : Verdict(wire[d][j], k) => j = i
    BY <2>1 DEF VerdictsAreFinal
  <2>3. k # m
    BY <1>4, <2>2
  <2>4. QED BY <1>5, <1>6, <2>2, <2>3
<1>13. AcksFollowCopies'
  BY <1>3 DEF AcksFollowCopies, Done, Written
<1>14. ForwardingIsComplete'
  BY <1>3 DEF ForwardingIsComplete, Done, Written, SourceClosed
<1>15. QED
  BY <1>1, <1>7, <1>8, <1>9, <1>10, <1>11, <1>12, <1>13, <1>14

\* A copy on the wire is the frame being processed, or is still on the wire one
\* place further up.
LEMMA WrittenMovesUp ==
  ASSUME TypeOK, NEW c \in Connections, Arrive(c),
         NEW m, NEW e, NEW n \in Int, n <= Len(wire[c]),
         Written(c, m, e, n)
  PROVE  \/ Head(wire[c]) = [kind |-> "publish", copy |-> [msg |-> m, endpoint |-> e]]
         \/ \E j \in 1 .. n - 1 :
              wire'[c][j] = [kind |-> "publish", copy |-> [msg |-> m, endpoint |-> e]]
<1>1. PICK j \in 1 .. n :
        wire[c][j] = [kind |-> "publish", copy |-> [msg |-> m, endpoint |-> e]]
  BY DEF Written
<1>2. /\ Head(wire[c]) = wire[c][1]
      /\ Len(wire'[c]) = Len(wire[c]) - 1
      /\ \A i \in 1 .. Len(wire'[c]) : wire'[c][i] = wire[c][i + 1]
  BY ArriveFacts DEF Arrive
<1>3. CASE j = 1
  BY <1>1, <1>2, <1>3
<1>4. CASE j # 1
  <2>1. Len(wire[c]) \in Nat
    BY LenProperties DEF TypeOK, AmqpTypeOK
  <2>2. j - 1 \in 1 .. Len(wire'[c]) /\ j - 1 \in 1 .. n - 1 /\ (j - 1) + 1 = j
    BY <1>2, <1>4, <2>1
  <2>3. wire'[c][j - 1] = wire[c][j]
    BY <1>2, <2>2
  <2>4. QED BY <1>1, <2>2, <2>3
<1>5. QED BY <1>3, <1>4

\* A copy arrives: what was written is done now.  A verdict arrives: its copies
\* were ahead of it, and nobody else has the message.
LEMMA ArrivePreserves ==
  ASSUME Inv, NEW c \in Connections, Arrive(c)
  PROVE  Inv'
<1> USE DEF Inv, ResolverInvariant
<1> DEFINE f == Head(wire[c])
           P(m, e) == [kind |-> "publish", copy |-> [msg |-> m, endpoint |-> e]]
<1>1. TypeOK'
  BY TypeOthers
<1>2. /\ wire[c] # <<>> /\ wire' = [wire EXCEPT ![c] = Tail(@)] /\ session[c] = "open"
      /\ UNCHANGED <<plan, conn, up, session, pc, source, inbox, current, todo>>
  BY DEF Arrive, clientVars, workerVars
<1>3. /\ f \in Frame /\ f = wire[c][1] /\ 1 \in DOMAIN wire[c]
      /\ \A d \in Connections : d # c => wire'[d] = wire[d]
      /\ Len(wire'[c]) = Len(wire[c]) - 1
      /\ \A i \in 1 .. Len(wire'[c]) : wire'[c][i] = wire[c][i + 1]
  BY <1>2, ArriveFacts
<1>4. \A d \in Connections : /\ Len(wire[d]) \in Nat /\ DOMAIN wire[d] = 1 .. Len(wire[d])
                             /\ Len(wire'[d]) \in Nat /\ DOMAIN wire'[d] = 1 .. Len(wire'[d])
  BY <1>1, LenProperties DEF TypeOK, AmqpTypeOK
<1>5. \A i \in DOMAIN wire'[c] :
        i + 1 \in DOMAIN wire[c] /\ i + 1 # 1 /\ wire'[c][i] = wire[c][i + 1]
  BY <1>3, <1>4
<1>6. Held' = Held /\ Busy'
  BY <1>2 DEF Held, Busy
<1>7. \A m \in Messages, e \in Endpoints : Done(m, e) => Done(m, e)'
  <2>1. UNCHANGED <<arrived, unrouted>> \/ f.kind = "publish"
    BY DEF Arrive
  <2>2. CASE UNCHANGED <<arrived, unrouted>>
    BY <2>2 DEF Done
  <2>3. CASE f.kind = "publish"
    <3>1. /\ \A x \in Copy : arrived[x] > 0 => arrived'[x] > 0
          /\ unrouted \subseteq unrouted'
      <4>1. f.copy \in Copy /\ Route(f.copy)
        BY <1>3, <2>3, FrameFacts DEF Arrive
      <4>2. QED BY <4>1, RouteFacts DEF TypeOK
    <3>2. \A m \in Messages, e \in Endpoints : [msg |-> m, endpoint |-> e] \in Copy
      BY DEF Copy
    <3>3. QED BY <3>1, <3>2 DEF Done
  <2>4. QED BY <2>1, <2>2, <2>3
<1>8. \A m \in Messages, e \in Endpoints : f = P(m, e) => Done(m, e)'
  <2>1. SUFFICES ASSUME NEW m \in Messages, NEW e \in Endpoints, f = P(m, e)
                 PROVE  Done(m, e)'
    OBVIOUS
  <2>2. f.kind = "publish" /\ f.copy = [msg |-> m, endpoint |-> e] /\ f.copy \in Copy
    BY <2>1 DEF Copy
  <2>3. Route(f.copy)
    BY <2>2 DEF Arrive
  <2>4. arrived'[f.copy] > 0 \/ f.copy \in unrouted'
    BY <2>2, <2>3, RouteFacts DEF TypeOK
  <2>5. QED BY <2>2, <2>4 DEF Done
<1>9. \A m \in Messages : plan[m] \subseteq Endpoints
  BY DEF TypeOK
\* What a verdict does.
<1>10. ASSUME f.kind \in {"ack", "nack"}
       PROVE  /\ f.msg \in Messages /\ Verdict(wire[c][1], f.msg)
              /\ f = [kind |-> f.kind, msg |-> f.msg]
              /\ UNCHANGED <<queue, arrived, unrouted>>
              /\ unacked' = [unacked EXCEPT ![c] = @ \ {f.msg}]
              /\ settled' = [settled EXCEPT ![f.msg] = IF f.kind = "ack" THEN "acked" ELSE "nacked"]
  <2>1. f.msg \in Messages /\ f = [kind |-> f.kind, msg |-> f.msg]
    BY <1>3, <1>10, FrameFacts
  <2>2. Verdict(wire[c][1], f.msg)
    BY <1>3, <1>10 DEF Verdict
  <2>3. \/ f.kind = "ack" /\ Acked(c, f.msg) /\ UNCHANGED <<arrived, unrouted>>
        \/ f.kind = "nack" /\ Nacked(c, f.msg) /\ UNCHANGED <<arrived, unrouted>>
    BY <1>10 DEF Arrive
  <2>4. QED BY <2>1, <2>2, <2>3 DEF Acked, Nacked
<1>11. f.kind \in {"ack", "nack"} =>
         f.msg \in unacked[c] /\ f.msg \notin Held /\ settled[f.msg] = "no" /\ f.msg \notin queue
       /\ \A d \in Connections : f.msg \in unacked[d] => d = c
  BY <1>3, <1>10 DEF VerdictsAreFinal, OnePlace
\* A verdict takes its message out of its connection's deliveries, and settles that one.
<1>a. ASSUME f.kind \in {"ack", "nack"}
      PROVE  /\ \A d \in Connections :
                  unacked'[d] = IF d = c THEN unacked[d] \ {f.msg} ELSE unacked[d]
             /\ \A k \in Messages : k # f.msg => settled'[k] = settled[k]
  <2>1. /\ \A d \in Connections : d \in DOMAIN unacked
        /\ \A k \in Messages : k \in DOMAIN settled
    BY DEF TypeOK
  <2>2. /\ unacked' = [unacked EXCEPT ![c] = @ \ {f.msg}]
        /\ settled' = [settled EXCEPT ![f.msg] = IF f.kind = "ack" THEN "acked" ELSE "nacked"]
    BY <1>10, <1>a
  <2>3. \A d \in Connections :
          unacked'[d] = IF d = c THEN unacked[d] \ {f.msg} ELSE unacked[d]
    BY <2>1, <2>2, Zenon
  <2>4. \A k \in Messages : k # f.msg => settled'[k] = settled[k]
    BY <2>1, <2>2, Zenon
  <2>5. QED BY <2>3, <2>4
<1>12. \A d \in Connections, k \in Messages :
         (f.kind \in {"ack", "nack"} => k # f.msg) /\ k \in unacked[d] => k \in unacked'[d]
  <2>1. CASE f.kind \in {"ack", "nack"}
    BY <1>a, <2>1, Zenon
  <2>2. CASE f.kind = "publish"
    BY <2>2 DEF Arrive
  <2>3. QED BY <1>3, <2>1, <2>2, FrameFacts
<1>13. \A k \in Messages : (f.kind \in {"ack", "nack"} => k # f.msg) => settled'[k] = settled[k]
  <2>1. CASE f.kind \in {"ack", "nack"}
    BY <1>a, <2>1, Zenon
  <2>2. CASE f.kind = "publish"
    BY <2>2 DEF Arrive
  <2>3. QED BY <1>3, <2>1, <2>2, FrameFacts
<1>14. \A d \in Connections : unacked'[d] \subseteq unacked[d]
  <2>1. CASE f.kind \in {"ack", "nack"}
    BY <1>a, <2>1, Zenon
  <2>2. CASE f.kind = "publish"
    BY <2>2 DEF Arrive
  <2>3. QED BY <1>3, <2>1, <2>2, FrameFacts
<1>15. queue' = queue
  BY DEF Arrive, Acked, Nacked
<1> HIDE DEF f
<1>16. OnePlace'
  <2>1. CASE f.kind \in {"ack", "nack"}
    <3>1. settled'[f.msg] # "no" /\ f.msg \notin queue'
          /\ \A d \in Connections : f.msg \notin unacked'[d]
      BY <1>10, <1>11, <2>1 DEF TypeOK
    <3>2. QED
      BY <1>10, <1>12, <1>13, <1>14, <1>15, <2>1, <3>1 DEF OnePlace
  <2>2. CASE f.kind \notin {"ack", "nack"}
    <3>1. \A k \in Messages : settled'[k] = settled[k]
      BY <1>13, <2>2
    <3>2. \A d \in Connections : \A k \in Messages : k \in unacked'[d] <=> k \in unacked[d]
      BY <1>12, <1>14, <2>2
    <3>3. QED
      BY <1>15, <3>1, <3>2 DEF OnePlace
  <2>3. QED BY <2>1, <2>2
<1>17. AckedIsForwarded'
  <2>1. SUFFICES ASSUME NEW m \in Messages, settled'[m] = "acked", NEW e \in plan[m]
                 PROVE  Done(m, e)'
    BY <1>2 DEF AckedIsForwarded
  <2>2. CASE settled[m] = "acked"
    BY <1>7, <1>9, <2>1, <2>2 DEF AckedIsForwarded
  <2>3. CASE settled[m] # "acked"
    <3>1. f.kind \in {"ack", "nack"} /\ m = f.msg
      BY <1>13, <2>1, <2>3
    <3>2. f.kind = "ack"
      BY <1>10, <2>1, <3>1 DEF TypeOK
    <3>3. wire[c][1] = [kind |-> "ack", msg |-> m]
      BY <1>3, <1>10, <3>1, <3>2
    <3>4. Done(m, e) \/ Written(c, m, e, 1 - 1)
      BY <1>3, <2>1, <3>3 DEF AcksFollowCopies
    <3>5. ~Written(c, m, e, 1 - 1)
      BY DEF Written
    <3>6. QED BY <1>7, <1>9, <2>1, <3>4, <3>5
  <2>4. QED BY <2>2, <2>3
<1>18. Sessions'
  BY <1>2, <1>3, <1>14 DEF Sessions
<1>19. HeldIsUnacked'
  <2>1. SUFFICES ASSUME ~SourceClosed, session[source] = "open" PROVE Held \subseteq unacked'[source]
    BY <1>2, <1>6 DEF HeldIsUnacked, SourceClosed
  <2>2. source \in Connections
    BY <2>1 DEF SourceClosed, Sessions, TypeOK, AmqpTypeOK
  <2>3. Held \subseteq unacked[source] /\ Held \subseteq Messages
    BY <2>1 DEF HeldIsUnacked, Held, TypeOK
  <2>4. QED BY <1>11, <1>12, <2>2, <2>3
<1>20. SettledIsReleased'
  BY <1>6, <1>11, <1>13 DEF SettledIsReleased
<1>21. VerdictsAreFinal'
  <2>1. SUFFICES ASSUME NEW d \in Connections, NEW i \in DOMAIN wire'[d], NEW k \in Messages,
                        Verdict(wire'[d][i], k)
                 PROVE  /\ k \in unacked'[d] /\ k \notin Held
                        /\ \A j \in DOMAIN wire'[d] : Verdict(wire'[d][j], k) => j = i
    BY <1>6 DEF VerdictsAreFinal, Verdict
  <2>2. CASE d = c
    <3>1. i + 1 \in DOMAIN wire[c] /\ i + 1 # 1 /\ Verdict(wire[c][i + 1], k)
      BY <1>5, <2>1, <2>2
    <3>2. /\ k \in unacked[c] /\ k \notin Held
          /\ \A j \in DOMAIN wire[c] : Verdict(wire[c][j], k) => j = i + 1
      BY <3>1 DEF VerdictsAreFinal
    <3>3. f.kind \in {"ack", "nack"} => k # f.msg
      BY <1>3, <1>10, <3>1, <3>2
    <3>4. \A j \in DOMAIN wire'[c] : Verdict(wire'[c][j], k) => j = i
      <4>1. SUFFICES ASSUME NEW j \in DOMAIN wire'[c], Verdict(wire'[c][j], k) PROVE j = i
        OBVIOUS
      <4>2. j + 1 = i + 1
        BY <1>5, <3>2, <4>1
      <4>3. QED BY <1>4, <2>1, <2>2, <4>1, <4>2
    <3>5. QED BY <1>12, <2>2, <3>2, <3>3, <3>4
  <2>3. CASE d # c
    <3>1. /\ k \in unacked[d] /\ k \notin Held
          /\ \A j \in DOMAIN wire[d] : Verdict(wire[d][j], k) => j = i
      BY <1>3, <2>1, <2>3 DEF VerdictsAreFinal
    <3>2. f.kind \in {"ack", "nack"} => k # f.msg
      BY <1>11, <2>3, <3>1
    <3>3. QED BY <1>3, <1>12, <2>3, <3>1, <3>2
  <2>4. QED BY <2>2, <2>3
<1>22. AcksFollowCopies'
  <2>1. SUFFICES ASSUME NEW d \in Connections, NEW i \in DOMAIN wire'[d], NEW m \in Messages,
                        wire'[d][i] = [kind |-> "ack", msg |-> m],
                        NEW e \in plan[m], ~Done(m, e)'
                 PROVE  \E j \in 1 .. i - 1 : wire'[d][j] = P(m, e)
    BY <1>2 DEF AcksFollowCopies, Done, Written
  <2>2. ~Done(m, e) /\ e \in Endpoints
    BY <1>7, <1>9, <2>1
  <2>3. CASE d = c
    <3>1. i + 1 \in DOMAIN wire[c] /\ wire[c][i + 1] = [kind |-> "ack", msg |-> m]
      BY <1>5, <2>1, <2>3
    <3>2. PICK n : n = i + 1
      OBVIOUS
    <3>3. n - 1 = i /\ i \in Int /\ i <= Len(wire[c])
      BY <1>4, <2>1, <2>3, <3>1, <3>2
    <3>4. Written(c, m, e, n - 1)
      BY <2>1, <2>2, <3>1, <3>2 DEF AcksFollowCopies
    <3>5. Written(c, m, e, i)
      BY <3>3, <3>4
    <3>6. Head(wire[c]) = P(m, e) \/ \E j \in 1 .. i - 1 : wire'[c][j] = P(m, e)
      BY <3>3, <3>5, WrittenMovesUp
    <3>7. QED BY <1>8, <2>1, <2>2, <2>3, <3>6 DEF f
  <2>4. CASE d # c
    <3>1. wire'[d] = wire[d]
      BY <1>3, <2>4
    <3>2. Written(d, m, e, i - 1)
      BY <2>1, <2>2, <3>1 DEF AcksFollowCopies
    <3>3. QED BY <3>1, <3>2 DEF Written
  <2>5. QED BY <2>3, <2>4
<1>23. ForwardingIsComplete'
  <2>1. SUFFICES ASSUME pc = "forwarding", ~SourceClosed, session[source] = "open",
                        NEW e \in plan[current], e \notin ToSet(todo), ~Done(current, e)'
                 PROVE  \E j \in 1 .. Len(wire'[source]) : wire'[source][j] = P(current, e)
    BY <1>2 DEF ForwardingIsComplete, Done, Written, SourceClosed
  <2>2. source \in Connections /\ current \in Messages
    BY <2>1 DEF SourceClosed, Sessions, Busy, TypeOK, AmqpTypeOK
  <2>3. ~Done(current, e) /\ e \in Endpoints
    BY <1>2, <1>7, <1>9, <2>1, <2>2
  <2>4. Written(source, current, e, Len(wire[source]))
    BY <2>1, <2>3 DEF ForwardingIsComplete
  <2>5. CASE source = c
    <3>1. Len(wire[c]) \in Int /\ Len(wire[c]) <= Len(wire[c])
      BY <1>4
    <3>2. Written(c, current, e, Len(wire[c]))
      BY <2>4, <2>5
    <3>3. \/ Head(wire[c]) = P(current, e)
          \/ \E j \in 1 .. Len(wire[c]) - 1 : wire'[c][j] = P(current, e)
      BY <3>1, <3>2, WrittenMovesUp
    <3>4. Head(wire[c]) # P(current, e)
      BY <1>2, <1>8, <2>1, <2>2, <2>3 DEF f
    <3>5. QED BY <1>3, <2>5, <3>3, <3>4
  <2>6. CASE source # c
    BY <1>3, <2>2, <2>4, <2>6 DEF Written
  <2>7. QED BY <2>5, <2>6
<1>24. QED
  BY <1>1, <1>6, <1>16, <1>17, <1>18, <1>19, <1>20, <1>21, <1>22, <1>23

\* What an ended session had not settled waits again; nothing is on its wire.
LEMMA SessionEndsPreserves ==
  ASSUME Inv, NEW c \in Connections, SessionEnds(c)
  PROVE  Inv'
<1> USE DEF Inv, ResolverInvariant
<1>1. TypeOK'
  BY TypeOthers
<1>2. /\ UNCHANGED <<settled, arrived, unrouted, plan, conn, up, pc, source, inbox, current,
                     todo>>
      /\ session' = [session EXCEPT ![c] = "ended"]
      /\ wire' = [wire EXCEPT ![c] = <<>>]
      /\ queue' = queue \cup unacked[c]
      /\ unacked' = [unacked EXCEPT ![c] = {}]
  BY DEF SessionEnds, EndSession, clientVars, workerVars
<1>3. /\ session'[c] = "ended" /\ wire'[c] = <<>> /\ unacked'[c] = {}
      /\ \A d \in Connections : d # c =>
           session'[d] = session[d] /\ wire'[d] = wire[d] /\ unacked'[d] = unacked[d]
  BY <1>2 DEF TypeOK, AmqpTypeOK
<1>4. Held' = Held /\ Busy'
  BY <1>2 DEF Held, Busy
<1>5. OnePlace'
  BY <1>2, <1>3 DEF OnePlace
<1>6. AckedIsForwarded' /\ SettledIsReleased'
  BY <1>2, <1>4 DEF AckedIsForwarded, SettledIsReleased, Done
<1>7. source \in Connections \cup {0} /\ conn \in Connections \cup {0}
  BY DEF TypeOK, AmqpTypeOK
<1>8. Sessions'
  BY <1>2, <1>3, <1>7 DEF Sessions
<1>9. source # c => wire'[source] = wire[source] \/ source = 0
  BY <1>3, <1>7
<1>10. ~SourceClosed => source \in Connections
  BY <1>7 DEF SourceClosed, Sessions
<1>11. HeldIsUnacked'
  BY <1>2, <1>3, <1>4, <1>10 DEF HeldIsUnacked, SourceClosed
<1>12. VerdictsAreFinal'
  <2>1. SUFFICES ASSUME NEW d \in Connections, NEW i \in DOMAIN wire'[d], NEW k \in Messages,
                        Verdict(wire'[d][i], k)
                 PROVE  /\ k \in unacked'[d] /\ k \notin Held
                        /\ \A j \in DOMAIN wire'[d] : Verdict(wire'[d][j], k) => j = i
    BY <1>4 DEF VerdictsAreFinal, Verdict
  <2>2. d # c
    BY <1>3, <2>1
  <2>3. QED BY <1>3, <2>1, <2>2 DEF VerdictsAreFinal
<1>13. AcksFollowCopies'
  <2>1. SUFFICES ASSUME NEW d \in Connections, NEW i \in DOMAIN wire'[d], NEW m \in Messages,
                        wire'[d][i] = [kind |-> "ack", msg |-> m],
                        NEW e \in plan[m], ~Done(m, e)
                 PROVE  \E j \in 1 .. i - 1 : wire'[d][j] =
                          [kind |-> "publish", copy |-> [msg |-> m, endpoint |-> e]]
    BY <1>2 DEF AcksFollowCopies, Done, Written
  <2>2. d # c
    BY <1>3, <2>1
  <2>3. wire'[d] = wire[d]
    BY <1>3, <2>2
  <2>4. Written(d, m, e, i - 1)
    BY <2>1, <2>3 DEF AcksFollowCopies
  <2>5. QED BY <2>3, <2>4 DEF Written
<1>14. ForwardingIsComplete'
  <2>1. SUFFICES ASSUME pc = "forwarding", ~SourceClosed, session'[source] = "open",
                        NEW e \in plan[current], e \notin ToSet(todo), ~Done(current, e)
                 PROVE  \E j \in 1 .. Len(wire'[source]) : wire'[source][j] =
                          [kind |-> "publish", copy |-> [msg |-> current, endpoint |-> e]]
    BY <1>2 DEF ForwardingIsComplete, Done, Written, SourceClosed
  <2>2. wire'[source] = wire[source] /\ session[source] = "open"
    BY <1>3, <1>10, <2>1
  <2>3. QED BY <2>1, <2>2 DEF ForwardingIsComplete, Written
<1>15. QED
  BY <1>1, <1>4, <1>5, <1>6, <1>8, <1>11, <1>12, <1>13, <1>14

\* A restarted broker has no messages and no sessions.
LEMMA BrokerRestartsPreserves ==
  ASSUME Inv, BrokerRestarts
  PROVE  Inv'
<1> USE DEF Inv, ResolverInvariant
<1>1. TypeOK'
  BY TypeOthers
<1>2. /\ UNCHANGED <<arrived, unrouted, plan, conn, up, pc, source, inbox, current, todo>>
      /\ session' = [d \in Connections |-> IF session[d] = "open" THEN "ended" ELSE session[d]]
      /\ wire' = [d \in Connections |-> <<>>]
      /\ settled' = [m \in Messages |-> IF settled[m] = "no" THEN "lost" ELSE settled[m]]
      /\ queue' = {} /\ unacked' = [d \in Connections |-> {}]
  BY DEF BrokerRestarts, clientVars, workerVars
<1>3. Held' = Held /\ Busy'
  BY <1>2 DEF Held, Busy
<1>4. \A d \in Connections : /\ session'[d] # "open" /\ wire'[d] = <<>> /\ unacked'[d] = {}
                             /\ session'[d] = "none" => session[d] = "none"
  BY <1>2
<1>5. OnePlace'
  BY <1>2, <1>4 DEF OnePlace
<1>6. AckedIsForwarded' /\ SettledIsReleased'
  BY <1>2, <1>3 DEF AckedIsForwarded, SettledIsReleased, Done
<1>7. source \in Connections \cup {0} /\ conn \in Connections \cup {0}
  BY DEF TypeOK, AmqpTypeOK
<1>8. Sessions'
  BY <1>2, <1>4, <1>7 DEF Sessions
<1>9. ~SourceClosed => source \in Connections
  BY <1>7 DEF SourceClosed, Sessions
<1>10. HeldIsUnacked' /\ ForwardingIsComplete'
  BY <1>2, <1>4, <1>9 DEF HeldIsUnacked, ForwardingIsComplete, SourceClosed
<1>11. VerdictsAreFinal' /\ AcksFollowCopies'
  BY <1>4 DEF VerdictsAreFinal, AcksFollowCopies
<1>12. QED
  BY <1>1, <1>3, <1>5, <1>6, <1>8, <1>10, <1>11

\* An egress application only adds a binding; a restarted resolver has nothing.
LEMMA OthersPreserve ==
  ASSUME Inv, EgressStarts \/ Restart
  PROVE  Inv'
<1>1. TypeOK'
  BY TypeOthers DEF Inv
<1>2. UNCHANGED <<queue, unacked, settled, arrived, unrouted, plan, wire, session>>
  BY DEF EgressStarts, Restart, RestartClient, amqpVars, brokerVars, workerVars
<1>3. Busy /\ Sessions /\ HeldIsUnacked /\ ForwardingIsComplete
  BY DEF Inv, ResolverInvariant
<1>4. CASE EgressStarts
  <2>1. UNCHANGED <<conn, up, pc, source, inbox, current, todo>>
    BY <1>4 DEF EgressStarts, amqpVars, workerVars
  <2>2. Held' = Held /\ Busy' /\ Sessions' /\ HeldIsUnacked'
    BY <1>2, <1>3, <2>1 DEF Held, Busy, Sessions, HeldIsUnacked, SourceClosed
  <2>3. ForwardingIsComplete'
    BY <1>2, <1>3, <2>1 DEF ForwardingIsComplete, Done, Written, SourceClosed
  <2>4. QED BY <1>1, <1>2, <2>2, <2>3, PrivateStep
<1>5. CASE Restart
  <2>1. /\ conn' = 0 /\ up' = FALSE /\ pc' = "listening" /\ source' = 0 /\ inbox' = {}
        /\ current' = "none"
    BY <1>5 DEF Restart, RestartClient
  <2>2. Held' = {} /\ Busy' /\ Sessions' /\ HeldIsUnacked' /\ ForwardingIsComplete'
    BY <1>2, <1>3, <2>1 DEF Held, Busy, Sessions, HeldIsUnacked, ForwardingIsComplete
  <2>3. QED BY <1>1, <1>2, <2>2, PrivateStep
<1>6. QED BY <1>4, <1>5

(***************************************************************************)
(* The theorems.                                                           *)
(***************************************************************************)
\* The inductive invariant is kept by every step of the resolver, its client,
\* the broker and the processes around them.
THEOREM InvHolds == Spec => []Inv
<1>1. Inv /\ [Next]_vars => Inv'
  <2>1. SUFFICES ASSUME Inv, [Next]_vars PROVE Inv'
    OBVIOUS
  <2>2. CASE UNCHANGED vars
    <3>1. UNCHANGED <<queue, unacked, settled, bound, arrived, unrouted, consumers, pc, source,
                      inbox, current, todo, plan, crashes, dialer, conn, up, channel, session,
                      wire, losses>>
      BY <2>2 DEF vars, amqpVars, brokerVars, workerVars
    <3>2. TypeOK'
      BY <2>1, <3>1 DEF Inv, TypeOK, AmqpTypeOK
    <3>3. Held' = Held /\ Busy' /\ Sessions' /\ HeldIsUnacked'
      BY <2>1, <3>1 DEF Inv, ResolverInvariant, Held, Busy, Sessions, HeldIsUnacked, SourceClosed
    <3>4. ForwardingIsComplete'
      BY <2>1, <3>1 DEF Inv, ResolverInvariant, ForwardingIsComplete, Done, Written, SourceClosed
    <3>5. QED BY <2>1, <3>1, <3>2, <3>3, <3>4, PrivateStep
  <2>3. CASE Client
    BY <2>1, <2>3, ClientPreserves
  <2>4. CASE Worker
    BY <2>1, <2>4, LocalPreserves, ResolvePreserves, ForwardPreserves, SettlePreserves DEF Worker
  <2>5. ASSUME NEW c \in Connections, Deliver(c) \/ Arrive(c) \/ SessionEnds(c)
        PROVE  Inv'
    BY <2>1, <2>5, DeliverPreserves, ArrivePreserves, SessionEndsPreserves
  <2>6. CASE BrokerRestarts
    BY <2>1, <2>6, BrokerRestartsPreserves
  <2>7. CASE EgressStarts \/ Restart
    BY <2>1, <2>7, OthersPreserve
  <2>8. QED
    BY <2>1, <2>2, <2>3, <2>4, <2>5, <2>6, <2>7 DEF Next
<1>2. QED
  BY <1>1, InvInit, PTL DEF Spec

\* Every variable of the resolver, its client and the broker keeps its type.
THEOREM TypeCorrect == Spec => []TypeOK
BY InvHolds, PTL DEF Inv

\* The order of frames, verdicts and the goroutine's place in its loop fit
\* together.
THEOREM ResolverInvariantHolds == Spec => []ResolverInvariant
BY InvHolds, PTL DEF Inv

\* However often connections break, a message waits, is with one connection, or
\* is settled, and only one of these.
THEOREM MessagesAreInOnePlace == Spec => []OnePlace
BY InvHolds, PTL DEF Inv

\* Once a message is acknowledged the broker has had a copy for every endpoint.
THEOREM AcknowledgedIsForwarded == Spec => []AckedIsForwarded
BY InvHolds, PTL DEF Inv


(***************************************************************************)
(* How often a copy arrives, and how late.                                 *)
(***************************************************************************)
\* No answer of the registry lists an endpoint twice.
Once(s) == \A i, j \in DOMAIN s : s[i] = s[j] /\ s[i] # "incomplete" => i = j

AnswersListOnce == \A answer \in Answers : Once(answer)

CopyFrame(m, e) == [kind |-> "publish", copy |-> [msg |-> m, endpoint |-> e]]

\* The client has the last connection dialled; all others were lost or left behind by
\* a restart.  What the goroutine holds came from a connection.
Counted ==
  /\ Numbered
  /\ Spare + crashes >= 0
  /\ Held # {} => source # 0

\* The copies of m for e that are on their way.
OnTheWay(m, e) ==
  {p \in Connections \X Nat : p[2] \in DOMAIN wire[p[1]] /\ wire[p[1]][p[2]] = CopyFrame(m, e)}

\* Copies that arrived and may arrive.
ToDo(m, e) == IF current = m /\ pc = "forwarding" /\ e \in ToSet(todo) THEN 1 ELSE 0
Tries(m, e) ==
  arrived[[msg |-> m, endpoint |-> e]] + Cardinality(OnTheWay(m, e)) + ToDo(m, e)

\* Resolutions to come: the goroutine has the message, or the last connection dialled
\* may still deliver it.
Fresh(m) == Top # 0 /\ session[Top] = "open" /\ settled[m] = "no" /\ m \notin unacked[Top]
Holds(m) == (IF m \in inbox THEN 1 ELSE 0) + (IF current = m /\ pc = "resolving" THEN 1 ELSE 0)
Hopes(m) == Holds(m) + (IF Fresh(m) THEN 1 ELSE 0)

\* All of them together are no more than there were connections.
CopiesHaveCauses ==
  \A m \in Messages, e \in Endpoints :
    IsFiniteSet(OnTheWay(m, e)) /\ Tries(m, e) + Hopes(m) <= Top

\* What is to do has no endpoint twice.
ToDoOnce == Once(todo)

\* A copy on its way is of a message that its connection has not settled, or was
\* written to a connection other than the message's: then a verdict ahead of it is on
\* a later one.
LateCopies ==
  \A d \in Connections : \A i \in DOMAIN wire[d] : \A m \in Messages, e \in Endpoints :
    wire[d][i] = CopyFrame(m, e) =>
      /\ d >= 2 \/ m \in unacked[d]
      /\ settled[m] \in {"acked", "nacked"} => Top > d
      /\ \A c \in Connections : \A j \in DOMAIN wire[c] :
           Verdict(wire[c][j], m) => c > d \/ (c = d /\ j > i)

------------------------------------------------------------------------------
\* What covers the restarts so far covers them after a step.
LEMMA Covering ==
  \A x, y \in Int, n \in Nat :
    x + n >= 0 => (y >= x => y + n >= 0) /\ (y + 1 >= x => y + (n + 1) >= 0)
OBVIOUS

\* The client dials the next connection or leaves the sessions alone.
LEMMA ClientCounts ==
  ASSUME Inv, Counted, Client
  PROVE  /\ Counted' /\ Top \in Nat /\ Top' \in Nat /\ wire' = wire
         /\ \/ session' = session /\ Top' = Top
            \/ /\ Top + 1 \in Connections /\ Top' = Top + 1
               /\ session' = [session EXCEPT ![Top + 1] = "open"]
<1>1. AmqpTypeOK(Frame) /\ Numbered /\ ClientNext /\ crashes \in Nat
  BY AmqpAssumption DEF Inv, TypeOK, Counted, Client
<1>2. /\ AmqpTypeOK(Frame)' /\ Numbered' /\ Spare' >= Spare /\ wire' = wire
      /\ \/ session' = session /\ Top' = Top
         \/ /\ Top + 1 \in Connections /\ Top' = Top + 1
            /\ session' = [session EXCEPT ![Top + 1] = "open"]
  BY <1>1, ClientSteps
<1>3. Spare \in Int /\ Spare' \in Int
  BY <1>1, <1>2, SpareIsInt
<1>4. UNCHANGED <<source, inbox, current, crashes>>
  BY DEF Client, workerVars
<1>5. Counted'
  <2>1. Spare + crashes >= 0 /\ (Held' # {} => source' # 0) /\ crashes' = crashes
    BY <1>4 DEF Counted, Held
  <2>2. Spare' + crashes >= 0
    BY <1>1, <1>2, <1>3, <2>1, Covering, Zenon
  <2> QED
    BY <1>2, <2>1, <2>2 DEF Counted
<1>6. Top \in Nat
  BY <1>1, TopFacts
<1> QED
  BY <1>2, <1>5, <1>6

\* All other steps leave the number of connections alone.
LEMMA OthersCount ==
  ASSUME Inv, Counted,
         \/ Worker \/ BrokerRestarts \/ EgressStarts \/ Restart
         \/ \E c \in Connections : Deliver(c) \/ Arrive(c) \/ SessionEnds(c)
  PROVE  Counted' /\ Top' = Top /\ Top \in Nat
<1> USE DEF workerVars, brokerVars, amqpVars, clientVars
<1>1. AmqpTypeOK(Frame) /\ Numbered /\ crashes \in Nat /\ 0 \notin Connections
  BY AmqpAssumption, ConnectionFacts DEF Inv, TypeOK, Counted
<1>2. Top \in Nat /\ Spare \in Int
  BY <1>1, TopFacts, SpareIsInt
<1>3. ASSUME UNCHANGED <<clientVars, session, losses, crashes>>, Held' # {} => source' # 0
      PROVE  Counted' /\ Top' = Top
  BY <1>1, <1>2, <1>3, ConnectionsKept DEF Counted
<1>10. ASSUME Numbered', Spare' \in Int, Held' # {} => Held # {} /\ source' = source,
              \/ crashes' = crashes /\ Spare' >= Spare
              \/ crashes' = crashes + 1 /\ Spare' + 1 >= Spare
       PROVE  Counted'
  <2>1. Spare + crashes >= 0 /\ (Held # {} => source # 0)
    BY DEF Counted
  <2>2. CASE crashes' = crashes /\ Spare' >= Spare
    <3>1. Spare' + crashes >= 0
      BY <1>1, <1>2, <1>10, <2>1, <2>2, Covering, Zenon
    <3> QED
      BY <1>10, <2>1, <2>2, <3>1 DEF Counted
  <2>3. CASE crashes' = crashes + 1 /\ Spare' + 1 >= Spare
    <3>1. Spare' + (crashes + 1) >= 0
      BY <1>1, <1>2, <1>10, <2>1, <2>3, Covering, Zenon
    <3> QED
      BY <1>10, <2>1, <2>3, <3>1 DEF Counted
  <2> QED
    BY <1>10, <2>2, <2>3
<1>4. CASE Worker
  <2>1. UNCHANGED <<clientVars, session, losses, crashes>>
    BY <1>4 DEF Worker, Listen, Take, DeliveriesClosed, Resolve, ResolveFails, Skip, Forward,
       Unsupported, Settle
  <2>2. Held' # {} => source' # 0
    <3>1. CASE Listen
      BY <3>1, <1>1 DEF Listen, Usable, Inv, ResolverInvariant, Sessions
    <3>2. CASE ~Listen
      <4>1. Held' \subseteq Held /\ source' = source
        BY <1>4, <3>2 DEF Worker, Take, DeliveriesClosed, Resolve, ResolveFails, Skip,
           Forward, Unsupported, Settle, Held
      <4> QED
        BY <4>1 DEF Counted
    <3> QED
      BY <3>1, <3>2
  <2> QED
    BY <1>2, <1>3, <2>1, <2>2
<1>5. CASE EgressStarts
  BY <1>2, <1>3, <1>5 DEF EgressStarts, Counted, Held
<1>6. ASSUME NEW c \in Connections, Deliver(c) \/ Arrive(c) PROVE Counted' /\ Top' = Top
  <2>1. UNCHANGED <<clientVars, session, losses, crashes>>
    BY <1>6 DEF Deliver, Arrive
  <2>2. Held' # {} => source' # 0
    BY <1>6, <1>1 DEF Deliver, Arrive, Counted, Held
  <2> QED
    BY <1>3, <2>1, <2>2
<1>7. ASSUME NEW c \in Connections, SessionEnds(c) PROVE Counted' /\ Top' = Top
  <2>1. /\ AmqpTypeOK(Frame)' /\ Numbered' /\ Top' = Top /\ Spare' >= Spare
    BY <1>1, <1>7, SessionSteps DEF SessionEnds
  <2>2. Spare' \in Int
    BY <2>1, SpareIsInt
  <2>3. crashes' = crashes /\ Held' = Held /\ source' = source
    BY <1>7 DEF SessionEnds, Held
  <2> QED
    BY <1>10, <2>1, <2>2, <2>3
<1>8. CASE BrokerRestarts
  <2>1. \A d \in Connections : session'[d] # "none" <=> session[d] # "none"
    BY <1>8 DEF BrokerRestarts
  <2>2. Top' = Top /\ \E n \in 0 .. MaxConnection : Dialled(n)'
    BY <1>1, <2>1, TopKept
  <2>3. /\ UNCHANGED clientVars /\ losses' = losses + 1 /\ crashes' = crashes
        /\ Held' = Held /\ source' = source
    BY <1>8 DEF BrokerRestarts, Loss, Held
  <2>4. Numbered'
    BY <1>1, <2>2, <2>3 DEF Numbered
  <2>5. losses \in Nat
    BY <1>1, AmqpAssumption DEF AmqpTypeOK
  <2>6. Spare' >= Spare /\ Spare' \in Int
    BY <1>2, <2>2, <2>3, <2>5 DEF Spare
  <2>7. Counted'
    BY <1>10, <2>3, <2>4, <2>6
  <2> QED
    BY <1>2, <2>2, <2>7
<1>9. CASE Restart
  <2>1. /\ AmqpTypeOK(Frame)' /\ Numbered' /\ Top' = Top /\ Spare' + 1 >= Spare
    BY <1>1, <1>9, RestartSteps DEF Restart
  <2>2. Spare' \in Int
    BY <2>1, SpareIsInt
  <2>3. crashes' = crashes + 1 /\ Held' = {}
    BY <1>9 DEF Restart, Held
  <2>4. Counted'
    BY <1>10, <2>1, <2>2, <2>3
  <2> QED
    BY <1>2, <2>1, <2>4
<1> QED
  BY <1>2, <1>4, <1>5, <1>6, <1>7, <1>8, <1>9

------------------------------------------------------------------------------
\* Copies that no longer travel.
LEMMA WayShrinks ==
  ASSUME NEW m, NEW e, IsFiniteSet(OnTheWay(m, e)), OnTheWay(m, e)' \subseteq OnTheWay(m, e)
  PROVE  IsFiniteSet(OnTheWay(m, e)') /\ Cardinality(OnTheWay(m, e)') <= Cardinality(OnTheWay(m, e))
BY FS_Subset

\* A frame that is written adds one copy, if it is one and there is a session.
LEMMA WaySent ==
  ASSUME TypeOK, NEW c \in Connections, NEW f \in Frame, Send(c, f), NEW m, NEW e,
         IsFiniteSet(OnTheWay(m, e))
  PROVE  /\ IsFiniteSet(OnTheWay(m, e)')
         /\ Cardinality(OnTheWay(m, e)')
              <= Cardinality(OnTheWay(m, e)) + (IF f = CopyFrame(m, e) THEN 1 ELSE 0)
<1> DEFINE n == Len(wire[c]) + 1
           here == <<c, n>>
<1>1. /\ wire \in [Connections -> Seq(Frame)] /\ wire' \in [Connections -> Seq(Frame)]
      /\ n \in Nat /\ n \notin DOMAIN wire[c]
  BY SendFacts, OnWire DEF TypeOK, AmqpTypeOK
<1>2. \A d \in Connections : \A i \in DOMAIN wire'[d] :
        \/ i \in DOMAIN wire[d] /\ wire'[d][i] = wire[d][i]
        \/ d = c /\ i = n /\ wire'[d][i] = f
  <2>1. wire \in [Connections -> Seq(Frame)]
    BY DEF TypeOK, AmqpTypeOK
  <2>2. \A d \in Connections : \A i \in DOMAIN wire'[d] :
          \/ i \in DOMAIN wire[d] /\ wire'[d][i] = wire[d][i]
          \/ d = c /\ session[c] = "open" /\ i = Len(wire[c]) + 1 /\ wire'[d][i] = f
    BY <2>1, Sending
  <2> QED
    BY <2>2
<1>3. here \notin OnTheWay(m, e)
  BY <1>1 DEF OnTheWay
<1>4. Cardinality(OnTheWay(m, e)) \in Nat
  BY FS_CardinalityType
<1> HIDE DEF n
<1>5. CASE f = CopyFrame(m, e)
  <2>1. OnTheWay(m, e)' \subseteq OnTheWay(m, e) \cup {here}
    <3>1. SUFFICES ASSUME NEW p \in OnTheWay(m, e)' PROVE p \in OnTheWay(m, e) \cup {here}
      OBVIOUS
    <3>2. p \in Connections \X Nat /\ p[2] \in DOMAIN wire'[p[1]] /\ wire'[p[1]][p[2]] = CopyFrame(m, e)
      BY <3>1 DEF OnTheWay, CopyFrame
    <3>3. p = <<p[1], p[2]>>
      BY <3>2
    <3> QED
      BY <1>2, <3>2, <3>3 DEF OnTheWay
  <2>2. /\ IsFiniteSet(OnTheWay(m, e) \cup {here})
        /\ Cardinality(OnTheWay(m, e) \cup {here}) = Cardinality(OnTheWay(m, e)) + 1
    BY <1>3, FS_AddElement
  <2> QED
    BY <1>5, <2>1, <2>2, FS_Subset
<1>6. CASE f # CopyFrame(m, e)
  <2>1. OnTheWay(m, e)' \subseteq OnTheWay(m, e)
    BY <1>2, <1>6 DEF OnTheWay, CopyFrame
  <2> QED
    BY <1>4, <1>6, <2>1, FS_Subset
<1> QED
  BY <1>5, <1>6

\* A copy that the broker takes from the wire counts no longer.
LEMMA WayTaken ==
  ASSUME TypeOK, NEW c \in Connections, wire[c] # <<>>,
         wire' = [wire EXCEPT ![c] = Tail(@)], NEW m, NEW e, IsFiniteSet(OnTheWay(m, e))
  PROVE  /\ IsFiniteSet(OnTheWay(m, e)')
         /\ Cardinality(OnTheWay(m, e)') + (IF Head(wire[c]) = CopyFrame(m, e) THEN 1 ELSE 0)
              <= Cardinality(OnTheWay(m, e))
<1> DEFINE f == [p \in OnTheWay(m, e)' |-> IF p[1] = c THEN <<c, p[2] + 1>> ELSE p]
           first == <<c, 1>>
           rest == OnTheWay(m, e) \ {first}
<1>1. /\ Head(wire[c]) = wire[c][1] /\ 1 \in DOMAIN wire[c]
      /\ \A d \in Connections \ {c} : wire'[d] = wire[d]
      /\ \A i \in DOMAIN wire'[c] :
           i \in Nat \ {0} /\ i + 1 \in DOMAIN wire[c] /\ wire'[c][i] = wire[c][i + 1]
  BY Arriving DEF TypeOK, AmqpTypeOK
<1>2. \A p \in OnTheWay(m, e)' :
        /\ p \in Connections \X Nat /\ p = <<p[1], p[2]>>
        /\ p[2] \in DOMAIN wire'[p[1]] /\ wire'[p[1]][p[2]] = CopyFrame(m, e)
  BY DEF OnTheWay, CopyFrame
<1>3. \A p \in OnTheWay(m, e)' : f[p] \in rest
  <2> SUFFICES ASSUME NEW p \in OnTheWay(m, e)' PROVE f[p] \in rest
    OBVIOUS
  <2>1. CASE p[1] = c
    <3>1. /\ p[2] \in Nat \ {0} /\ p[2] + 1 \in DOMAIN wire[c]
          /\ wire[c][p[2] + 1] = CopyFrame(m, e)
      BY <1>1, <1>2, <2>1
    <3>2. <<c, p[2] + 1>> \in OnTheWay(m, e) /\ <<c, p[2] + 1>> # first
      BY <3>1 DEF OnTheWay
    <3> QED
      BY <2>1, <3>2
  <2>2. CASE p[1] # c
    <3>1. p \in OnTheWay(m, e) /\ p # first
      BY <1>1, <1>2, <2>2 DEF OnTheWay
    <3> QED
      BY <2>2, <3>1
  <2> QED
    BY <2>1, <2>2
<1>4. f \in Injection(OnTheWay(m, e)', rest)
  <2>1. f \in [OnTheWay(m, e)' -> rest]
    BY <1>3
  <2>2. ASSUME NEW p \in OnTheWay(m, e)', NEW q \in OnTheWay(m, e)', f[p] = f[q] PROVE p = q
    <3>1. p \in Connections \X Nat /\ q \in Connections \X Nat
      BY <1>2
    <3>2. f[p][1] = p[1] /\ f[q][1] = q[1]
      OBVIOUS
    <3>3. CASE p[1] = c
      BY <2>2, <3>1, <3>2, <3>3
    <3>4. CASE p[1] # c
      BY <2>2, <3>1, <3>2, <3>4
    <3> QED
      BY <3>3, <3>4
  <2> HIDE DEF f, rest
  <2>3. DOMAIN f = OnTheWay(m, e)'
    BY <2>1
  <2> QED
    BY <2>1, <2>2, <2>3 DEF Injection, IsInjective
<1> HIDE DEF f
<1>5. /\ IsFiniteSet(rest)
      /\ Cardinality(rest) = IF first \in OnTheWay(m, e) THEN Cardinality(OnTheWay(m, e)) - 1
                             ELSE Cardinality(OnTheWay(m, e))
  BY FS_RemoveElement
<1> HIDE DEF rest
<1>6. IsFiniteSet(OnTheWay(m, e)') /\ Cardinality(OnTheWay(m, e)') <= Cardinality(rest)
  BY <1>4, <1>5, FS_Injection
<1>7. /\ Cardinality(OnTheWay(m, e)) \in Nat /\ Cardinality(OnTheWay(m, e)') \in Nat
      /\ Cardinality(rest) \in Nat
  BY <1>5, <1>6, FS_CardinalityType
<1>8. Head(wire[c]) = CopyFrame(m, e) => first \in OnTheWay(m, e)
  BY <1>1 DEF OnTheWay
<1> QED
  BY <1>5, <1>6, <1>7, <1>8

------------------------------------------------------------------------------
\* The counts are numbers, before and after a step.
LEMMA CountsAreNumbers ==
  ASSUME TypeOK, TypeOK', NEW m \in Messages, NEW e \in Endpoints,
         IsFiniteSet(OnTheWay(m, e)), IsFiniteSet(OnTheWay(m, e)')
  PROVE  /\ Cardinality(OnTheWay(m, e)) \in Nat /\ Cardinality(OnTheWay(m, e)') \in Nat
         /\ ToDo(m, e) \in Nat /\ ToDo(m, e)' \in Nat /\ Holds(m) \in Nat /\ Holds(m)' \in Nat
         /\ arrived[[msg |-> m, endpoint |-> e]] \in Nat
         /\ arrived'[[msg |-> m, endpoint |-> e]] \in Nat
         /\ Tries(m, e) \in Nat /\ Tries(m, e)' \in Nat /\ Hopes(m) \in Nat /\ Hopes(m)' \in Nat
<1>1. Cardinality(OnTheWay(m, e)) \in Nat /\ Cardinality(OnTheWay(m, e)') \in Nat
  BY FS_CardinalityType
<1>2. [msg |-> m, endpoint |-> e] \in Copy
  BY DEF Copy
<1>3. /\ arrived[[msg |-> m, endpoint |-> e]] \in Nat
      /\ arrived'[[msg |-> m, endpoint |-> e]] \in Nat
  BY <1>2 DEF TypeOK
<1>4. ToDo(m, e) \in Nat /\ ToDo(m, e)' \in Nat
  BY DEF ToDo
<1>5. Holds(m) \in Nat /\ Holds(m)' \in Nat
  <2>1. (IF m \in inbox THEN 1 ELSE 0) \in Nat /\ (IF m \in inbox' THEN 1 ELSE 0) \in Nat
    OBVIOUS
  <2>2. /\ (IF current = m /\ pc = "resolving" THEN 1 ELSE 0) \in Nat
        /\ (IF current' = m /\ pc' = "resolving" THEN 1 ELSE 0) \in Nat
    OBVIOUS
  <2> QED
    BY <2>1, <2>2 DEF Holds
<1>6. Tries(m, e) \in Nat /\ Tries(m, e)' \in Nat
  BY <1>1, <1>3, <1>4 DEF Tries
<1>7. Hopes(m) \in Nat /\ Hopes(m)' \in Nat
  BY <1>5 DEF Hopes
<1> QED
  BY <1>1, <1>3, <1>4, <1>5, <1>6, <1>7

\* What the last connection may deliver changes with sessions and settlements.
LEMMA FreshKept ==
  ASSUME UNCHANGED <<session, settled, unacked>>, Top' = Top, NEW m
  PROVE  Fresh(m)' <=> Fresh(m)
BY DEF Fresh

\* The head of what is to do is not to be done again.
LEMMA OnceTail ==
  ASSUME NEW S, NEW s \in Seq(S), s # <<>>, Once(s)
  PROVE  Once(Tail(s)) /\ (Head(s) # "incomplete" => Head(s) \notin ToSet(Tail(s)))
<1>1. /\ Head(s) = s[1] /\ Len(s) \in Nat \ {0} /\ DOMAIN s = 1 .. Len(s)
      /\ DOMAIN Tail(s) = 1 .. Len(s) - 1
      /\ \A i \in 1 .. Len(s) - 1 : Tail(s)[i] = s[i + 1]
  BY HeadTailProperties, LenProperties
<1>2. \A i \in 1 .. Len(s) - 1 : i + 1 \in 1 .. Len(s) /\ i + 1 # 1
  BY <1>1
<1>3. Once(Tail(s))
  BY <1>1, <1>2 DEF Once
<1>4. ASSUME Head(s) # "incomplete", Head(s) \in ToSet(Tail(s)) PROVE FALSE
  <2>1. PICK i \in 1 .. Len(s) - 1 : Tail(s)[i] = Head(s)
    BY <1>1, <1>4 DEF ToSet
  <2> QED
    BY <1>1, <1>2, <1>4, <2>1 DEF Once
<1> QED
  BY <1>3, <1>4

\* A step that has more connections by as much as there is more to try.
LEMMA CausesKept ==
  ASSUME Inv, Inv', Counted, Counted', CopiesHaveCauses,
         \A m \in Messages, e \in Endpoints :
           /\ IsFiniteSet(OnTheWay(m, e)')
           /\ Tries(m, e)' + Hopes(m)' + Top <= Tries(m, e) + Hopes(m) + Top'
  PROVE  CopiesHaveCauses'
<1> SUFFICES ASSUME NEW m \in Messages, NEW e \in Endpoints
             PROVE  IsFiniteSet(OnTheWay(m, e)') /\ Tries(m, e)' + Hopes(m)' <= Top'
  BY DEF CopiesHaveCauses
<1>1. IsFiniteSet(OnTheWay(m, e)) /\ Tries(m, e) + Hopes(m) <= Top
  BY DEF CopiesHaveCauses
<1>2. /\ Tries(m, e) \in Nat /\ Tries(m, e)' \in Nat /\ Hopes(m) \in Nat /\ Hopes(m)' \in Nat
  BY <1>1, CountsAreNumbers DEF Inv
<1>3. Top \in Nat
  BY TopFacts DEF Counted
<1>4. Top' \in Nat
  <2>1. PICK n \in 0 .. MaxConnection : Dialled(n)'
    BY DEF Counted, Numbered
  <2> QED
    BY <2>1, TopIs, Connecting
<1> QED
  BY <1>1, <1>2, <1>3, <1>4

\* The client: a connection dialled is one more to deliver a message.
LEMMA ClientTries ==
  ASSUME Inv, Inv', Counted, CopiesHaveCauses, Client, NEW m \in Messages, NEW e \in Endpoints
  PROVE  /\ IsFiniteSet(OnTheWay(m, e)')
         /\ Tries(m, e)' + Hopes(m)' + Top <= Tries(m, e) + Hopes(m) + Top'
<1>1. /\ Top \in Nat /\ Top' \in Nat /\ wire' = wire
      /\ \/ session' = session /\ Top' = Top
         \/ Top' = Top + 1
  BY ClientCounts
<1>2. UNCHANGED <<arrived, settled, unacked, pc, inbox, current, todo>>
  BY DEF Client, brokerVars, workerVars
<1>3. OnTheWay(m, e)' = OnTheWay(m, e) /\ ToDo(m, e)' = ToDo(m, e) /\ Holds(m)' = Holds(m)
  BY <1>1, <1>2 DEF OnTheWay, CopyFrame, ToDo, Holds
<1>4. Tries(m, e)' = Tries(m, e)
  BY <1>2, <1>3 DEF Tries
<1>5. IsFiniteSet(OnTheWay(m, e)) /\ IsFiniteSet(OnTheWay(m, e)')
  BY <1>3 DEF CopiesHaveCauses
<1>6. /\ Tries(m, e) \in Nat /\ Holds(m) \in Nat /\ Hopes(m) \in Nat /\ Hopes(m)' \in Nat
  BY <1>5, CountsAreNumbers DEF Inv
<1>7. CASE session' = session /\ Top' = Top
  <2>1. Fresh(m)' <=> Fresh(m)
    BY <1>2, <1>7, FreshKept
  <2>2. Hopes(m)' = Hopes(m)
    BY <1>3, <2>1 DEF Hopes
  <2> QED
    BY <1>1, <1>4, <1>5, <1>6, <1>7, <2>2
<1>8. CASE Top' = Top + 1
  <2>1. Hopes(m)' <= Hopes(m) + 1
    BY <1>3, <1>6 DEF Hopes
  <2> QED
    BY <1>1, <1>4, <1>5, <1>6, <1>8, <2>1
<1> QED
  BY <1>1, <1>7, <1>8

\* A message that is taken, resolved and forwarded is only passed on.
LEMMA WorkerTries ==
  ASSUME Inv, Inv', Counted, CopiesHaveCauses, ToDoOnce, Worker,
         NEW m \in Messages, NEW e \in Endpoints
  PROVE  /\ IsFiniteSet(OnTheWay(m, e)')
         /\ Tries(m, e)' + Hopes(m)' + Top <= Tries(m, e) + Hopes(m) + Top'
<1> USE DEF workerVars, brokerVars, amqpVars, clientVars
<1> DEFINE a == arrived[[msg |-> m, endpoint |-> e]]
           w == Cardinality(OnTheWay(m, e))
           v == Cardinality(OnTheWay(m, e)')
           t == ToDo(m, e)
           u == ToDo(m, e)'
           h == Holds(m)
           k == Holds(m)'
<1>1. /\ Top' = Top /\ Top \in Nat /\ TypeOK /\ TypeOK' /\ Busy /\ Busy' /\ Sessions
      /\ IsFiniteSet(OnTheWay(m, e))
  BY OthersCount DEF CopiesHaveCauses, Inv, ResolverInvariant
<1>2. UNCHANGED <<session, settled, unacked, arrived>>
  BY DEF Worker, Listen, Take, DeliveriesClosed, Resolve, ResolveFails, Skip, Forward,
     Unsupported, Settle
<1>3. Fresh(m)' <=> Fresh(m)
  BY <1>1, <1>2, FreshKept
<1>4. ASSUME IsFiniteSet(OnTheWay(m, e)'), v + u + k <= w + t + h
      PROVE  Tries(m, e)' + Hopes(m)' + Top <= Tries(m, e) + Hopes(m) + Top'
  <2>1. /\ a \in Nat /\ w \in Nat /\ v \in Nat /\ t \in Nat /\ u \in Nat /\ h \in Nat /\ k \in Nat
    BY <1>1, <1>4, CountsAreNumbers
  <2>2. Tries(m, e) = a + w + t /\ Tries(m, e)' = a + v + u
    BY <1>2 DEF Tries
  <2> HIDE DEF a, w, v, t, u, h, k
  <2>3. CASE Fresh(m)
    <3>1. Hopes(m) = h + 1 /\ Hopes(m)' = k + 1
      BY <1>3, <2>3 DEF Hopes, h, k
    <3> QED
      BY <1>1, <1>4, <2>1, <2>2, <3>1
  <2>4. CASE ~Fresh(m)
    <3>1. Hopes(m) = h + 0 /\ Hopes(m)' = k + 0
      BY <1>3, <2>4 DEF Hopes, h, k
    <3> QED
      BY <1>1, <1>4, <2>1, <2>2, <3>1
  <2> QED
    BY <2>3, <2>4
<1>5. ASSUME wire' = wire, u + k <= t + h
      PROVE  /\ IsFiniteSet(OnTheWay(m, e)')
             /\ Tries(m, e)' + Hopes(m)' + Top <= Tries(m, e) + Hopes(m) + Top'
  <2>1. OnTheWay(m, e)' = OnTheWay(m, e)
    BY <1>5 DEF OnTheWay, CopyFrame
  <2>2. IsFiniteSet(OnTheWay(m, e)') /\ v = w
    BY <1>1, <2>1
  <2>3. w \in Nat /\ t \in Nat /\ u \in Nat /\ h \in Nat /\ k \in Nat
    BY <1>1, <2>2, CountsAreNumbers
  <2> HIDE DEF w, v, t, u, h, k
  <2>4. v + u + k <= w + t + h
    BY <1>5, <2>2, <2>3
  <2> QED
    BY <1>4, <2>2, <2>4
<1>6. CASE Listen \/ Take \/ DeliveriesClosed \/ ResolveFails \/ Resolve \/ Unsupported
  <2>1. wire' = wire
    BY <1>6 DEF Listen, Take, DeliveriesClosed, ResolveFails, Resolve, Unsupported
  <2>2. u + k <= t + h
    BY <1>6, <1>1 DEF Listen, Take, DeliveriesClosed, ResolveFails, Resolve, Unsupported,
       Busy, ToDo, Holds
  <2> QED
    BY <1>5, <2>1, <2>2
<1>7. ASSUME todo # <<>>
      PROVE  ToSet(todo) = {Head(todo)} \cup ToSet(Tail(todo))
  BY <1>1, <1>7, ToDoFacts DEF TypeOK
<1>8. CASE Skip
  <2>1. wire' = wire
    BY <1>8 DEF Skip
  <2>2. u + k <= t + h
    BY <1>7, <1>8 DEF Skip, ToDo, Holds
  <2> QED
    BY <1>5, <2>1, <2>2
<1>9. CASE Forward
  <2> DEFINE f == [kind |-> "publish", copy |-> [msg |-> current, endpoint |-> Head(todo)]]
             one == IF f = CopyFrame(m, e) THEN 1 ELSE 0
  <2>1. /\ pc = "forwarding" /\ todo # <<>> /\ Head(todo) # "incomplete" /\ Usable
        /\ Send(conn, f) /\ todo' = Tail(todo) /\ UNCHANGED <<pc, inbox, current>>
    BY <1>9 DEF Forward
  <2>2. current \in Messages /\ Head(todo) \in Endpoints /\ conn \in Connections
    <3>1. Head(todo) \in Endpoints \cup {"incomplete"}
      BY <1>1, <2>1, HeadTailProperties DEF TypeOK
    <3> QED
      BY <1>1, <2>1, <3>1 DEF TypeOK, AmqpTypeOK, Busy, Sessions, Usable
  <2>3. f \in Frame
    BY <2>2, FrameFacts
  <2>4. IsFiniteSet(OnTheWay(m, e)') /\ v <= w + one
    BY <1>1, <2>1, <2>2, <2>3, WaySent
  <2>5. k = h
    BY <2>1 DEF Holds
  <2>6. one + u <= t
    <3>1. Head(todo) \notin ToSet(Tail(todo))
      BY <1>1, <2>1, OnceTail DEF TypeOK, ToDoOnce
    <3>2. CASE f = CopyFrame(m, e)
      <4>1. f.copy = [msg |-> m, endpoint |-> e]
        BY <3>2 DEF CopyFrame
      <4>2. f.copy.msg = m /\ f.copy.endpoint = e
        BY <4>1
      <4>3. current = m /\ e = Head(todo)
        BY <4>2
      <4> HIDE DEF f
      <4> QED
        BY <1>7, <2>1, <3>1, <3>2, <4>3 DEF ToDo
    <3>3. CASE f # CopyFrame(m, e)
      BY <1>7, <2>1, <3>3 DEF ToDo
    <3> QED
      BY <3>2, <3>3
  <2>7. w \in Nat /\ v \in Nat /\ t \in Nat /\ u \in Nat /\ h \in Nat /\ k \in Nat
    BY <1>1, <2>4, CountsAreNumbers
  <2>8. one \in Nat
    OBVIOUS
  <2> HIDE DEF one, w, v, t, u, h, k
  <2>9. v + u + k <= w + t + h
    BY <2>4, <2>5, <2>6, <2>7, <2>8
  <2> QED
    BY <1>4, <2>4, <2>9
<1>10. CASE Settle
  <2>1. PICK verdict \in {"ack", "nack"} : Answer(verdict)
    BY <1>10 DEF Settle
  <2> DEFINE f == [kind |-> verdict, msg |-> current]
  <2>2. /\ current \in Messages /\ source \in Connections \cup {0}
        /\ pc' = "ranging" /\ inbox' = inbox
    BY <1>1, <1>10 DEF Settle, TypeOK, Busy
  <2>3. wire' = wire \/ (source \in Connections /\ Send(source, f))
    <3>1. CASE SourceClosed
      BY <2>1, <3>1 DEF Answer
    <3>2. CASE ~SourceClosed
      <4>1. source \in Connections
        BY <1>1, <2>2, <3>2 DEF SourceClosed, Sessions
      <4>2. Send(source, f)
        BY <2>1, <3>2 DEF Answer
      <4> QED
        BY <4>1, <4>2
    <3> QED
      BY <3>1, <3>2
  <2>4. f # CopyFrame(m, e)
    <3>1. f.kind # "publish" /\ CopyFrame(m, e).kind = "publish"
      BY DEF CopyFrame
    <3> QED
      BY <3>1
  <2>5. u + k <= t + h
    BY <2>2 DEF ToDo, Holds
  <2>6. CASE wire' = wire
    BY <1>5, <2>5, <2>6
  <2>7. CASE source \in Connections /\ Send(source, f)
    <3>1. f \in Frame
      BY <2>2, FrameFacts
    <3>2. IsFiniteSet(OnTheWay(m, e)') /\ v <= w + 0
      BY <1>1, <2>4, <2>7, <3>1, WaySent
    <3>3. w \in Nat /\ v \in Nat /\ t \in Nat /\ u \in Nat /\ h \in Nat /\ k \in Nat
      BY <1>1, <3>2, CountsAreNumbers
    <3> HIDE DEF w, v, t, u, h, k
    <3>4. v + u + k <= w + t + h
      BY <2>5, <3>2, <3>3
    <3> QED
      BY <1>4, <3>2, <3>4
  <2> QED
    BY <2>3, <2>6, <2>7
<1> QED
  BY <1>6, <1>8, <1>9, <1>10 DEF Worker

\* A delivery uses up what the last connection may deliver.
LEMMA DeliverTries ==
  ASSUME Inv, Inv', Counted, CopiesHaveCauses, NEW c \in Connections, Deliver(c),
         NEW m \in Messages, NEW e \in Endpoints
  PROVE  /\ IsFiniteSet(OnTheWay(m, e)')
         /\ Tries(m, e)' + Hopes(m)' + Top <= Tries(m, e) + Hopes(m) + Top'
<1>1. /\ Top' = Top /\ Top \in Nat /\ TypeOK /\ TypeOK' /\ OnePlace /\ Numbered
      /\ IsFiniteSet(OnTheWay(m, e))
  BY OthersCount DEF CopiesHaveCauses, Inv, Counted
<1>2. UNCHANGED <<wire, arrived, settled, session, pc, current, todo>>
  BY DEF Deliver, amqpVars
<1>3. PICK x \in queue :
        /\ queue' = queue \ {x}
        /\ unacked' = [unacked EXCEPT ![c] = @ \cup {x}]
        /\ inbox' = IF ~SourceClosed /\ c = source THEN inbox \cup {x} ELSE inbox
  BY DEF Deliver
<1>4. OnTheWay(m, e)' = OnTheWay(m, e) /\ ToDo(m, e)' = ToDo(m, e)
  BY <1>2 DEF OnTheWay, CopyFrame, ToDo
<1>5. IsFiniteSet(OnTheWay(m, e)') /\ Tries(m, e)' = Tries(m, e)
  BY <1>1, <1>2, <1>4 DEF Tries
<1>6. /\ Tries(m, e) \in Nat /\ Hopes(m) \in Nat /\ Hopes(m)' \in Nat
      /\ Holds(m) \in Nat /\ Holds(m)' \in Nat
  BY <1>1, <1>5, CountsAreNumbers
<1>7. Fresh(m)' => Fresh(m)
  <2>1. unacked[Top] \subseteq unacked'[Top] \/ Top = 0
    <3>1. CASE Top = 0
      BY <3>1
    <3>2. CASE Top # 0
      <4>1. Top \in Connections
        BY <1>1, <3>2, TopFacts, Connecting
      <4> QED
        BY <1>1, <1>3, <4>1 DEF TypeOK
    <3> QED
      BY <3>1, <3>2
  <2> QED
    BY <1>1, <1>2, <2>1 DEF Fresh
<1>8. CASE ~SourceClosed /\ c = source /\ x = m
  <2>1. conn = Top /\ c = Top /\ Top # 0
    BY <1>1, <1>8, ConnectionFacts DEF SourceClosed, Numbered
  <2>2. session[Top] = "open"
    BY <2>1 DEF Deliver
  <2>3. settled[m] = "no" /\ m \notin unacked[Top]
    BY <1>1, <1>3, <1>8, <2>1 DEF OnePlace
  <2>4. Fresh(m)
    BY <2>1, <2>2, <2>3 DEF Fresh
  <2>5. m \in unacked'[Top]
    BY <1>1, <1>3, <1>8, <2>1 DEF TypeOK
  <2>6. ~Fresh(m)'
    BY <1>1, <2>5 DEF Fresh
  <2>7. Holds(m)' <= Holds(m) + 1
    BY <1>2 DEF Holds
  <2>8. Hopes(m) = Holds(m) + 1 /\ Hopes(m)' = Holds(m)' + 0
    BY <2>4, <2>6 DEF Hopes
  <2> QED
    BY <1>1, <1>5, <1>6, <2>7, <2>8
<1>9. CASE ~(~SourceClosed /\ c = source /\ x = m)
  <2>1. m \in inbox' <=> m \in inbox
    BY <1>3, <1>9
  <2>2. Holds(m)' = Holds(m)
    BY <1>2, <2>1 DEF Holds
  <2>3. Hopes(m)' <= Hopes(m)
    BY <1>6, <1>7, <2>2 DEF Hopes
  <2> QED
    BY <1>1, <1>5, <1>6, <2>3
<1> QED
  BY <1>8, <1>9

\* A copy that arrives is counted as arrived, and a verdict ends the hopes.
LEMMA ArriveTries ==
  ASSUME Inv, Inv', Counted, CopiesHaveCauses, NEW c \in Connections, Arrive(c),
         NEW m \in Messages, NEW e \in Endpoints
  PROVE  /\ IsFiniteSet(OnTheWay(m, e)')
         /\ Tries(m, e)' + Hopes(m)' + Top <= Tries(m, e) + Hopes(m) + Top'
<1> DEFINE f == Head(wire[c])
           copy == [msg |-> m, endpoint |-> e]
           one == IF f = CopyFrame(m, e) THEN 1 ELSE 0
           w == Cardinality(OnTheWay(m, e))
           v == Cardinality(OnTheWay(m, e)')
           a == arrived[copy]
           b == arrived'[copy]
           t == ToDo(m, e)
<1>1. /\ Top' = Top /\ Top \in Nat /\ TypeOK /\ TypeOK'
      /\ IsFiniteSet(OnTheWay(m, e))
  BY OthersCount DEF CopiesHaveCauses, Inv, Counted
<1>2. /\ UNCHANGED <<session, pc, current, inbox, todo>>
      /\ wire[c] # <<>> /\ wire' = [wire EXCEPT ![c] = Tail(@)]
  BY DEF Arrive, workerVars
<1>3. f \in Frame
  BY <1>1, <1>2, ArriveFacts
<1>4. IsFiniteSet(OnTheWay(m, e)') /\ v + one <= w
  BY <1>1, <1>2, WayTaken
<1>5. ToDo(m, e)' = t /\ Holds(m)' = Holds(m)
  BY <1>2 DEF ToDo, Holds
<1>6. /\ Tries(m, e) \in Nat /\ Tries(m, e)' \in Nat /\ Hopes(m) \in Nat /\ Hopes(m)' \in Nat
      /\ Holds(m) \in Nat /\ a \in Nat /\ b \in Nat /\ w \in Nat /\ v \in Nat /\ t \in Nat
  BY <1>1, <1>4, CountsAreNumbers
<1>7. copy \in Copy
  BY DEF Copy
<1>8. b <= a + one
  <2>1. CASE f.kind = "publish"
    <3>1. f.copy \in Copy /\ f = [kind |-> "publish", copy |-> f.copy] /\ Route(f.copy)
      <4>1. f.copy \in Copy /\ f = [kind |-> "publish", copy |-> f.copy]
        BY <1>3, <2>1 DEF Frame
      <4> QED
        BY <2>1, <4>1 DEF Arrive
    <3>2. CASE f.copy = copy
      <4>1. one = 1
        BY <3>1, <3>2 DEF CopyFrame
      <4>2. b = a \/ b = a + 1
        BY <1>1, <1>7, <3>1, <3>2 DEF Route, TypeOK
      <4> QED
        BY <1>6, <4>1, <4>2
    <3>3. CASE f.copy # copy
      <4>1. b = a
        BY <1>1, <1>7, <3>1, <3>3 DEF Route, TypeOK
      <4> QED
        BY <1>6, <4>1
    <3> QED
      BY <3>2, <3>3
  <2>2. CASE f.kind # "publish"
    <3>1. b = a
      BY <2>2 DEF Arrive
    <3> QED
      BY <1>6, <3>1
  <2> QED
    BY <2>1, <2>2
<1>9. Fresh(m)' => Fresh(m)
  <2>1. CASE f.kind = "publish"
    <3>1. UNCHANGED <<settled, unacked>>
      BY <2>1 DEF Arrive
    <3> QED
      BY <1>1, <1>2, <3>1, FreshKept
  <2>2. CASE f.kind # "publish"
    <3>1. f.msg \in Messages
      BY <1>3, <2>2, FrameFacts
    <3>2. Acked(c, f.msg) \/ Nacked(c, f.msg)
      BY <2>2 DEF Arrive
    <3>3. CASE f.msg = m
      <4>1. settled'[m] # "no"
        BY <1>1, <3>2, <3>3 DEF Acked, Nacked, TypeOK
      <4> QED
        BY <4>1 DEF Fresh
    <3>4. CASE f.msg # m
      <4>1. settled'[m] = settled[m]
        BY <1>1, <3>1, <3>2, <3>4 DEF Acked, Nacked, TypeOK
      <4>2. unacked' = [unacked EXCEPT ![c] = @ \ {f.msg}]
        BY <3>2 DEF Acked, Nacked
      <4>3. \A d \in Connections : m \in unacked'[d] <=> m \in unacked[d]
        BY <1>1, <3>4, <4>2 DEF TypeOK
      <4>4. Top = 0 \/ Top \in Connections
        BY TopFacts, Connecting DEF Counted
      <4> QED
        BY <1>1, <1>2, <4>1, <4>3, <4>4 DEF Fresh
    <3> QED
      BY <3>3, <3>4
  <2> QED
    BY <2>1, <2>2
<1>10. Hopes(m)' <= Hopes(m)
  BY <1>5, <1>6, <1>9 DEF Hopes
<1>11. Tries(m, e)' <= Tries(m, e)
  <2>1. Tries(m, e) = a + w + t /\ Tries(m, e)' = b + v + t
    BY <1>5 DEF Tries
  <2>2. one \in Nat
    OBVIOUS
  <2> HIDE DEF a, b, w, v, t, one
  <2> QED
    BY <1>4, <1>6, <1>8, <2>1, <2>2
<1> QED
  BY <1>1, <1>4, <1>6, <1>10, <1>11

\* What ends with a session or a restart is not counted any more.
LEMMA EndsTries ==
  ASSUME Inv, Inv', Counted, CopiesHaveCauses,
         BrokerRestarts \/ EgressStarts \/ Restart \/ \E c \in Connections : SessionEnds(c),
         NEW m \in Messages, NEW e \in Endpoints
  PROVE  /\ IsFiniteSet(OnTheWay(m, e)')
         /\ Tries(m, e)' + Hopes(m)' + Top <= Tries(m, e) + Hopes(m) + Top'
<1> USE DEF workerVars, brokerVars, amqpVars, clientVars
<1>1. /\ Top' = Top /\ Top \in Nat /\ TypeOK /\ TypeOK' /\ IsFiniteSet(OnTheWay(m, e))
      /\ (Top = 0 \/ Top \in Connections)
  BY OthersCount, TopFacts, Connecting DEF CopiesHaveCauses, Inv, Counted
<1>2. OnTheWay(m, e)' \subseteq OnTheWay(m, e)
  <2>1. \A d \in Connections : wire'[d] = wire[d] \/ wire'[d] = <<>>
    BY <1>1 DEF BrokerRestarts, EgressStarts, Restart, RestartClient, SessionEnds, EndSession,
       TypeOK, AmqpTypeOK
  <2>2. DOMAIN <<>> = {}
    OBVIOUS
  <2> QED
    BY <2>1, <2>2 DEF OnTheWay, CopyFrame
<1>3. /\ IsFiniteSet(OnTheWay(m, e)')
      /\ Cardinality(OnTheWay(m, e)') <= Cardinality(OnTheWay(m, e))
  BY <1>1, <1>2, WayShrinks
<1>4. arrived' = arrived
  BY DEF BrokerRestarts, EgressStarts, Restart, SessionEnds
<1>5. ToDo(m, e)' <= ToDo(m, e) /\ Holds(m)' <= Holds(m)
  BY DEF BrokerRestarts, EgressStarts, Restart, SessionEnds, ToDo, Holds
<1>6. Fresh(m)' => Fresh(m)
  <2>1. CASE EgressStarts \/ Restart
    <3>1. UNCHANGED <<session, settled, unacked>>
      BY <2>1 DEF EgressStarts, Restart, RestartClient
    <3> QED
      BY <1>1, <3>1, FreshKept
  <2>2. CASE BrokerRestarts
    <3>1. \A d \in Connections : session'[d] # "open"
      BY <2>2 DEF BrokerRestarts
    <3> QED
      BY <1>1, <3>1 DEF Fresh
  <2>3. ASSUME NEW c \in Connections, SessionEnds(c) PROVE Fresh(m)' => Fresh(m)
    <3>1. /\ session' = [session EXCEPT ![c] = "ended"] /\ settled' = settled
          /\ unacked' = [unacked EXCEPT ![c] = {}]
      BY <2>3 DEF SessionEnds, EndSession
    <3>2. CASE Top = c
      <4>1. session'[Top] # "open"
        BY <1>1, <3>1, <3>2 DEF TypeOK, AmqpTypeOK
      <4> QED
        BY <1>1, <4>1 DEF Fresh
    <3>3. CASE Top # c
      BY <1>1, <3>1, <3>3 DEF Fresh, TypeOK, AmqpTypeOK
    <3> QED
      BY <3>2, <3>3
  <2> QED
    BY <2>1, <2>2, <2>3
<1>7. /\ Cardinality(OnTheWay(m, e)) \in Nat /\ Cardinality(OnTheWay(m, e)') \in Nat
      /\ ToDo(m, e) \in Nat /\ ToDo(m, e)' \in Nat /\ Holds(m) \in Nat /\ Holds(m)' \in Nat
      /\ arrived[[msg |-> m, endpoint |-> e]] \in Nat
      /\ Tries(m, e) \in Nat /\ Tries(m, e)' \in Nat /\ Hopes(m) \in Nat /\ Hopes(m)' \in Nat
  BY <1>1, <1>3, CountsAreNumbers
<1>8. Tries(m, e)' <= Tries(m, e)
  BY <1>3, <1>4, <1>5, <1>7 DEF Tries
<1>9. Hopes(m)' <= Hopes(m)
  BY <1>5, <1>6, <1>7 DEF Hopes
<1> QED
  BY <1>1, <1>3, <1>7, <1>8, <1>9

\* So every step keeps copies to the number of connections.
LEMMA CausesNext ==
  ASSUME Inv, Inv', Counted, ToDoOnce, CopiesHaveCauses, Next
  PROVE  Counted' /\ CopiesHaveCauses'
<1>1. Counted'
  BY ClientCounts, OthersCount DEF Next
<1>2. ASSUME NEW m \in Messages, NEW e \in Endpoints
      PROVE  /\ IsFiniteSet(OnTheWay(m, e)')
             /\ Tries(m, e)' + Hopes(m)' + Top <= Tries(m, e) + Hopes(m) + Top'
  <2>1. CASE Client
    BY <2>1, ClientTries
  <2>2. CASE Worker
    BY <2>2, WorkerTries
  <2>3. ASSUME NEW c \in Connections, Deliver(c)
        PROVE  /\ IsFiniteSet(OnTheWay(m, e)')
               /\ Tries(m, e)' + Hopes(m)' + Top <= Tries(m, e) + Hopes(m) + Top'
    BY <2>3, DeliverTries
  <2>4. ASSUME NEW c \in Connections, Arrive(c)
        PROVE  /\ IsFiniteSet(OnTheWay(m, e)')
               /\ Tries(m, e)' + Hopes(m)' + Top <= Tries(m, e) + Hopes(m) + Top'
    BY <2>4, ArriveTries
  <2>5. CASE BrokerRestarts \/ EgressStarts \/ Restart \/ \E c \in Connections : SessionEnds(c)
    BY <2>5, EndsTries
  <2> QED
    BY <2>1, <2>2, <2>3, <2>4, <2>5 DEF Next
<1> QED
  BY <1>1, <1>2, CausesKept

\* What is to do is an answer of the registry or the rest of one.
LEMMA ToDoNext ==
  ASSUME AnswersListOnce, Inv, ToDoOnce, Next
  PROVE  ToDoOnce'
<1> USE DEF workerVars, brokerVars, amqpVars, clientVars
<1>1. Once(<<>>)
  BY DEF Once
<1>2. CASE todo' = todo \/ todo' = <<>>
  BY <1>1, <1>2 DEF ToDoOnce, Once
<1>3. CASE Resolve
  BY <1>3 DEF Resolve, AnswersListOnce, ToDoOnce, Once
<1>4. CASE todo # <<>> /\ todo' = Tail(todo)
  <2>1. todo \in Seq(Endpoints \cup {"incomplete"})
    BY DEF Inv, TypeOK
  <2>2. Once(todo) /\ Once(Tail(todo))
    BY <1>4, <2>1, OnceTail DEF ToDoOnce
  <2> QED
    BY <1>4, <2>2 DEF ToDoOnce, Once
<1>5. Skip \/ Forward => todo # <<>> /\ todo' = Tail(todo)
  BY DEF Skip, Forward
<1>6. ASSUME ~Skip, ~Forward, ~Resolve PROVE todo' = todo \/ todo' = <<>>
  BY <1>6 DEF Next, Client, Worker, Listen, Take, DeliveriesClosed, ResolveFails, Unsupported,
     Settle, Deliver, Arrive, SessionEnds, BrokerRestarts, EgressStarts, Restart
<1> QED
  BY <1>2, <1>3, <1>4, <1>5, <1>6

\* The counts hold at the start.
LEMMA CountsInit ==
  ASSUME Init
  PROVE  Counted /\ ToDoOnce /\ CopiesHaveCauses /\ LateCopies
<1>1. Numbered /\ Top = 0 /\ Spare = 0 /\ \A d \in Connections : wire[d] = <<>>
  BY ClientInit DEF Init, AmqpInit
<1>2. Counted
  BY <1>1 DEF Init, Counted, Held
<1>3. ToDoOnce
  BY DEF Init, ToDoOnce, Once
<1>4. DOMAIN <<>> = {}
  OBVIOUS
<1>5. LateCopies
  BY <1>1, <1>4 DEF LateCopies
<1>6. ASSUME NEW m \in Messages, NEW e \in Endpoints
      PROVE  IsFiniteSet(OnTheWay(m, e)) /\ Tries(m, e) + Hopes(m) <= Top
  <2>1. OnTheWay(m, e) = {}
    BY <1>1, <1>4 DEF OnTheWay
  <2>2. IsFiniteSet(OnTheWay(m, e)) /\ Cardinality(OnTheWay(m, e)) = 0
    BY <2>1, FS_EmptySet
  <2>3. arrived[[msg |-> m, endpoint |-> e]] = 0 /\ ToDo(m, e) = 0
    BY DEF Init, Copy, ToDo
  <2>4. Tries(m, e) = 0
    BY <2>2, <2>3 DEF Tries
  <2>5. Hopes(m) = 0
    BY <1>1 DEF Init, Hopes, Holds, Fresh
  <2> QED
    BY <1>1, <2>2, <2>4, <2>5
<1>7. CopiesHaveCauses
  BY <1>6 DEF CopiesHaveCauses
<1> QED
  BY <1>2, <1>3, <1>5, <1>7

------------------------------------------------------------------------------
\* Only a connection that was dialled has frames.
LEMMA SessionsAreDialled ==
  ASSUME TypeOK, Sessions, Numbered, NEW d \in Connections
  PROVE  /\ session[d] # "none" => d <= Top
         /\ \A i \in DOMAIN wire[d] : session[d] = "open"
<1>1. Dialled(Top)
  BY TopFacts
<1>2. DOMAIN <<>> = {}
  OBVIOUS
<1> QED
  BY <1>1, <1>2 DEF Dialled, Sessions

\* Nothing is written, and what was delivered stays with its connection or ends with it.
LEMMA LateKept ==
  ASSUME LateCopies, settled' = settled, Top \in Nat, Top' \in Nat, Top' >= Top,
         \A d \in Connections :
           wire'[d] = <<>> \/ (wire'[d] = wire[d] /\ unacked[d] \subseteq unacked'[d])
  PROVE  LateCopies'
<1>1. DOMAIN <<>> = {} /\ Connections \subseteq Nat
  BY Connecting
<1>2. \A d \in Connections : \A i \in DOMAIN wire'[d] :
        /\ i \in DOMAIN wire[d] /\ wire'[d][i] = wire[d][i]
        /\ unacked[d] \subseteq unacked'[d]
  BY <1>1
<1>3. SUFFICES ASSUME NEW d \in Connections, NEW i \in DOMAIN wire'[d], NEW m \in Messages,
                      NEW e \in Endpoints, wire'[d][i] = CopyFrame(m, e)
               PROVE  /\ d >= 2 \/ m \in unacked'[d]
                      /\ settled'[m] \in {"acked", "nacked"} => Top' > d
                      /\ \A c \in Connections : \A j \in DOMAIN wire'[c] :
                           Verdict(wire'[c][j], m) => c > d \/ (c = d /\ j > i)
  BY DEF LateCopies, CopyFrame, Verdict
<1>4. i \in DOMAIN wire[d] /\ wire[d][i] = CopyFrame(m, e) /\ unacked[d] \subseteq unacked'[d]
  BY <1>2, <1>3
<1>5. /\ d >= 2 \/ m \in unacked[d]
      /\ settled[m] \in {"acked", "nacked"} => Top > d
      /\ \A c \in Connections : \A j \in DOMAIN wire[c] :
           Verdict(wire[c][j], m) => c > d \/ (c = d /\ j > i)
  BY <1>4 DEF LateCopies
<1>6. d >= 2 \/ m \in unacked'[d]
  BY <1>4, <1>5
<1>7. settled'[m] \in {"acked", "nacked"} => Top' > d
  BY <1>1, <1>5
<1>8. \A c \in Connections : \A j \in DOMAIN wire'[c] :
        Verdict(wire'[c][j], m) => c > d \/ (c = d /\ j > i)
  BY <1>2, <1>5
<1> QED
  BY <1>6, <1>7, <1>8

\* A copy that is written to another connection than its message's is on a later one.
LEMMA LateForward ==
  ASSUME Inv, Counted, LateCopies, Forward
  PROVE  LateCopies'
<1> DEFINE f == [kind |-> "publish", copy |-> [msg |-> current, endpoint |-> Head(todo)]]
<1>1. /\ Top' = Top /\ Top \in Nat /\ TypeOK /\ Sessions /\ Busy /\ Numbered
  BY OthersCount DEF Worker, Inv, ResolverInvariant, Counted
<1>2. /\ pc = "forwarding" /\ todo # <<>> /\ Head(todo) # "incomplete" /\ Usable
      /\ Send(conn, f) /\ UNCHANGED <<settled, unacked>>
  BY DEF Forward, brokerVars
<1>3. current \in Messages /\ Head(todo) \in Endpoints /\ conn \in Connections /\ current \in Held
  <2>1. Head(todo) \in Endpoints \cup {"incomplete"}
    BY <1>1, <1>2, HeadTailProperties DEF TypeOK
  <2> QED
    BY <1>1, <1>2, <2>1 DEF TypeOK, AmqpTypeOK, Busy, Sessions, Usable, Held
<1>4. f \in Frame /\ wire \in [Connections -> Seq(Frame)]
  BY <1>1, <1>3, FrameFacts DEF TypeOK, AmqpTypeOK
<1>5. \A d \in Connections : \A i \in DOMAIN wire'[d] :
        \/ i \in DOMAIN wire[d] /\ wire'[d][i] = wire[d][i]
        \/ d = conn /\ session[conn] = "open" /\ wire'[d][i] = f
  <2>1. \A d \in Connections : \A i \in DOMAIN wire'[d] :
          \/ i \in DOMAIN wire[d] /\ wire'[d][i] = wire[d][i]
          \/ d = conn /\ session[conn] = "open" /\ i = Len(wire[conn]) + 1 /\ wire'[d][i] = f
    <3> HIDE DEF f
    <3> QED BY <1>2, <1>3, <1>4, Sending
  <2> QED
    BY <2>1
<1>6. \A m \in Messages : ~Verdict(f, m)
  BY DEF Verdict
<1>7. \A m \in Messages, e \in Endpoints : f = CopyFrame(m, e) => m = current
  <2>1. SUFFICES ASSUME NEW m \in Messages, NEW e \in Endpoints, f = CopyFrame(m, e)
                 PROVE  m = current
    OBVIOUS
  <2>2. f.copy = [msg |-> m, endpoint |-> e]
    BY <2>1 DEF CopyFrame
  <2> QED
    BY <2>2
<1> HIDE DEF f
<1>8. SUFFICES ASSUME NEW d \in Connections, NEW i \in DOMAIN wire'[d], NEW m \in Messages,
                      NEW e \in Endpoints, wire'[d][i] = CopyFrame(m, e)
               PROVE  /\ d >= 2 \/ m \in unacked'[d]
                      /\ settled'[m] \in {"acked", "nacked"} => Top' > d
                      /\ \A c \in Connections : \A j \in DOMAIN wire'[c] :
                           Verdict(wire'[c][j], m) => c > d \/ (c = d /\ j > i)
  BY DEF LateCopies, CopyFrame, Verdict
<1>9. \A c \in Connections : \A j \in DOMAIN wire'[c] :
        Verdict(wire'[c][j], m) => j \in DOMAIN wire[c] /\ Verdict(wire[c][j], m)
  BY <1>5, <1>6
<1>10. CASE i \in DOMAIN wire[d] /\ wire'[d][i] = wire[d][i]
  BY <1>1, <1>2, <1>8, <1>9, <1>10 DEF LateCopies
<1>11. CASE d = conn /\ session[conn] = "open" /\ wire'[d][i] = f
  <2>1. m = current
    BY <1>7, <1>8, <1>11
  <2>2. d >= 2 \/ m \in unacked'[d]
    <3>1. source \in Connections /\ conn = Top
      BY <1>1, <1>3, ConnectionFacts DEF Counted, Numbered, TypeOK
    <3>2. CASE source = conn
      BY <1>2, <1>3, <1>11, <2>1, <3>2
         DEF Inv, ResolverInvariant, HeldIsUnacked, SourceClosed, Usable
    <3>3. CASE source # conn
      <4>1. source <= Top
        BY <1>1, <3>1, ConnectionFacts, SessionsAreDialled DEF Sessions
      <4>2. source \in Nat \ {0} /\ conn \in Nat
        BY <1>3, <3>1, ConnectionFacts
      <4> QED
        BY <1>11, <3>1, <3>3, <4>1, <4>2
    <3> QED
      BY <3>2, <3>3
  <2>3. settled'[m] \notin {"acked", "nacked"}
    BY <1>2, <1>3, <2>1 DEF Inv, ResolverInvariant, SettledIsReleased
  <2>4. \A c \in Connections : \A j \in DOMAIN wire'[c] : ~Verdict(wire'[c][j], m)
    BY <1>3, <1>9, <2>1 DEF Inv, ResolverInvariant, VerdictsAreFinal
  <2> QED
    BY <2>2, <2>3, <2>4
<1> QED
  BY <1>5, <1>10, <1>11

\* A verdict goes to the last connection, behind the copies there.
LEMMA LateSettle ==
  ASSUME Inv, Counted, LateCopies, Settle
  PROVE  LateCopies'
<1>1. /\ Top' = Top /\ Top \in Nat /\ TypeOK /\ Sessions /\ Busy /\ Numbered
  BY OthersCount DEF Worker, Inv, ResolverInvariant, Counted
<1>2. UNCHANGED <<settled, unacked>>
  BY DEF Settle, brokerVars
<1>3. CASE wire' = wire
  BY <1>1, <1>2, <1>3, LateKept
<1>4. CASE wire' # wire
  <2>1. PICK verdict \in {"ack", "nack"} : Answer(verdict)
    BY DEF Settle
  <2> DEFINE f == [kind |-> verdict, msg |-> current]
  <2>2. ~SourceClosed /\ Send(source, f)
    BY <1>4, <2>1 DEF Answer
  <2>3. source = Top /\ source \in Connections /\ current \in Messages
    BY <1>1, <2>2, ConnectionFacts DEF SourceClosed, Sessions, Numbered, TypeOK, Settle, Busy
  <2>4. f \in Frame /\ wire \in [Connections -> Seq(Frame)]
    BY <1>1, <2>3, FrameFacts DEF TypeOK, AmqpTypeOK
  <2>5. \A d \in Connections : \A i \in DOMAIN wire'[d] :
          \/ i \in DOMAIN wire[d] /\ wire'[d][i] = wire[d][i]
          \/ d = source /\ session[source] = "open" /\ i = Len(wire[source]) + 1 /\ wire'[d][i] = f
    BY <2>2, <2>3, <2>4, Sending
  <2>6. \A m \in Messages, e \in Endpoints : f # CopyFrame(m, e)
    <3>1. \A m \in Messages, e \in Endpoints : f.kind # CopyFrame(m, e).kind
      BY DEF CopyFrame
    <3> QED
      BY <3>1
  <2> HIDE DEF f
  <2>7. SUFFICES ASSUME NEW d \in Connections, NEW i \in DOMAIN wire'[d], NEW m \in Messages,
                        NEW e \in Endpoints, wire'[d][i] = CopyFrame(m, e)
                 PROVE  /\ d >= 2 \/ m \in unacked'[d]
                        /\ settled'[m] \in {"acked", "nacked"} => Top' > d
                        /\ \A c \in Connections : \A j \in DOMAIN wire'[c] :
                             Verdict(wire'[c][j], m) => c > d \/ (c = d /\ j > i)
    BY DEF LateCopies, CopyFrame, Verdict
  <2>8. i \in DOMAIN wire[d] /\ wire[d][i] = CopyFrame(m, e)
    BY <2>5, <2>6, <2>7
  <2>9. d <= Top /\ d \in Nat /\ i \in 1 .. Len(wire[d]) /\ Len(wire[d]) \in Nat
    BY <1>1, <2>4, <2>8, SessionsAreDialled, Connecting, OnWire
  <2>10. ASSUME NEW c \in Connections, NEW j \in DOMAIN wire'[c], Verdict(wire'[c][j], m)
         PROVE  c > d \/ (c = d /\ j > i)
    <3>1. CASE j \in DOMAIN wire[c] /\ wire'[c][j] = wire[c][j]
      BY <2>8, <2>10, <3>1 DEF LateCopies
    <3>2. CASE c = source /\ j = Len(wire[source]) + 1
      BY <1>1, <2>3, <2>9, <3>2
    <3> QED
      BY <2>5, <3>1, <3>2
  <2> QED
    BY <1>1, <1>2, <2>8, <2>10 DEF LateCopies
<1> QED
  BY <1>3, <1>4

\* A verdict that arrives came after the copies of its own connection.
LEMMA LateArrive ==
  ASSUME Inv, Counted, LateCopies, NEW k \in Connections, Arrive(k)
  PROVE  LateCopies'
<1> DEFINE f == Head(wire[k])
<1>1. /\ Top' = Top /\ Top \in Nat /\ TypeOK /\ Sessions /\ Numbered
  BY OthersCount DEF Inv, ResolverInvariant, Counted
<1>2. /\ wire[k] # <<>> /\ wire' = [wire EXCEPT ![k] = Tail(@)] /\ session[k] = "open"
  BY DEF Arrive
<1>3. /\ f = wire[k][1] /\ 1 \in DOMAIN wire[k] /\ f \in Frame
      /\ \A d \in Connections \ {k} : wire'[d] = wire[d]
      /\ \A i \in DOMAIN wire'[k] :
           i \in Nat \ {0} /\ i + 1 \in DOMAIN wire[k] /\ wire'[k][i] = wire[k][i + 1]
  BY <1>1, <1>2, Arriving DEF TypeOK, AmqpTypeOK
<1>4. SUFFICES ASSUME NEW d \in Connections, NEW i \in DOMAIN wire'[d], NEW m \in Messages,
                      NEW e \in Endpoints, wire'[d][i] = CopyFrame(m, e)
               PROVE  /\ d >= 2 \/ m \in unacked'[d]
                      /\ settled'[m] \in {"acked", "nacked"} => Top' > d
                      /\ \A c \in Connections : \A j \in DOMAIN wire'[c] :
                           Verdict(wire'[c][j], m) => c > d \/ (c = d /\ j > i)
  BY DEF LateCopies, CopyFrame, Verdict
<1> DEFINE at(c, j) == IF c = k THEN j + 1 ELSE j
<1>5. \A c \in Connections : \A j \in DOMAIN wire'[c] :
        at(c, j) \in DOMAIN wire[c] /\ wire'[c][j] = wire[c][at(c, j)]
  BY <1>3
<1>6. \A c \in Connections : \A j \in DOMAIN wire'[c] : j \in Nat \ {0}
  <2>1. ASSUME NEW c \in Connections, NEW j \in DOMAIN wire'[c] PROVE j \in Nat \ {0}
    <3>1. CASE c = k
      BY <1>3, <2>1, <3>1
    <3>2. CASE c # k
      <4>1. j \in DOMAIN wire[c]
        BY <1>3, <2>1, <3>2
      <4>2. wire \in [Connections -> Seq(Frame)]
        BY <1>1 DEF TypeOK, AmqpTypeOK
      <4> QED
        BY <4>1, <4>2, OnWire
    <3> QED
      BY <3>1, <3>2
  <2> QED
    BY <2>1
<1>7. wire[d][at(d, i)] = CopyFrame(m, e) /\ at(d, i) \in DOMAIN wire[d]
  BY <1>4, <1>5
<1> DEFINE p == at(d, i)
<1>8. /\ d >= 2 \/ m \in unacked[d]
      /\ settled[m] \in {"acked", "nacked"} => Top > d
      /\ \A c \in Connections : \A j \in DOMAIN wire[c] :
           Verdict(wire[c][j], m) => c > d \/ (c = d /\ j > p)
  BY <1>7 DEF LateCopies
<1>9. d \in Nat /\ k \in Nat /\ k <= Top /\ i \in Nat \ {0}
  BY <1>1, <1>2, <1>6, SessionsAreDialled, Connecting
<1>10. Verdict(f, m) => k > d
  <2>1. ASSUME Verdict(f, m) PROVE k > d
    <3>1. k > d \/ (k = d /\ 1 > p)
      BY <1>3, <1>8, <2>1
    <3>2. k = d => p = i + 1
      OBVIOUS
    <3> QED
      BY <1>9, <3>1, <3>2
  <2> QED
    BY <2>1
<1>11. \/ UNCHANGED <<unacked, settled>>
       \/ /\ f.kind \in {"ack", "nack"} /\ f.msg \in Messages
          /\ unacked' = [unacked EXCEPT ![k] = @ \ {f.msg}]
          /\ settled' \in {[settled EXCEPT ![f.msg] = "acked"], [settled EXCEPT ![f.msg] = "nacked"]}
  BY <1>3, FrameFacts DEF Arrive, Acked, Nacked
<1> HIDE DEF f
<1>12. CASE Verdict(f, m)
  <2>1. k > d
    BY <1>10, <1>12
  <2>2. unacked'[d] = unacked[d]
    BY <1>1, <1>9, <1>11, <2>1 DEF TypeOK
  <2> QED
    <3>1. d >= 2 \/ m \in unacked'[d]
      BY <1>8, <2>2
    <3>2. Top' > d
      BY <1>1, <1>9, <2>1
    <3>3. ASSUME NEW c \in Connections, NEW j \in DOMAIN wire'[c], Verdict(wire'[c][j], m)
          PROVE  c > d \/ (c = d /\ j > i)
      <4>1. c > d \/ (c = d /\ at(c, j) > p)
        BY <1>5, <1>8, <3>3
      <4>2. j \in Nat \ {0}
        BY <1>6, <3>3
      <4> QED
        BY <1>9, <4>1, <4>2
    <3> QED
      BY <3>1, <3>2, <3>3
<1>13. CASE ~Verdict(f, m)
  <2>1. settled'[m] = settled[m] /\ (m \in unacked[d] => m \in unacked'[d])
    <3>1. CASE UNCHANGED <<unacked, settled>>
      BY <3>1
    <3>2. CASE /\ f.kind \in {"ack", "nack"} /\ f.msg \in Messages
               /\ unacked' = [unacked EXCEPT ![k] = @ \ {f.msg}]
               /\ settled' \in {[settled EXCEPT ![f.msg] = "acked"],
                                [settled EXCEPT ![f.msg] = "nacked"]}
      <4>1. f.msg # m
        BY <1>13, <3>2 DEF Verdict
      <4> QED
        BY <1>1, <3>2, <4>1 DEF TypeOK
    <3> QED
      BY <1>11, <3>1, <3>2
  <2>2. ASSUME NEW c \in Connections, NEW j \in DOMAIN wire'[c], Verdict(wire'[c][j], m)
        PROVE  c > d \/ (c = d /\ j > i)
    <3>1. c > d \/ (c = d /\ at(c, j) > p)
      BY <1>5, <1>8, <2>2
    <3>2. j \in Nat \ {0}
      BY <1>6, <2>2
    <3> QED
      BY <1>9, <3>1, <3>2
  <2> QED
    BY <1>1, <1>8, <2>1, <2>2
<1> QED
  BY <1>12, <1>13

\* Every step keeps the copies of settled messages late.
LEMMA LateNext ==
  ASSUME Inv, Inv', Counted, LateCopies, Next
  PROVE  LateCopies'
<1> USE DEF workerVars, brokerVars, amqpVars, clientVars
<1>1. TypeOK /\ \A d \in Connections : unacked[d] \subseteq unacked[d]
  BY DEF Inv
<1>2. CASE Client
  <2>1. Top \in Nat /\ Top' \in Nat /\ Top' >= Top /\ wire' = wire
    BY <1>2, ClientCounts
  <2>2. UNCHANGED <<settled, unacked>>
    BY <1>2 DEF Client
  <2> QED
    BY <2>1, <2>2, LateKept
<1>3. CASE Forward
  BY <1>3, LateForward
<1>4. CASE Settle
  BY <1>4, LateSettle
<1>5. ASSUME NEW c \in Connections, Arrive(c) PROVE LateCopies'
  BY <1>5, LateArrive
<1>6. ASSUME Top' = Top, Top \in Nat, settled' = settled,
             \A d \in Connections :
               wire'[d] = <<>> \/ (wire'[d] = wire[d] /\ unacked[d] \subseteq unacked'[d])
      PROVE  LateCopies'
  <2>1. Top' \in Nat /\ Top' >= Top
    BY <1>6
  <2> QED
    BY <1>6, <2>1, LateKept
<1>7. CASE Listen \/ Take \/ DeliveriesClosed \/ Resolve \/ ResolveFails \/ Skip \/ Unsupported
  <2>1. Top' = Top /\ Top \in Nat
    BY <1>7, OthersCount DEF Worker
  <2>2. UNCHANGED <<settled, unacked, wire>>
    BY <1>7 DEF Listen, Take, DeliveriesClosed, Resolve, ResolveFails, Skip, Unsupported
  <2> QED
    BY <1>6, <2>1, <2>2
<1>8. CASE EgressStarts \/ Restart
  <2>1. Top' = Top /\ Top \in Nat
    BY <1>8, OthersCount
  <2>2. UNCHANGED <<settled, unacked, wire>>
    BY <1>8 DEF EgressStarts, Restart, RestartClient
  <2> QED
    BY <1>6, <2>1, <2>2
<1>9. ASSUME NEW c \in Connections, Deliver(c) PROVE LateCopies'
  <2>1. Top' = Top /\ Top \in Nat
    BY <1>9, OthersCount
  <2>2. UNCHANGED <<settled, wire>> /\ \A d \in Connections : unacked[d] \subseteq unacked'[d]
    BY <1>1, <1>9 DEF Deliver, TypeOK
  <2> QED
    BY <1>6, <2>1, <2>2
<1>10. ASSUME NEW c \in Connections, SessionEnds(c) PROVE LateCopies'
  <2>1. Top' = Top /\ Top \in Nat
    BY <1>10, OthersCount
  <2>2. /\ settled' = settled /\ wire' = [wire EXCEPT ![c] = <<>>]
        /\ unacked' = [unacked EXCEPT ![c] = {}]
    BY <1>10 DEF SessionEnds, EndSession
  <2>3. \A d \in Connections :
          wire'[d] = <<>> \/ (wire'[d] = wire[d] /\ unacked[d] \subseteq unacked'[d])
    BY <1>1, <2>2 DEF TypeOK, AmqpTypeOK
  <2> QED
    BY <1>6, <2>1, <2>2, <2>3
<1>11. CASE BrokerRestarts
  <2>1. \A d \in Connections : wire'[d] = <<>>
    BY <1>11 DEF BrokerRestarts
  <2>2. DOMAIN <<>> = {}
    OBVIOUS
  <2> QED
    BY <2>1, <2>2 DEF LateCopies
<1> QED
  BY <1>2, <1>3, <1>4, <1>5, <1>7, <1>8, <1>9, <1>10, <1>11 DEF Next, Worker

------------------------------------------------------------------------------
\* The numbers stay when nothing happens.
LEMMA CountsStutter ==
  ASSUME UNCHANGED vars
  PROVE  /\ Counted => Counted'
         /\ ToDoOnce => ToDoOnce'
         /\ CopiesHaveCauses => CopiesHaveCauses'
         /\ LateCopies => LateCopies'
<1>1. UNCHANGED <<queue, unacked, settled, bound, arrived, unrouted, consumers, pc, source, inbox,
                  current, todo, plan, crashes, dialer, conn, up, channel, session, wire, losses>>
  BY DEF vars, amqpVars, brokerVars, workerVars
<1>2. Top' = Top
  BY <1>1 DEF Top, Dialled
<1>3. Counted => Counted'
  <2>1. Numbered' <=> Numbered
    BY <1>1, <1>2 DEF Numbered, Dialled
  <2>2. Spare' = Spare
    BY <1>1, <1>2 DEF Spare, Alive
  <2> QED
    BY <1>1, <2>1, <2>2 DEF Counted, Held
<1>4. ToDoOnce => ToDoOnce'
  BY <1>1 DEF ToDoOnce, Once
<1>5. CopiesHaveCauses => CopiesHaveCauses'
  <2>1. \A m, e : OnTheWay(m, e)' = OnTheWay(m, e)
    BY <1>1 DEF OnTheWay, CopyFrame
  <2>2. \A m, e : Tries(m, e)' = Tries(m, e)
    BY <1>1, <2>1 DEF Tries, ToDo
  <2>3. \A m : Hopes(m)' = Hopes(m)
    BY <1>1, <1>2 DEF Hopes, Holds, Fresh
  <2> QED
    BY <1>2, <2>1, <2>2, <2>3 DEF CopiesHaveCauses
<1>6. LateCopies => LateCopies'
  BY <1>1, <1>2 DEF LateCopies, CopyFrame, Verdict
<1> QED
  BY <1>3, <1>4, <1>5, <1>6

\* When no answer lists an endpoint twice, a receiver gets a copy again only after a
\* connection broke or the resolver was restarted, once for each time.
THEOREM CopiesAreBoundedHolds ==
  ASSUME AnswersListOnce
  PROVE  Spec => []CopiesAreBounded
<1> DEFINE More == Counted /\ ToDoOnce /\ CopiesHaveCauses
<1>1. Init => More
  BY CountsInit
<1>2. Inv /\ Inv' /\ More /\ [Next]_vars => More'
  BY CausesNext, ToDoNext, CountsStutter
<1>3. Inv /\ More => CopiesAreBounded
  <2>1. SUFFICES ASSUME Inv, More, NEW c \in Copy PROVE arrived[c] <= 1 + losses + crashes
    BY DEF CopiesAreBounded
  <2>2. PICK m \in Messages, e \in Endpoints : c = [msg |-> m, endpoint |-> e]
    BY DEF Copy
  <2>3. TypeOK /\ Numbered /\ Spare + crashes >= 0 /\ IsFiniteSet(OnTheWay(m, e))
        /\ Tries(m, e) + Hopes(m) <= Top
    BY <2>1 DEF Inv, Counted, CopiesHaveCauses
  <2>4. /\ arrived[c] \in Nat /\ losses \in Nat /\ crashes \in Nat /\ Top \in Nat
    BY <2>3, TopFacts, AmqpAssumption DEF TypeOK, AmqpTypeOK
  <2>5. Cardinality(OnTheWay(m, e)) \in Nat /\ ToDo(m, e) \in Nat /\ Hopes(m) \in Nat
    <3>1. Holds(m) \in Nat
      <4>1. /\ (IF m \in inbox THEN 1 ELSE 0) \in Nat
            /\ (IF current = m /\ pc = "resolving" THEN 1 ELSE 0) \in Nat
        OBVIOUS
      <4> QED
        BY <4>1 DEF Holds
    <3> QED
      BY <2>3, <3>1, FS_CardinalityType DEF ToDo, Hopes
  <2>6. Tries(m, e) = arrived[c] + Cardinality(OnTheWay(m, e)) + ToDo(m, e)
    BY <2>2 DEF Tries
  <2>7. arrived[c] <= Top
    BY <2>3, <2>4, <2>5, <2>6
  <2>8. Top <= 1 + losses + crashes
    BY <2>3, <2>4 DEF Spare
  <2> QED
    BY <2>4, <2>7, <2>8
<1> HIDE DEF More
<1> QED
  BY <1>1, <1>2, <1>3, InvHolds, PTL DEF Spec

\* Only a frame that arrives counts a copy; a settled message's is from the second
\* connection or a later one, and its verdict came on one after that.
LEMMA LateStep ==
  ASSUME Inv, Counted, LateCopies, Next, NEW copy \in Copy, arrived'[copy] > arrived[copy],
         settled[copy.msg] \in {"acked", "nacked"}
  PROVE  losses + crashes >= 2
<1>1. TypeOK /\ OnePlace /\ Numbered /\ Spare + crashes >= 0 /\ Top \in Nat
  BY TopFacts DEF Inv, Counted
<1>2. PICK m \in Messages, e \in Endpoints : copy = [msg |-> m, endpoint |-> e]
  BY DEF Copy
<1>3. arrived' # arrived
  <2>1. arrived[copy] \in Nat
    BY <1>1 DEF TypeOK
  <2> QED
    BY <2>1
<1>4. PICK k \in Connections : Arrive(k)
  BY <1>3 DEF Next, Client, Worker, Listen, Take, DeliveriesClosed, Resolve, ResolveFails, Skip,
     Forward, Unsupported, Settle, Deliver, SessionEnds, BrokerRestarts, EgressStarts, Restart,
     brokerVars
<1>5. /\ Head(wire[k]) = wire[k][1] /\ 1 \in DOMAIN wire[k] /\ Head(wire[k]) \in Frame
  BY <1>1, <1>4, ArriveFacts DEF Arrive
<1>6. Head(wire[k]).kind = "publish" /\ Route(Head(wire[k]).copy)
  BY <1>3, <1>4 DEF Arrive
<1>7. Head(wire[k]) = [kind |-> "publish", copy |-> copy]
  <2>1. Head(wire[k]).copy \in Copy
        /\ Head(wire[k]) = [kind |-> "publish", copy |-> Head(wire[k]).copy]
    BY <1>5, <1>6 DEF Frame
  <2>2. CASE Head(wire[k]).copy # copy
    <3>1. arrived'[copy] = arrived[copy] /\ arrived[copy] \in Nat
      BY <1>1, <1>6, <2>1, <2>2 DEF Route, TypeOK
    <3> QED
      BY <3>1
  <2> QED
    BY <2>1, <2>2
<1>8. wire[k][1] = CopyFrame(m, e)
  BY <1>2, <1>5, <1>7 DEF CopyFrame
<1>9. settled[m] \in {"acked", "nacked"}
  BY <1>2
<1>10. (k >= 2 \/ m \in unacked[k]) /\ Top > k
  BY <1>5, <1>8, <1>9 DEF LateCopies
<1>11. m \notin unacked[k]
  BY <1>1, <1>9 DEF OnePlace
<1>12. Top >= 3
  BY <1>1, <1>10, <1>11, Connecting
<1>13. losses \in Nat /\ crashes \in Nat
  BY <1>1, AmqpAssumption DEF TypeOK, AmqpTypeOK
<1> QED
  BY <1>1, <1>12, <1>13 DEF Spare

\* A copy of a message that is settled already reaches the egress only when two
\* connections were lost or left behind, whatever the registry answers.
THEOREM LateCopiesHold == Spec => LateCopiesNeedTwoLosses
<1> DEFINE More == Counted /\ LateCopies
           Step == \A c \in Copy : arrived'[c] > arrived[c] /\ settled[c.msg] \in {"acked", "nacked"} =>
                     losses + crashes >= 2
<1>1. Init => More
  BY CountsInit
<1>2. Inv /\ Inv' /\ More /\ [Next]_vars => More'
  <2>1. ASSUME Inv, Inv', More, Next PROVE More'
    BY <2>1, ClientCounts, OthersCount, LateNext DEF Next
  <2> QED
    BY <2>1, CountsStutter
<1>3. Inv /\ More /\ [Next]_vars => [Step]_vars
  BY LateStep
<1> HIDE DEF More
<1>4. Spec => [][Step]_vars
  BY <1>1, <1>2, <1>3, InvHolds, PTL DEF Spec
<1> QED
  BY <1>4 DEF LateCopiesNeedTwoLosses

(***************************************************************************)
(* What is not settled is attended to: this is what the settling of every  *)
(* message rests on besides fairness.                                      *)
(***************************************************************************)
\* A consumer of the connection the client has is one that the goroutine
\* ranges over, and a client that is connected has a channel, or is about to
\* open one.
Attentive ==
  /\ \A c \in Connections : unacked[c] # {} => c \in consumers
  /\ \A c \in consumers : session[c] # "none"
  /\ up => (conn \in consumers <=> source = conn)
  /\ pc = "listening" => SourceClosed
  /\ up => dialer # "dialing" /\ (dialer = "dialed" \/ channel = conn)

\* A verdict on m is on its way to the broker.
Answered(m) == \E i \in DOMAIN wire[conn] : Verdict(wire[conn][i], m)

\* What was delivered on the connection the client has is in its hands.
NoDeliveryForgotten == up => \A m \in unacked[conn] : m \in Held \/ Answered(m)

\* A message that is not settled waits in the queue; or is with a connection
\* that the client has no longer, which the broker will end; or the goroutine
\* has it, or has answered for it.
UnsettledIsAttended ==
  \A m \in Messages : settled[m] = "no" =>
    \/ m \in queue
    \/ \E c \in Connections : m \in unacked[c] /\ ~(up /\ c = conn)
    \/ up /\ source = conn /\ m \in unacked[conn] /\ (m \in Held \/ Answered(m))

LEMMA AttentiveInit == Init => Attentive /\ NoDeliveryForgotten
BY DEF Init, AmqpInit, Attentive, NoDeliveryForgotten, SourceClosed

\* A connection that the goroutine does not range over has nothing to settle.
LEMMA OthersHaveNothing ==
  ASSUME Inv, Attentive, up, source # conn
  PROVE  unacked[conn] = {}
<1>1. conn \in Connections
  BY DEF Inv, TypeOK, AmqpTypeOK, ResolverInvariant, Sessions
<1> QED
  BY <1>1 DEF Attentive

LEMMA AttentiveClient == ASSUME Inv, Attentive, Client PROVE Attentive'
<1>1. UNCHANGED <<unacked, consumers, source, pc>>
  BY DEF Client, brokerVars, workerVars
<1>2. CASE Dial
  <2>1. PICK c \in Connections : /\ session[c] = "none" /\ conn' = c
                                 /\ session' = [session EXCEPT ![c] = "open"]
    BY <1>2 DEF Dial
  <2>2. session \in [Connections -> {"none", "open", "ended"}] /\ source # c /\ c \notin consumers
    BY <2>1, ConnectionFacts DEF Inv, TypeOK, AmqpTypeOK, ResolverInvariant, Sessions, Attentive
  <2>3. dialer' = "dialed"
    BY <1>2 DEF Dial
  <2>4. \A d \in Connections : session[d] # "none" => session'[d] # "none"
    BY <2>1, <2>2
  <2>5. \A d \in consumers : session'[d] # "none"
    BY <2>4 DEF Attentive, Inv, TypeOK
  <2> QED
    BY <1>1, <2>1, <2>2, <2>3, <2>5 DEF Attentive, SourceClosed
<1>3. CASE OpenChannel \/ Watch \/ Reconnect \/ ClientLoses
  <2>1. (up' => up) /\ UNCHANGED <<conn, session>>
    BY <1>3 DEF OpenChannel, Watch, Reconnect, ClientLoses
  <2>2. up' => dialer' # "dialing" /\ (dialer' = "dialed" \/ channel' = conn')
    BY <1>3 DEF OpenChannel, Watch, Reconnect, ClientLoses, Attentive
  <2> QED
    BY <1>1, <2>1, <2>2 DEF Attentive, SourceClosed
<1> QED
  BY <1>2, <1>3 DEF Client, ClientNext

LEMMA AttentiveOthers ==
  ASSUME Inv, Attentive,
         \/ Worker \/ BrokerRestarts \/ EgressStarts \/ Restart
         \/ \E c \in Connections : Deliver(c) \/ Arrive(c) \/ SessionEnds(c)
  PROVE  Attentive'
<1> USE DEF amqpVars, clientVars, brokerVars, workerVars
<1>1. conn \in Connections \cup {0} /\ unacked \in [Connections -> SUBSET Messages]
      /\ session \in [Connections -> {"none", "open", "ended"}] /\ consumers \subseteq Connections
  BY DEF Inv, TypeOK, AmqpTypeOK
<1>2. ASSUME UNCHANGED <<conn, up, dialer, channel, session, consumers, source>>,
             \A c \in Connections : unacked'[c] # {} => unacked[c] # {} \/ c \in consumers,
             pc' = "listening" => pc = "listening" \/ SourceClosed
      PROVE  Attentive'
  BY <1>2 DEF Attentive, SourceClosed
<1>3. CASE Listen
  BY <1>1, <1>3 DEF Listen, Usable, Attentive, Inv, ResolverInvariant, Sessions
<1>4. CASE Worker /\ ~Listen
  <2>1. UNCHANGED <<conn, up, dialer, channel, session, consumers, source, unacked>>
    BY <1>4 DEF Worker, Take, DeliveriesClosed, Resolve, ResolveFails, Skip, Forward, Unsupported,
       Settle
  <2>2. pc' = "listening" => SourceClosed
    BY <1>4 DEF Worker, Take, DeliveriesClosed, Resolve, ResolveFails, Skip, Forward, Unsupported,
       Settle
  <2> QED
    BY <1>2, <2>1, <2>2
<1>5. CASE EgressStarts
  BY <1>2, <1>5 DEF EgressStarts
<1>6. ASSUME NEW c \in Connections, Deliver(c) PROVE Attentive'
  BY <1>1, <1>2, <1>6 DEF Deliver
<1>7. ASSUME NEW c \in Connections, Arrive(c) PROVE Attentive'
  <2>1. \A d \in Connections : unacked'[d] \subseteq unacked[d]
    BY <1>1, <1>7 DEF Arrive, Acked, Nacked
  <2> QED
    BY <1>2, <1>7, <2>1 DEF Arrive
<1>8. ASSUME NEW c \in Connections, SessionEnds(c) PROVE Attentive'
  <2>1. UNCHANGED <<conn, up, dialer, channel, consumers, source, pc>>
    BY <1>8 DEF SessionEnds, EndSession
  <2>2. /\ \A d \in Connections : unacked'[d] \subseteq unacked[d]
        /\ \A d \in Connections : session[d] # "none" => session'[d] # "none"
    BY <1>1, <1>8 DEF SessionEnds, EndSession
  <2> QED
    BY <1>1, <2>1, <2>2 DEF Attentive, SourceClosed
<1>9. CASE BrokerRestarts
  <2>1. UNCHANGED <<conn, up, dialer, channel, consumers, source, pc>>
    BY <1>9 DEF BrokerRestarts
  <2>2. \A d \in Connections : unacked'[d] = {} /\ (session[d] # "none" => session'[d] # "none")
    BY <1>1, <1>9 DEF BrokerRestarts
  <2> QED
    BY <1>1, <2>1, <2>2 DEF Attentive, SourceClosed
<1>10. CASE Restart
  BY <1>10 DEF Restart, RestartClient, Attentive, SourceClosed
<1> QED
  BY <1>3, <1>4, <1>5, <1>6, <1>7, <1>8, <1>9, <1>10 DEF Worker

\* Who still has its connection, and what was delivered on it.
LEMMA HeldStays ==
  ASSUME NoDeliveryForgotten, up' => up, conn' = conn,
         up => unacked'[conn] \subseteq unacked[conn],
         up => Held \subseteq Held' \/ unacked[conn] = {},
         up => \A m : Answered(m) => Answered(m)'
  PROVE  NoDeliveryForgotten'
BY DEF NoDeliveryForgotten

\* What is written goes behind the answers on the wire.
LEMMA WrittenKeepsAnswers ==
  ASSUME TypeOK, conn \in Connections, UNCHANGED conn, NEW f \in Frame, Send(conn, f)
  PROVE  \A m : Answered(m) => Answered(m)'
<1>1. wire \in [Connections -> Seq(Frame)] /\ wire' \in [Connections -> Seq(Frame)]
  BY SendFacts DEF TypeOK, AmqpTypeOK
<1>2. \A i \in DOMAIN wire[conn] : i \in DOMAIN wire'[conn] /\ wire'[conn][i] = wire[conn][i]
  <2>1. CASE session[conn] = "open"
    <3>1. /\ DOMAIN wire[conn] = 1 .. Len(wire[conn]) /\ Len(wire[conn]) \in Nat
          /\ DOMAIN wire'[conn] = 1 .. Len(wire'[conn])
      BY <1>1
    <3>2. /\ Len(wire'[conn]) = Len(wire[conn]) + 1
          /\ \A i \in 1 .. Len(wire[conn]) : wire'[conn][i] = wire[conn][i]
      BY <2>1, SendFacts
    <3> QED
      BY <3>1, <3>2
  <2>2. CASE session[conn] # "open"
    BY <2>2, SendFacts
  <2> QED
    BY <2>1, <2>2
<1> QED
  BY <1>2 DEF Answered

\* What Forward writes is a frame.
LEMMA ForwardFrame ==
  ASSUME TypeOK, Busy, Forward
  PROVE  \E f \in Frame : Send(conn, f)
<1>1. current \in Messages
  BY DEF TypeOK, Busy, Forward
<1>2. Head(todo) \in Endpoints
  <2>1. todo \in Seq(Endpoints \cup {"incomplete"}) /\ todo # <<>> /\ Head(todo) # "incomplete"
    BY DEF TypeOK, Forward
  <2>2. Head(todo) \in Endpoints \cup {"incomplete"}
    BY <2>1, HeadTailProperties
  <2> QED
    BY <2>1, <2>2
<1> QED
  BY <1>1, <1>2, FrameFacts DEF Forward

LEMMA ForgottenWorker ==
  ASSUME Inv, Attentive, NoDeliveryForgotten, Worker
  PROVE  NoDeliveryForgotten'
<1> USE DEF amqpVars, clientVars, brokerVars, workerVars
<1>1. TypeOK /\ UNCHANGED <<conn, up, session, unacked>>
  BY DEF Inv, Worker, Listen, Take, DeliveriesClosed, Resolve, ResolveFails, Skip, Forward,
     Unsupported, Settle
<1>2. up => conn \in Connections
  BY DEF Inv, TypeOK, AmqpTypeOK, ResolverInvariant, Sessions
<1>3. ASSUME UNCHANGED wire, up => Held \subseteq Held' \/ unacked[conn] = {}
      PROVE  NoDeliveryForgotten'
  BY <1>1, <1>3, HeldStays DEF Answered
<1>4. CASE Listen \/ DeliveriesClosed
  <2>1. SourceClosed /\ UNCHANGED wire
    BY <1>4 DEF Listen, DeliveriesClosed, Attentive
  <2>2. up => unacked[conn] = {}
    BY <2>1, OthersHaveNothing DEF SourceClosed
  <2> QED
    BY <1>3, <2>1, <2>2
<1>5. CASE Take \/ Resolve \/ ResolveFails \/ Skip \/ Unsupported
  <2>1. Held \subseteq Held' /\ UNCHANGED wire
    BY <1>5 DEF Take, Resolve, ResolveFails, Skip, Unsupported, Held, Inv, ResolverInvariant, Busy
  <2> QED
    BY <1>3, <2>1
<1>6. CASE Forward
  <2>1. Held' = Held /\ conn \in Connections
    BY <1>2, <1>6 DEF Forward, Usable, Held
  <2>2. PICK f \in Frame : Send(conn, f)
    BY <1>1, <1>6, ForwardFrame DEF Inv, ResolverInvariant
  <2>3. \A m : Answered(m) => Answered(m)'
    BY <1>1, <2>1, <2>2, WrittenKeepsAnswers
  <2> QED
    BY <1>1, <2>1, <2>3, HeldStays
<1>7. CASE Settle
  <2>1. CASE SourceClosed
    <3>1. up => unacked[conn] = {}
      BY <2>1, OthersHaveNothing DEF SourceClosed
    <3>2. UNCHANGED wire
      BY <1>7, <2>1 DEF Settle, Answer
    <3> QED
      BY <1>3, <3>1, <3>2
  <2>2. CASE ~SourceClosed
    <3>1. up /\ source = conn /\ conn \in Connections
      BY <1>2, <2>2 DEF SourceClosed
    <3>2. current \in Messages /\ inbox' = inbox /\ current' = "none"
      BY <1>1, <1>7 DEF Settle, Inv, ResolverInvariant, Busy, TypeOK
    <3>0. PICK m0 \in Messages : m0 = current
      BY <3>2
    <3>3. PICK verdict \in {"ack", "nack"} : Send(conn, [kind |-> verdict, msg |-> current])
      BY <1>7, <2>2, <3>1 DEF Settle, Answer
    <3> DEFINE f == [kind |-> verdict, msg |-> current]
    <3>4. f \in Frame /\ Verdict(f, current)
      BY <3>2, FrameFacts DEF Verdict
    <3>5. Send(conn, f)
      BY <3>3
    <3> HIDE DEF f
    <3>6. \A m : Answered(m) => Answered(m)'
      BY <1>1, <3>1, <3>4, <3>5, WrittenKeepsAnswers
    <3>7. session[conn] = "open" => Answered(m0)'
      <4>1. Verdict(f, m0)
        BY <3>0, <3>4
      <4>2. ASSUME session[conn] = "open"
            PROVE  Len(wire[conn]) + 1 \in DOMAIN wire'[conn] /\ wire'[conn][Len(wire[conn]) + 1] = f
        BY <1>1, <3>1, <3>4, <3>5, <4>2, SendFacts DEF TypeOK, AmqpTypeOK
      <4> QED
        BY <1>1, <4>1, <4>2 DEF Answered
    <3>8. unacked[conn] # {} => session[conn] = "open"
      BY <3>1 DEF Inv, ResolverInvariant, Sessions
    <3>9. \A m \in Held : m \in Held' \/ m = m0
      BY <3>0, <3>2 DEF Held
    <3> QED
      BY <1>1, <3>1, <3>6, <3>7, <3>8, <3>9 DEF NoDeliveryForgotten
  <2> QED
    BY <2>1, <2>2
<1> QED
  BY <1>4, <1>5, <1>6, <1>7 DEF Worker

\* A frame that the broker takes is the answer for one message at most.
LEMMA ForgottenArrive ==
  ASSUME Inv, NoDeliveryForgotten, NEW c \in Connections, Arrive(c)
  PROVE  NoDeliveryForgotten'
<1>1. TypeOK /\ Held' = Held /\ UNCHANGED <<conn, up>> /\ wire[c] # <<>>
      /\ wire' = [wire EXCEPT ![c] = Tail(@)]
  BY DEF Inv, Arrive, Held, workerVars, clientVars
<1>2. wire \in [Connections -> Seq(Frame)] /\ unacked \in [Connections -> SUBSET Messages]
  BY <1>1 DEF TypeOK, AmqpTypeOK
<1>3. up => conn \in Connections
  BY DEF Inv, TypeOK, AmqpTypeOK, ResolverInvariant, Sessions
<1>4. CASE c # conn
  <2>1. up => wire'[conn] = wire[conn]
    BY <1>1, <1>2, <1>3, <1>4
  <2>2. up => unacked'[conn] = unacked[conn]
    BY <1>2, <1>3, <1>4 DEF Arrive, Acked, Nacked
  <2>3. up => \A m : Answered(m) => Answered(m)'
    BY <1>1, <2>1 DEF Answered
  <2> QED
    BY <1>1, <2>2, <2>3, HeldStays
<1>5. CASE c = conn
  <2>1. /\ Head(wire[conn]) = wire[conn][1] /\ 1 \in DOMAIN wire[conn]
        /\ \A i \in DOMAIN wire'[conn] :
             i \in Nat \ {0} /\ i + 1 \in DOMAIN wire[conn] /\ wire'[conn][i] = wire[conn][i + 1]
    BY <1>1, <1>2, <1>5, Arriving
  <2>2. \A i \in DOMAIN wire[conn] \ {1} : i - 1 \in DOMAIN wire'[conn] /\ wire'[conn][i - 1] = wire[conn][i]
    <3>1. /\ DOMAIN wire[conn] = 1 .. Len(wire[conn]) /\ Len(wire[conn]) \in Nat
          /\ DOMAIN wire'[conn] = 1 .. Len(wire'[conn])
      BY <1>2, <1>5, <1>1, ArriveFacts
    <3>2. Len(wire'[conn]) = Len(wire[conn]) - 1
      BY <1>1, <1>5, ArriveFacts
    <3>3. \A i \in DOMAIN wire[conn] \ {1} : i - 1 \in DOMAIN wire'[conn] /\ (i - 1) + 1 = i
      BY <3>1, <3>2
    <3> QED
      BY <2>1, <3>3
  <2> SUFFICES ASSUME up, NEW m \in unacked'[conn] PROVE m \in Held \/ Answered(m)'
    BY <1>1 DEF NoDeliveryForgotten
  <2>3. m \in unacked[conn]
    BY <1>2, <1>3, <1>5 DEF Arrive, Acked, Nacked
  <2>4. ~Verdict(wire[conn][1], m)
    BY <1>2, <1>5, <2>1 DEF Arrive, Acked, Nacked, Verdict
  <2>5. Answered(m) => Answered(m)'
    BY <1>1, <2>2, <2>4 DEF Answered
  <2> QED
    BY <1>1, <2>3, <2>5 DEF NoDeliveryForgotten
<1> QED
  BY <1>4, <1>5

LEMMA ForgottenOthers ==
  ASSUME Inv, Attentive, NoDeliveryForgotten,
         \/ Client \/ BrokerRestarts \/ EgressStarts \/ Restart
         \/ \E c \in Connections : Deliver(c) \/ SessionEnds(c)
  PROVE  NoDeliveryForgotten'
<1> USE DEF amqpVars, clientVars, brokerVars, workerVars
<1>1. unacked \in [Connections -> SUBSET Messages]
  BY DEF Inv, TypeOK
<1>2. up => conn \in Connections
  BY DEF Inv, TypeOK, AmqpTypeOK, ResolverInvariant, Sessions
<1>3. CASE Client
  <2>1. Held' = Held /\ UNCHANGED <<unacked, wire>>
    BY <1>3 DEF Client, ClientNext, Dial, OpenChannel, Watch, Reconnect, ClientLoses, Held
  <2>2. CASE Dial
    <3>1. PICK c \in Connections : session[c] = "none" /\ conn' = c
      BY <2>2 DEF Dial
    <3>2. unacked[c] = {}
      BY <3>1 DEF Inv, ResolverInvariant, Sessions
    <3> QED
      BY <2>1, <3>1, <3>2 DEF NoDeliveryForgotten
  <2>3. CASE ~Dial
    <3>1. (up' => up) /\ conn' = conn
      BY <1>3, <2>3 DEF Client, ClientNext, OpenChannel, Watch, Reconnect, ClientLoses
    <3> QED
      BY <2>1, <3>1, HeldStays DEF Answered
  <2> QED
    BY <2>2, <2>3
<1>4. CASE EgressStarts
  BY <1>4, HeldStays DEF EgressStarts, Held, Answered
<1>5. CASE Restart
  BY <1>5 DEF Restart, RestartClient, NoDeliveryForgotten
<1>6. CASE BrokerRestarts
  <2>1. /\ \A c \in Connections : unacked'[c] = {}
        /\ UNCHANGED <<conn, up>>
    BY <1>6 DEF BrokerRestarts
  <2> QED
    BY <1>2, <2>1 DEF NoDeliveryForgotten
<1>7. ASSUME NEW c \in Connections, Deliver(c) PROVE NoDeliveryForgotten'
  <2>1. /\ UNCHANGED <<conn, up, wire, source, current>>
        /\ inbox \subseteq inbox'
    BY <1>7 DEF Deliver, SourceClosed
  <2>2. (\A m : Answered(m) <=> Answered(m)') /\ Held \subseteq Held'
    BY <2>1 DEF Answered, Held
  <2>3. CASE c = conn /\ up
    <3>1. ~SourceClosed /\ c = source
      BY <1>7, <2>3 DEF Deliver, Attentive, SourceClosed
    <3>2. unacked'[conn] \subseteq unacked[conn] \cup inbox'
      BY <1>1, <1>7, <2>3, <3>1 DEF Deliver
    <3> QED
      BY <2>1, <2>2, <3>2 DEF NoDeliveryForgotten, Held
  <2>4. CASE ~(c = conn /\ up)
    <3>1. up => unacked'[conn] = unacked[conn]
      BY <1>1, <1>2, <1>7, <2>4 DEF Deliver
    <3> QED
      BY <2>1, <2>2, <3>1, HeldStays
  <2> QED
    BY <2>3, <2>4
<1>8. ASSUME NEW c \in Connections, SessionEnds(c) PROVE NoDeliveryForgotten'
  <2>1. Held' = Held /\ UNCHANGED <<conn, up>>
    BY <1>8 DEF SessionEnds, EndSession, Held
  <2>2. CASE c = conn
    <3>1. unacked'[conn] = {}
      BY <1>1, <1>8, <2>2 DEF SessionEnds
    <3> QED
      BY <2>1, <3>1 DEF NoDeliveryForgotten
  <2>3. CASE c # conn
    <3>1. wire \in [Connections -> Seq(Frame)]
      BY DEF Inv, TypeOK, AmqpTypeOK
    <3>2. up => unacked'[conn] = unacked[conn] /\ wire'[conn] = wire[conn]
      BY <1>1, <1>2, <1>8, <2>3, <3>1 DEF SessionEnds, EndSession
    <3> QED
      BY <2>1, <3>2, HeldStays DEF Answered
  <2> QED
    BY <2>2, <2>3
<1> QED
  BY <1>3, <1>4, <1>5, <1>6, <1>7, <1>8

LEMMA AttentionStutter ==
  ASSUME UNCHANGED vars, Attentive, NoDeliveryForgotten
  PROVE  Attentive' /\ NoDeliveryForgotten'
<1>1. UNCHANGED <<unacked, consumers, pc, source, inbox, current, dialer, conn, up, channel, session, wire>>
  BY DEF vars, amqpVars, brokerVars, workerVars
<1> QED
  BY <1>1 DEF Attentive, NoDeliveryForgotten, SourceClosed, Held, Answered

LEMMA AttentionHolds == Spec => [](Inv /\ Attentive /\ NoDeliveryForgotten)
<1> DEFINE More == Attentive /\ NoDeliveryForgotten
<1>1. Init => More
  BY AttentiveInit
<1>2. Inv /\ More /\ [Next]_vars => More'
  <2>1. ASSUME Inv, More, Next PROVE More'
    BY <2>1, AttentiveClient, AttentiveOthers, ForgottenWorker, ForgottenArrive, ForgottenOthers DEF Next
  <2> QED
    BY <2>1, AttentionStutter
<1>3. Inv /\ More => Inv /\ Attentive /\ NoDeliveryForgotten
  OBVIOUS
<1> HIDE DEF More
<1> QED
  BY <1>1, <1>2, <1>3, InvHolds, PTL DEF Spec

\* The goroutine ranges over the deliveries of the connection the client has
\* exactly if that has a consumer, and else it will listen; a client that is
\* connected has a channel or is about to open one.
THEOREM AttentiveHolds == Spec => []Attentive
BY AttentionHolds, PTL

\* However connections end and on whichever side this is noticed first: no
\* message is with the client that the goroutine has forgotten, so that it
\* would stay unsettled for as long as the connection lives.
THEOREM UnsettledIsAttendedHolds == Spec => []UnsettledIsAttended
<1>1. Inv /\ Attentive /\ NoDeliveryForgotten => UnsettledIsAttended
  <2> SUFFICES ASSUME Inv, Attentive, NoDeliveryForgotten,
                      NEW m \in Messages, settled[m] = "no", m \notin queue
               PROVE  \/ \E c \in Connections : m \in unacked[c] /\ ~(up /\ c = conn)
                      \/ up /\ source = conn /\ m \in unacked[conn] /\ (m \in Held \/ Answered(m))
    BY DEF UnsettledIsAttended
  <2>1. PICK c \in Connections : m \in unacked[c]
    BY DEF Inv, OnePlace
  <2>2. CASE up /\ c = conn
    BY <2>1, <2>2, OthersHaveNothing DEF NoDeliveryForgotten
  <2> QED
    BY <2>1, <2>2
<1> QED
  BY <1>1, AttentionHolds, PTL
=============================================================================
