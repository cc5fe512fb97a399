---------------------------- MODULE GrpcHopProofs ----------------------------
(***************************************************************************)
(* What holds of module GrpcHop for any number of messages, of other       *)
(* callers, of certificates and of faults.                                 *)
(***************************************************************************)
EXTENDS GrpcHop, AmqpGoProofs, FiniteSetTheorems

(***************************************************************************)
(* The inductive invariant.                                                *)
(***************************************************************************)
Held == inbox \cup ({current} \ {"none"})

\* The goroutine's place in the loop, the message it has, the client it calls
\* with and the calls it has left go together.
Busy ==
  /\ current = "none" <=> pc \in {"listening", "ranging"}
  /\ current \notin inbox
  /\ pc \in {"calling", "waiting"} => pool # NoClient /\ attempts <= MaxAttempts

\* Deliveries come from a connection dialled; only open sessions hold anything.
Sessions ==
  /\ source # 0 => session[source] # "none"
  /\ \A c \in Connections :
       session[c] # "open" => wire[c] = <<>> /\ unacked[c] = {}

\* A message waits, or is with one connection, or is settled.
OnePlace ==
  \A m \in Messages :
    /\ settled[m] = "no" <=> m \in queue \/ \E c \in Connections : m \in unacked[c]
    /\ m \in queue => \A c \in Connections : m \notin unacked[c]
    /\ \A c, d \in Connections : m \in unacked[c] \cap unacked[d] => c = d

\* What the goroutine holds from a live connection is not settled yet.
HeldIsUnacked ==
  ~SourceClosed /\ session[source] = "open" => Held \subseteq unacked[source]

\* A verdict on its way is the only one, and the goroutine has let go.
VerdictsAreFinal ==
  \A c \in Connections : \A i \in DOMAIN wire[c] :
    /\ wire[c][i].msg \in unacked[c] \ Held
    /\ \A j \in DOMAIN wire[c] : wire[c][j].msg = wire[c][i].msg => j = i

\* The live call is the egress', waits for an answer, and no message of the egress
\* is behind it.
LastCall ==
  /\ \A i \in DOMAIN iQueue : iQueue[i].live =>
       /\ rpc = "open" /\ iQueue[i].msg = current
       /\ \A j \in DOMAIN iQueue : j > i => iQueue[j].msg \notin Messages
  /\ handling.live =>
       /\ rpc = "open" /\ handling.msg = current
       /\ \A j \in DOMAIN iQueue : iQueue[j].msg \notin Messages
  /\ rpc = "open" => handling.live \/ \E i \in DOMAIN iQueue : iQueue[i].live
  /\ rpc = "answered" =>
       /\ handling.msg \notin Messages
       /\ \A j \in DOMAIN iQueue : iQueue[j].msg \notin Messages

\* A call of others that the ingress has is its only one and has no status yet.
OthersWait ==
  /\ handling.msg \in Calls =>
       /\ status[handling.msg] = "waiting"
       /\ \A i \in DOMAIN iQueue : iQueue[i].msg # handling.msg
  /\ \A i \in DOMAIN iQueue : iQueue[i].msg \in Calls =>
       /\ status[iQueue[i].msg] = "waiting"
       /\ \A j \in DOMAIN iQueue : iQueue[j].msg = iQueue[i].msg => j = i

\* What is acknowledged, now or soon, is published.
SentIsPublished ==
  /\ \A m \in Messages : settled[m] = "acked" => published[m] > 0
  /\ \A c \in Connections : \A i \in DOMAIN wire[c] :
       wire[c][i].kind = "ack" => published[wire[c][i].msg] > 0
  /\ pc = "sent" \/ rpc = "answered" => published[current] > 0

\* How often m has been handed to the ingress and is published or may be.
Row(m) == {i \in DOMAIN iQueue : iQueue[i].msg = m}
Pending(m) == Cardinality(Row(m)) + (IF handling.msg = m THEN 1 ELSE 0)
Tries(m) == published[m] + Pending(m)

\* How often the egress may still hand it over: it has the message, or the last
\* connection dialled may still deliver it.
Fresh(m) == Top # 0 /\ session[Top] = "open" /\ settled[m] = "no" /\ m \notin unacked[Top]
Underway(m) == (IF m \in inbox THEN 1 ELSE 0) + (IF current = m /\ pc = "calling" THEN 1 ELSE 0)
Hopes(m) == Underway(m) + (IF Fresh(m) THEN 1 ELSE 0)

\* What makes it do so: a connection, a fault, or a call of others that the ingress
\* panicked at, or lost when it did.
Lost == {c \in Roleless(Calls) : status[c] = "error"}
Causes == Top + breaks + Cardinality(Lost)

CopiesHaveCauses == \A m \in Messages : Tries(m) + Hopes(m) <= Causes

\* An ingress that has not been down serves the certificate it started with, which
\* a client that gave up has not been made with.
GivesUpForReason ==
  /\ serving = "none" => fell
  /\ pc = "failed" /\ breaks = 0 /\ ~fell => pool.cert # serving

ClientOK == Numbered /\ Spare + crashes >= 0

Inv ==
  /\ TypeOK /\ ClientOK /\ Busy /\ Sessions /\ OnePlace /\ HeldIsUnacked
  /\ VerdictsAreFinal /\ LastCall /\ OthersWait /\ SentIsPublished
  /\ CopiesHaveCauses /\ GivesUpForReason

(***************************************************************************)
(* Type correctness.                                                       *)
(***************************************************************************)
\* Messages, calls, frames and clients are told from the values that stand for none.
LEMMA Values ==
  /\ "none" \notin Messages /\ "none" \notin Calls /\ "none" \notin Certs
  /\ Messages \cap Calls = {}
  /\ \A v \in {"ack", "nack"}, m \in Messages : [kind |-> v, msg |-> m] \in Frame
  /\ \A f \in Frame : f.msg \in Messages
  /\ \A m \in Messages \cup Calls, b \in BOOLEAN : [msg |-> m, live |-> b] \in Call
  /\ Nothing \notin Call /\ Nothing.msg = "none" /\ Nothing.live = FALSE
  /\ \A c \in Call : c.msg \in Messages \cup Calls /\ c.live \in BOOLEAN
  /\ NoClient.cert = "none" /\ NoClient.state = "none"
BY HopAssumption DEF Frame, Call, Nothing, NoClient

\* What the ingress has of a call goes on without its caller.
LEMMA Abandoning ==
  ASSUME iQueue \in Seq(Call), handling \in Call \cup {Nothing}, NoneLive
  PROVE  /\ iQueue' \in Seq(Call) /\ Len(iQueue') = Len(iQueue)
         /\ DOMAIN iQueue' = DOMAIN iQueue
         /\ \A i \in DOMAIN iQueue : iQueue'[i].msg = iQueue[i].msg /\ ~iQueue'[i].live
         /\ handling' \in Call \cup {Nothing}
         /\ handling'.msg = handling.msg /\ ~handling'.live
<1>1. \A c \in Call : Abandon(c) \in Call /\ Abandon(c).msg = c.msg /\ ~Abandon(c).live
  BY DEF Abandon, Call
<1>2. Abandon(Nothing) = Nothing
  <2>1. \A c \in [msg : {"none"}, live : BOOLEAN] : ~c.live => [c EXCEPT !.live = FALSE] = c
    OBVIOUS
  <2>2. Nothing \in [msg : {"none"}, live : BOOLEAN] /\ ~Nothing.live
    BY DEF Nothing
  <2> QED
    BY <2>1, <2>2 DEF Abandon
<1>3. /\ Len(iQueue) \in Nat /\ DOMAIN iQueue = 1 .. Len(iQueue)
      /\ \A i \in DOMAIN iQueue : iQueue[i] \in Call
  BY LenProperties
<1>4. iQueue' = [i \in 1 .. Len(iQueue) |-> Abandon(iQueue[i])]
  BY <1>3 DEF NoneLive
<1>5. iQueue' \in Seq(Call) /\ Len(iQueue') = Len(iQueue)
  BY <1>1, <1>3, <1>4
<1>6. \A i \in DOMAIN iQueue : iQueue'[i] = Abandon(iQueue[i])
  BY <1>3, <1>4
<1>7. handling' = Abandon(handling)
  BY DEF NoneLive
<1>8. handling' \in Call \cup {Nothing} /\ handling'.msg = handling.msg /\ ~handling'.live
  <2>1. CASE handling \in Call
    BY <1>1, <1>7, <2>1
  <2>2. CASE handling = Nothing
    BY <1>2, <1>7, <2>2, Values
  <2> QED
    BY <2>1, <2>2
<1> QED
  BY <1>1, <1>3, <1>4, <1>5, <1>6, <1>8

\* A client for the receiver has one of the certificates.
LEMMA ClientsHaveCerts ==
  ASSUME TypeOK, pool # NoClient
  PROVE  /\ pool.cert \in Certs
         /\ \A s \in {"idle", "ready", "failing"} :
              /\ [pool EXCEPT !.state = s] \in [cert : Certs, state : {"idle", "ready", "failing"}]
              /\ [pool EXCEPT !.state = s].cert = pool.cert
BY DEF TypeOK

\* The initial state is of the types.
LEMMA TypeInit == Init => TypeOK
<1> SUFFICES ASSUME Init PROVE TypeOK
  OBVIOUS
<1>1. AmqpTypeOK(Frame)
  BY ClientInit DEF Init
<1>2. crashes \in 0 .. MaxCrashes /\ breaks \in 0 .. MaxTroubles /\ attempts \in 0 .. MaxAttempts + 1
  BY AmqpAssumption, HopAssumption DEF Init
<1>3. iQueue \in Seq(Call) /\ published \in [Messages \cup Calls -> Nat]
  BY DEF Init
<1> QED
  BY <1>1, <1>2, <1>3 DEF Init, TypeOK

\* An attempt that fails is counted, and the goroutine goes on.
LEMMA FailedAttempts ==
  ASSUME TypeOK, Busy, pc \in {"calling", "waiting"}, AttemptFails
  PROVE  /\ attempts' \in 0 .. MaxAttempts + 1 /\ pc' \in {"calling", "failed"} /\ rpc' = "none"
         /\ pc' = "calling" => attempts' <= MaxAttempts
BY HopAssumption DEF TypeOK, Busy, AttemptFails

\* A step that leaves the client alone, but for frames sent or received, keeps its types.
LEMMA AmqpKept ==
  ASSUME AmqpTypeOK(Frame), UNCHANGED amqpVars
  PROVE  AmqpTypeOK(Frame)'
BY DEF AmqpTypeOK, amqpVars, clientVars

LEMMA AmqpFrames ==
  ASSUME AmqpTypeOK(Frame), UNCHANGED <<clientVars, session, losses>>,
         wire' \in [Connections -> Seq(Frame)]
  PROVE  AmqpTypeOK(Frame)'
BY DEF AmqpTypeOK, clientVars

\* The egress keeps its types.
LEMMA TypeEgress ==
  ASSUME TypeOK, Busy, ClientOK, Egress
  PROVE  TypeOK'
<1> USE DEF brokerVars, ingressVars
<1>0. AmqpTypeOK(Frame) /\ (UNCHANGED amqpVars => AmqpTypeOK(Frame)')
  BY AmqpKept DEF TypeOK
<1>1. CASE Listen
  <2>1. conn \in Connections
    BY <1>1 DEF Listen, Usable, ClientOK, Numbered, TypeOK, AmqpTypeOK
  <2> QED
    BY <1>0, <1>1, <2>1 DEF Listen, TypeOK
<1>2. CASE DeliveriesClosed
  BY <1>0, <1>2 DEF DeliveriesClosed, TypeOK
<1>3. ASSUME NEW m \in Messages, TakeSilent(m) PROVE TypeOK'
  BY <1>0, <1>3 DEF TakeSilent, TypeOK
<1>4. ASSUME NEW m \in Messages, Take(m) PROVE TypeOK'
  <2>1. Cert[m] \in Certs /\ 0 \in 0 .. MaxAttempts + 1
    BY HopAssumption
  <2>2. pool' \in [cert : Certs, state : {"idle", "ready", "failing"}]
    <3>1. CASE pool' = [cert |-> Cert[m], state |-> "idle"]
      BY <2>1, <3>1
    <3>2. CASE pool # NoClient /\ pool' = pool
      BY <3>2 DEF TypeOK
    <3>3. CASE pool # NoClient /\ pool' = [pool EXCEPT !.state = "idle"]
      BY <3>3, ClientsHaveCerts
    <3> QED
      BY <1>4, <3>1, <3>2, <3>3 DEF Take, ObtainClient
  <2> QED
    BY <1>0, <1>4, <2>1, <2>2 DEF Take, TypeOK
<1>5. CASE CallIngress
  <2>1. current \in Messages /\ pool # NoClient
    BY <1>5 DEF CallIngress, Busy, TypeOK
  <2>2. iQueue' \in Seq(Call)
    BY <1>5, <2>1, Values, AppendProperties DEF CallIngress, TypeOK
  <2>3. pool' \in [cert : Certs, state : {"idle", "ready", "failing"}]
    BY <1>5, <2>1, ClientsHaveCerts DEF CallIngress
  <2> QED
    BY <1>0, <1>5, <2>2, <2>3 DEF CallIngress, TypeOK
<1>6. CASE CallFails
  <2>1. pool # NoClient /\ pc = "calling" /\ AttemptFails
    BY <1>6 DEF CallFails, Busy
  <2>2. pool' \in [cert : Certs, state : {"idle", "ready", "failing"}]
    BY <1>6, <2>1, ClientsHaveCerts DEF CallFails
  <2>3. attempts' \in 0 .. MaxAttempts + 1 /\ pc' \in {"calling", "failed"} /\ rpc' = "none"
    BY <2>1, FailedAttempts
  <2> QED
    BY <1>0, <1>6, <2>2, <2>3 DEF CallFails, TypeOK
<1>7. CASE Returns
  BY <1>0, <1>7 DEF Returns, TypeOK
<1>8. CASE Settle
  <2>1. wire' \in [Connections -> Seq(Frame)]
    <3>1. PICK v \in {"ack", "nack"} : Answer(v)
      BY <1>8 DEF Settle
    <3>2. CASE SourceClosed
      BY <3>1, <3>2 DEF Answer, TypeOK, AmqpTypeOK
    <3>3. CASE ~SourceClosed
      <4>1. source \in Connections
        BY <3>3 DEF SourceClosed, ClientOK, Numbered, TypeOK, AmqpTypeOK
      <4>2. current \in Messages
        BY <1>8 DEF Settle, Busy, TypeOK
      <4>3. [kind |-> v, msg |-> current] \in Frame
        BY <4>2, Values
      <4>4. Send(source, [kind |-> v, msg |-> current])
        BY <3>1, <3>3 DEF Answer
      <4> QED
        BY <4>1, <4>3, <4>4, Sending DEF TypeOK, AmqpTypeOK
    <3> QED
      BY <3>2, <3>3
  <2>2. AmqpTypeOK(Frame)'
    BY <1>0, <1>8, <2>1, AmqpFrames DEF Settle
  <2> QED
    BY <1>8, <2>2 DEF Settle, TypeOK
<1> QED
  BY <1>1, <1>2, <1>3, <1>4, <1>5, <1>6, <1>7, <1>8 DEF Egress

\* So does its broker.
LEMMA TypeBroker ==
  ASSUME TypeOK, ClientOK, NEW c \in Connections,
         Arrive(c) \/ SessionEnds(c) \/ \E m \in Messages : Deliver(c, m)
  PROVE  TypeOK'
<1> USE DEF egressVars, ingressVars
<1>1. ASSUME NEW m \in Messages, Deliver(c, m) PROVE TypeOK'
  <2>1. AmqpTypeOK(Frame)'
    BY <1>1, AmqpKept DEF Deliver, TypeOK
  <2>2. unacked' \in [Connections -> SUBSET Messages]
    BY <1>1 DEF Deliver, TypeOK
  <2> QED
    BY <1>1, <2>1, <2>2 DEF Deliver, TypeOK
<1>2. CASE Arrive(c)
  <2>1. wire[c] # <<>> /\ wire' = [wire EXCEPT ![c] = Tail(@)]
    BY <1>2 DEF Arrive
  <2>2. wire' \in [Connections -> Seq(Frame)] /\ Head(wire[c]) \in Frame
    BY <2>1, Arriving DEF TypeOK, AmqpTypeOK
  <2>3. Head(wire[c]).msg \in Messages
    BY <2>2, Values
  <2>4. settled' \in [Messages -> {"no", "acked", "nacked"}]
        /\ unacked' \in [Connections -> SUBSET Messages]
    BY <1>2, <2>3 DEF Arrive, TypeOK
  <2>5. AmqpTypeOK(Frame)'
    BY <1>2, <2>2, AmqpFrames DEF Arrive, TypeOK
  <2> QED
    BY <1>2, <2>4, <2>5 DEF Arrive, TypeOK
<1>3. CASE SessionEnds(c)
  <2>1. AmqpTypeOK(Frame)'
    BY <1>3, SessionSteps DEF SessionEnds, ClientOK, TypeOK
  <2>2. queue' \subseteq Messages /\ unacked' \in [Connections -> SUBSET Messages]
    BY <1>3 DEF SessionEnds, TypeOK
  <2> QED
    BY <1>3, <2>1, <2>2 DEF SessionEnds, TypeOK
<1> QED
  BY <1>1, <1>2, <1>3

\* The next call has a type.
LEMMA NextCall ==
  ASSUME TypeOK, iQueue # <<>>
  PROVE  /\ Head(iQueue) \in Call /\ Head(iQueue) = iQueue[1] /\ 1 \in DOMAIN iQueue
         /\ Tail(iQueue) \in Seq(Call) /\ Len(Tail(iQueue)) = Len(iQueue) - 1
         /\ \A i \in DOMAIN Tail(iQueue) :
              i \in Nat \ {0} /\ i + 1 \in DOMAIN iQueue /\ Tail(iQueue)[i] = iQueue[i + 1]
<1>1. iQueue \in Seq(Call)
  BY DEF TypeOK
<1>2. /\ Head(iQueue) \in Call /\ Tail(iQueue) \in Seq(Call)
      /\ Len(Tail(iQueue)) = Len(iQueue) - 1
      /\ \A i \in 1 .. Len(Tail(iQueue)) : Tail(iQueue)[i] = iQueue[i + 1]
  BY <1>1, HeadTailProperties
<1>3. /\ Len(iQueue) \in Nat /\ DOMAIN iQueue = 1 .. Len(iQueue)
      /\ Len(Tail(iQueue)) \in Nat /\ DOMAIN Tail(iQueue) = 1 .. Len(Tail(iQueue))
  BY <1>1, <1>2, LenProperties
<1>4. Head(iQueue) = iQueue[1] /\ 1 \in DOMAIN iQueue
  BY <1>1, <1>2, <1>3
<1> QED
  BY <1>2, <1>3, <1>4

\* When the ingress ends, its calls end, and the egress counts one that failed.
LEMMA Ending ==
  ASSUME TypeOK, Busy, IngressEnds
  PROVE  /\ serving' = "none" /\ fell' = TRUE /\ iQueue' = <<>> /\ handling' = Nothing
         /\ iQueue' \in Seq(Call) /\ status' \in [Calls -> {"no", "waiting", "ok", "error"}]
         /\ pool' \in [cert : Certs, state : {"idle", "ready", "failing"}] \cup {NoClient}
         /\ pool # NoClient => pool' # NoClient
         /\ attempts' \in 0 .. MaxAttempts + 1
         /\ \/ UNCHANGED <<attempts, pc, rpc>> /\ rpc \in {"none", "hung"}
            \/ /\ pc = "waiting" /\ pc' \in {"calling", "failed"} /\ rpc' = "none"
               /\ rpc \in {"open", "answered"} /\ (pc' = "calling" => attempts' <= MaxAttempts)
<1>1. status' \in [Calls -> {"no", "waiting", "ok", "error"}]
  BY DEF IngressEnds, TypeOK
<1>2. /\ pool' \in [cert : Certs, state : {"idle", "ready", "failing"}] \cup {NoClient}
      /\ pool # NoClient => pool' # NoClient
  <2>1. CASE pool = NoClient
    BY <2>1 DEF IngressEnds
  <2>2. CASE pool # NoClient
    BY <2>2, ClientsHaveCerts, Values DEF IngressEnds
  <2> QED
    BY <2>1, <2>2
<1>3. CASE rpc \in {"open", "answered"}
  <2>1. pc = "waiting" /\ AttemptFails
    BY <1>3 DEF IngressEnds, TypeOK
  <2>2. /\ attempts' \in 0 .. MaxAttempts + 1 /\ pc' \in {"calling", "failed"} /\ rpc' = "none"
        /\ pc' = "calling" => attempts' <= MaxAttempts
    BY <2>1, FailedAttempts
  <2> QED
    BY <1>1, <1>2, <1>3, <2>1, <2>2 DEF IngressEnds
<1>4. CASE rpc \notin {"open", "answered"}
  <2>1. UNCHANGED <<attempts, pc, rpc>> /\ rpc \in {"none", "hung"}
    BY <1>4 DEF IngressEnds, TypeOK
  <2> QED
    BY <1>1, <1>2, <2>1 DEF IngressEnds, TypeOK
<1> QED
  BY <1>3, <1>4

\* So the types are kept.
LEMMA EndingTypes ==
  ASSUME TypeOK, Busy, IngressEnds, AmqpTypeOK(Frame)', breaks' \in 0 .. MaxTroubles
  PROVE  TypeOK'
<1>1. /\ serving' = "none" /\ fell' = TRUE /\ handling' = Nothing
      /\ iQueue' \in Seq(Call) /\ status' \in [Calls -> {"no", "waiting", "ok", "error"}]
      /\ pool' \in [cert : Certs, state : {"idle", "ready", "failing"}] \cup {NoClient}
      /\ attempts' \in 0 .. MaxAttempts + 1
  BY Ending
<1>2. /\ pc' \in {"listening", "ranging", "calling", "waiting", "sent", "failed"}
      /\ rpc' \in {"none", "open", "answered", "hung"}
      /\ rpc' # "none" <=> pc' = "waiting"
  <2>1. CASE UNCHANGED <<attempts, pc, rpc>>
    BY <2>1 DEF TypeOK
  <2>2. CASE pc' \in {"calling", "failed"} /\ rpc' = "none"
    BY <2>2
  <2> QED
    BY <2>1, <2>2, Ending
<1>3. UNCHANGED <<queue, unacked, settled, consumers, source, inbox, current, kind, published, crashes>>
  BY DEF IngressEnds, brokerVars
<1> QED
  BY <1>1, <1>2, <1>3 DEF TypeOK

\* The ingress keeps its types, and its callers.
LEMMA TypeIngress ==
  ASSUME TypeOK, Busy, LastCall, Ingress \/ \E m \in Calls : CallOther(m)
  PROVE  TypeOK'
<1> USE DEF brokerVars, egressVars
<1>0. AmqpTypeOK(Frame) /\ (UNCHANGED amqpVars => AmqpTypeOK(Frame)')
  BY AmqpKept DEF TypeOK
<1>1. CASE Handle
  <2>1. handling' \in Call /\ iQueue' \in Seq(Call)
    BY <1>1, NextCall DEF Handle
  <2> QED
    BY <1>0, <1>1, <2>1 DEF Handle, TypeOK
<1>2. CASE Publish
  <2>1. handling \in Call /\ handling.msg \in Messages \cup Calls
    BY <1>2, Values DEF Publish, TypeOK
  <2>2. published' \in [Messages \cup Calls -> Nat]
    BY <1>2, <2>1 DEF Publish, TypeOK
  <2>3. rpc' \in {"none", "open", "answered", "hung"} /\ (rpc' # "none" <=> pc' = "waiting")
    <3>1. CASE handling.live
      BY <1>2, <3>1 DEF Publish, LastCall, TypeOK
    <3>2. CASE ~handling.live
      BY <1>2, <3>2 DEF Publish, TypeOK
    <3> QED
      BY <3>1, <3>2
  <2>4. status' \in [Calls -> {"no", "waiting", "ok", "error"}]
    BY <1>2 DEF Publish, TypeOK
  <2> QED
    BY <1>0, <1>2, <2>2, <2>3, <2>4 DEF Publish, TypeOK
<1>3. CASE SkipEmpty
  BY <1>0, <1>3 DEF SkipEmpty, TypeOK
<1>4. CASE Panic
  <2>1. IngressEnds /\ breaks' \in 0 .. MaxTroubles
    BY <1>4 DEF Panic, TypeOK
  <2>2. AmqpTypeOK(Frame)'
    BY <1>0, <2>1 DEF IngressEnds
  <2> QED
    BY <2>1, <2>2, EndingTypes
<1>5. CASE IngressStarts
  BY <1>0, <1>5 DEF IngressStarts, TypeOK
<1>6. ASSUME NEW m \in Calls, CallOther(m) PROVE TypeOK'
  <2>1. iQueue' \in Seq(Call)
    BY <1>6, Values, AppendProperties DEF CallOther, TypeOK
  <2> QED
    BY <1>0, <1>6, <2>1 DEF CallOther, TypeOK
<1> QED
  BY <1>1, <1>2, <1>3, <1>4, <1>5, <1>6 DEF Ingress

\* Faults are counted up to their bounds.
LEMMA TypeFaults ==
  ASSUME TypeOK, Busy, ClientOK, IngressStops \/ CallBreaks \/ CallHangs \/ Restart
  PROVE  TypeOK'
<1> USE DEF brokerVars
<1>0. AmqpTypeOK(Frame) /\ (UNCHANGED amqpVars => AmqpTypeOK(Frame)')
  BY AmqpKept DEF TypeOK
<1>1. Break => breaks' \in 0 .. MaxTroubles
  <2>1. losses \in Nat /\ crashes \in Nat /\ breaks \in Nat
    BY AmqpAssumption, HopAssumption DEF TypeOK, AmqpTypeOK
  <2> QED
    BY <2>1, HopAssumption DEF Break, Troubles
<1>2. CASE IngressStops
  <2>1. IngressEnds /\ breaks' \in 0 .. MaxTroubles
    BY <1>1, <1>2 DEF IngressStops
  <2>2. AmqpTypeOK(Frame)'
    BY <1>0, <2>1 DEF IngressEnds
  <2> QED
    BY <2>1, <2>2, EndingTypes
<1>3. CASE CallBreaks
  <2>1. pc = "waiting" /\ pool # NoClient
    BY <1>3 DEF CallBreaks, TypeOK, Busy
  <2>2. pool' \in [cert : Certs, state : {"idle", "ready", "failing"}]
    BY <1>3, <2>1, ClientsHaveCerts DEF CallBreaks
  <2>3. attempts' \in 0 .. MaxAttempts + 1 /\ pc' \in {"calling", "failed"} /\ rpc' = "none"
    BY <1>3, <2>1, FailedAttempts DEF CallBreaks
  <2>4. iQueue' \in Seq(Call) /\ handling' \in Call \cup {Nothing}
    BY <1>3, Abandoning DEF CallBreaks, TypeOK
  <2> QED
    BY <1>0, <1>1, <1>3, <2>2, <2>3, <2>4 DEF CallBreaks, TypeOK
<1>4. CASE CallHangs
  <2>1. iQueue' \in Seq(Call) /\ handling' \in Call \cup {Nothing}
    BY <1>4, Abandoning DEF CallHangs, TypeOK
  <2> QED
    BY <1>0, <1>1, <1>4, <2>1 DEF CallHangs, TypeOK
<1>5. CASE Restart
  <2>1. iQueue' \in Seq(Call) /\ handling' \in Call \cup {Nothing}
    BY <1>5, Abandoning DEF Restart, TypeOK
  <2>2. AmqpTypeOK(Frame)'
    BY <1>5, RestartSteps DEF Restart, ClientOK, TypeOK
  <2>3. crashes' \in 0 .. MaxCrashes /\ 0 \in 0 .. MaxAttempts + 1
    BY <1>5, AmqpAssumption, HopAssumption DEF Restart, TypeOK
  <2> QED
    BY <1>5, <2>1, <2>2, <2>3 DEF Restart, TypeOK
<1> QED
  BY <1>2, <1>3, <1>4, <1>5

\* Types and the client's connections are kept by every step.
LEMMA TypeNext ==
  ASSUME Inv, Next
  PROVE  TypeOK'
<1> USE DEF Inv
<1>1. CASE Client
  <2>1. AmqpTypeOK(Frame)'
    BY <1>1, ClientSteps DEF Client, ClientOK, TypeOK
  <2> QED
    BY <1>1, <2>1 DEF Client, brokerVars, egressVars, ingressVars, TypeOK
<1> QED
  BY <1>1, TypeEgress, TypeBroker, TypeIngress, TypeFaults DEF Next

(***************************************************************************)
(* The connections of the egress.                                          *)
(***************************************************************************)
\* Only dialling changes the number of connections, and every one but the last was
\* lost or left behind.
LEMMA ClientNextKept ==
  ASSUME Inv, Next, TypeOK'
  PROVE  /\ ClientOK' /\ Top \in Nat
         /\ \/ Top' = Top
            \/ /\ Client /\ Top + 1 \in Connections /\ Top' = Top + 1 /\ ~up
               /\ conn' = Top' /\ session' = [session EXCEPT ![Top + 1] = "open"]
<1> USE DEF Inv, ClientOK
<1>1. AmqpTypeOK(Frame) /\ AmqpTypeOK(Frame)' /\ Numbered /\ Top \in Nat
  BY TopFacts DEF TypeOK
<1>2. Spare \in Int /\ (Numbered' => Spare' \in Int)
  BY <1>1, SpareIsInt
<1>3. crashes \in Nat /\ crashes' \in Nat
  BY AmqpAssumption DEF TypeOK
<1>4. CASE Client
  <2>1. ClientNext /\ crashes' = crashes
    BY <1>4 DEF Client
  <2>2. /\ Numbered' /\ Spare' >= Spare
        /\ \/ Top' = Top
           \/ /\ Top + 1 \in Connections /\ Top' = Top + 1 /\ ~up
              /\ conn' = Top' /\ session' = [session EXCEPT ![Top + 1] = "open"]
    BY <1>1, <2>1, ClientSteps
  <2> QED
    BY <1>1, <1>2, <1>3, <1>4, <2>1, <2>2
<1>5. CASE \E c \in Connections : SessionEnds(c)
  <2>1. PICK c \in Connections : SessionEnds(c)
    BY <1>5
  <2>2. EndSession(c) /\ crashes' = crashes
    BY <2>1 DEF SessionEnds
  <2>3. Numbered' /\ Top' = Top /\ Spare' >= Spare
    BY <1>1, <2>2, SessionSteps
  <2> QED
    BY <1>1, <1>2, <1>3, <2>2, <2>3
<1>6. CASE Restart
  <2>1. RestartClient /\ crashes' = crashes + 1
    BY <1>6 DEF Restart
  <2>2. Numbered' /\ Top' = Top /\ Spare' + 1 >= Spare
    BY <1>1, <2>1, RestartSteps
  <2> QED
    BY <1>1, <1>2, <1>3, <2>1, <2>2
<1>7. CASE UNCHANGED <<clientVars, session, losses, crashes>>
  <2>1. Numbered' /\ Top' = Top /\ Spare' = Spare
    BY <1>1, <1>7, ConnectionsKept
  <2> QED
    BY <1>1, <1>2, <1>3, <1>7, <2>1
<1>8. ASSUME ~Client, \A c \in Connections : ~SessionEnds(c), ~Restart
      PROVE  UNCHANGED <<clientVars, session, losses, crashes>>
  <2> USE DEF clientVars, amqpVars
  <2>1. CASE Egress
    BY <2>1 DEF Egress, Listen, DeliveriesClosed, TakeSilent, Take, CallIngress, CallFails, Returns,
                Settle
  <2>2. CASE Ingress
    BY <2>2 DEF Ingress, Handle, Publish, SkipEmpty, Panic, IngressStarts, IngressEnds
  <2>3. CASE \E c \in Connections : Arrive(c) \/ \E m \in Messages : Deliver(c, m)
    BY <2>3 DEF Arrive, Deliver
  <2>4. CASE \E m \in Calls : CallOther(m)
    BY <2>4 DEF CallOther
  <2>5. CASE IngressStops \/ CallBreaks \/ CallHangs
    BY <2>5 DEF IngressStops, IngressEnds, CallBreaks, CallHangs
  <2> QED
    BY <1>8, <2>1, <2>2, <2>3, <2>4, <2>5 DEF Next
<1> QED
  BY <1>4, <1>5, <1>6, <1>7, <1>8

------------------------------------------------------------------------------
(***************************************************************************)
(* The goroutine and the broker.                                           *)
(***************************************************************************)
\* Which steps change what the goroutine has in hand.
LEMMA BusyNext ==
  ASSUME Inv, Next
  PROVE  Busy'
<1> USE DEF Inv
<1>1. CASE Egress
  <2>1. CASE Listen
    BY <2>1, Values DEF Listen, Busy, TypeOK
  <2>2. CASE DeliveriesClosed
    BY <2>2 DEF DeliveriesClosed, Busy
  <2>3. ASSUME NEW m \in Messages, TakeSilent(m) PROVE Busy'
    BY <2>3 DEF TakeSilent, Busy
  <2>4. ASSUME NEW m \in Messages, Take(m) PROVE Busy'
    <3>1. m # "none" /\ Cert[m] # "none"
      BY Values, HopAssumption
    <3>2. pool' # NoClient
      <4>1. CASE pool' = [cert |-> Cert[m], state |-> "idle"]
        BY <3>1, <4>1, Values
      <4>2. CASE pool # NoClient
        BY <2>4, <3>1, <4>2, ClientsHaveCerts, Values DEF Take, ObtainClient
      <4> QED
        BY <2>4, <4>1, <4>2 DEF Take, ObtainClient
    <3> QED
      BY <2>4, <3>1, <3>2, HopAssumption DEF Take, Busy
  <2>5. CASE CallIngress
    <3>1. pool # NoClient
      BY <2>5 DEF CallIngress, Busy
    <3>2. pool' # NoClient
      BY <2>5, <3>1, ClientsHaveCerts, Values DEF CallIngress
    <3> QED
      BY <2>5, <3>2 DEF CallIngress, Busy
  <2>6. CASE CallFails
    <3>1. pool # NoClient /\ pc = "calling" /\ AttemptFails
      BY <2>6 DEF CallFails, Busy
    <3>2. pool' # NoClient
      BY <2>6, <3>1, ClientsHaveCerts, Values DEF CallFails
    <3>3. pc' \in {"calling", "failed"} /\ (pc' = "calling" => attempts' <= MaxAttempts)
      BY <3>1, FailedAttempts
    <3> QED
      BY <2>6, <3>1, <3>2, <3>3 DEF CallFails, Busy
  <2>7. CASE Returns
    BY <2>7 DEF Returns, Busy, TypeOK
  <2>8. CASE Settle
    BY <2>8, Values DEF Settle, Busy, TypeOK
  <2> QED
    BY <1>1, <2>1, <2>2, <2>3, <2>4, <2>5, <2>6, <2>7, <2>8 DEF Egress
<1>2. CASE IngressEnds
  <2>1. current' = current /\ inbox' = inbox
    BY <1>2 DEF IngressEnds
  <2> QED
    BY <1>2, <2>1, Ending DEF Busy
<1>3. CASE CallBreaks
  <2>1. pc = "waiting" /\ AttemptFails /\ pool # NoClient
    BY <1>3 DEF CallBreaks, TypeOK, Busy
  <2>2. pool' # NoClient
    BY <1>3, <2>1, ClientsHaveCerts, Values DEF CallBreaks
  <2>3. pc' \in {"calling", "failed"} /\ (pc' = "calling" => attempts' <= MaxAttempts)
    BY <2>1, FailedAttempts
  <2> QED
    BY <1>3, <2>1, <2>2, <2>3 DEF CallBreaks, Busy
<1>4. CASE Restart
  BY <1>4 DEF Restart, Busy
<1>5. ASSUME NEW c \in Connections, NEW m \in Messages, Deliver(c, m)
      PROVE  Busy'
  <2>1. m \notin Held \/ inbox' = inbox
    BY <1>5 DEF Deliver, SourceClosed, HeldIsUnacked, OnePlace, TypeOK, AmqpTypeOK, ClientOK, Numbered
  <2> QED
    BY <1>5, <2>1, Values DEF Deliver, Busy, Held
<1>6. CASE UNCHANGED <<pc, inbox, current, attempts, pool>>
  BY <1>6 DEF Busy
<1>7. ASSUME ~Egress, ~IngressEnds, ~CallBreaks, ~Restart,
             \A c \in Connections, m \in Messages : ~Deliver(c, m)
      PROVE  UNCHANGED <<pc, inbox, current, attempts, pool>>
  <2> USE DEF egressVars
  <2>1. CASE Client \/ CallHangs \/ \E m \in Calls : CallOther(m)
    BY <2>1 DEF Client, CallHangs, CallOther
  <2>2. CASE Ingress
    BY <1>7, <2>2 DEF Ingress, Handle, Publish, SkipEmpty, Panic, IngressStarts
  <2>3. CASE \E c \in Connections : Arrive(c) \/ SessionEnds(c)
    BY <2>3 DEF Arrive, SessionEnds
  <2> QED
    BY <1>7, <2>1, <2>2, <2>3 DEF Next, IngressStops
<1> QED
  BY <1>1, <1>2, <1>3, <1>4, <1>5, <1>6, <1>7

\* A step that leaves the broker's messages and the wire alone and takes nothing on
\* keeps the broker's account of them.
LEMMA QuietKeeps ==
  ASSUME Inv, UNCHANGED <<queue, unacked, settled, wire>>, Held' \subseteq Held
  PROVE  OnePlace' /\ VerdictsAreFinal'
BY DEF Inv, OnePlace, VerdictsAreFinal

\* As long as the sessions stay, too, so do Sessions and HeldIsUnacked.
LEMMA QuietSessions ==
  ASSUME Inv, UNCHANGED <<unacked, wire, session, source>>, Held' \subseteq Held,
         SourceClosed => SourceClosed'
  PROVE  Sessions' /\ HeldIsUnacked'
BY DEF Inv, Sessions, HeldIsUnacked

\* The broker's account of messages is kept.
Brokered == Sessions /\ OnePlace /\ HeldIsUnacked /\ VerdictsAreFinal

\* By the client: the new connection is not the one deliveries come from.
LEMMA BrokeredClient ==
  ASSUME Inv, Client
  PROVE  Brokered'
<1> USE DEF Inv
<1>1. UNCHANGED <<queue, unacked, settled, source, inbox, current>>
  BY DEF Client, brokerVars, egressVars
<1>2. Held' = Held
  BY <1>1 DEF Held
<1>3. /\ wire' = wire
      /\ \/ session' = session /\ conn' = conn /\ (up' => up)
         \/ /\ Top + 1 \in Connections /\ conn' = Top + 1
            /\ session' = [session EXCEPT ![Top + 1] = "open"]
  BY ClientSteps DEF Client, ClientOK, TypeOK
<1>4. OnePlace' /\ VerdictsAreFinal'
  BY <1>1, <1>2, <1>3, QuietKeeps
<1>5. CASE session' = session /\ conn' = conn /\ (up' => up)
  <2>1. SourceClosed => SourceClosed'
    BY <1>1, <1>5 DEF SourceClosed
  <2>2. Sessions' /\ HeldIsUnacked'
    BY <1>1, <1>2, <1>3, <1>5, <2>1, QuietSessions
  <2> QED
    BY <1>4, <2>2 DEF Brokered
<1>6. CASE /\ Top + 1 \in Connections /\ conn' = Top + 1
           /\ session' = [session EXCEPT ![Top + 1] = "open"]
  <2>1. Dialled(Top) /\ Top \in Nat
    BY TopFacts DEF ClientOK
  <2>2. session[Top + 1] = "none"
    BY <1>6, <2>1 DEF Dialled
  <2>3. source # Top + 1
    BY <1>6, <2>2, Connecting DEF Sessions
  <2>4. SourceClosed'
    BY <1>1, <1>6, <2>3 DEF SourceClosed
  <2>5. Sessions'
    BY <1>1, <1>3, <1>6, <2>3 DEF Sessions, TypeOK, AmqpTypeOK
  <2> QED
    BY <1>4, <2>4, <2>5 DEF Brokered, HeldIsUnacked
<1> QED
  BY <1>3, <1>5, <1>6

\* By the egress, which writes one verdict on what it has and lets go of it.
LEMMA BrokeredEgress ==
  ASSUME Inv, Egress
  PROVE  Brokered'
<1> USE DEF Inv
<1>1. CASE Settle
  <2>1. /\ UNCHANGED <<queue, unacked, settled, conn, up, session, source, inbox>>
        /\ current' = "none" /\ pc \in {"sent", "failed"}
    BY <1>1 DEF Settle, brokerVars, clientVars
  <2>2. current \in Messages /\ current \in Held
    BY <2>1 DEF Busy, Held, TypeOK
  <2>3. Held' = Held \ {current}
    BY <2>1, <2>2, Values DEF Busy, Held, TypeOK
  <2>4. PICK v \in {"ack", "nack"} : Answer(v)
    BY <1>1 DEF Settle
  <2>5. CASE SourceClosed \/ session[source] # "open"
    <3>1. wire' = wire
      BY <2>4, <2>5 DEF Answer, Send
    <3>2. OnePlace' /\ VerdictsAreFinal'
      BY <2>1, <2>3, <3>1, QuietKeeps
    <3>3. SourceClosed => SourceClosed'
      BY <2>1 DEF SourceClosed
    <3>4. Sessions' /\ HeldIsUnacked'
      BY <2>1, <2>3, <3>1, <3>3, QuietSessions
    <3> QED
      BY <3>2, <3>4 DEF Brokered
  <2>6. CASE ~SourceClosed /\ session[source] = "open"
    <3> DEFINE f == [kind |-> v, msg |-> current]
    <3>1. source \in Connections
      BY <2>6 DEF SourceClosed, ClientOK, Numbered, TypeOK, AmqpTypeOK
    <3>2. f \in Frame /\ f.msg = current /\ Send(source, f)
      BY <2>2, <2>4, <2>6, Values DEF Answer
    <3> HIDE DEF f
    <3>3. wire \in [Connections -> Seq(Frame)]
      BY DEF TypeOK, AmqpTypeOK
    <3>4. /\ \A d \in Connections : \A i \in DOMAIN wire'[d] :
               \/ i \in DOMAIN wire[d] /\ wire'[d][i] = wire[d][i]
               \/ d = source /\ i = Len(wire[source]) + 1 /\ wire'[d][i] = f
          /\ \A d \in Connections : session[d] # "open" => wire'[d] = wire[d]
      BY <3>1, <3>2, <3>3, Sending
    <3>5. current \in unacked[source]
      BY <2>2, <2>6 DEF HeldIsUnacked
    <3>6. \A d \in Connections : \A i \in DOMAIN wire[d] : wire[d][i].msg # current
      BY <2>2 DEF VerdictsAreFinal
    <3>7. VerdictsAreFinal'
      <4> SUFFICES ASSUME NEW d \in Connections, NEW i \in DOMAIN wire'[d]
                   PROVE  /\ wire'[d][i].msg \in unacked'[d] \ Held'
                          /\ \A j \in DOMAIN wire'[d] : wire'[d][j].msg = wire'[d][i].msg => j = i
        BY DEF VerdictsAreFinal
      <4>1. CASE i \in DOMAIN wire[d] /\ wire'[d][i] = wire[d][i]
        <5>1. wire[d][i].msg \in unacked[d] \ Held /\ wire[d][i].msg # current
          BY <3>6, <4>1 DEF VerdictsAreFinal
        <5>2. \A j \in DOMAIN wire'[d] : wire'[d][j].msg = wire[d][i].msg =>
                j \in DOMAIN wire[d] /\ wire[d][j].msg = wire[d][i].msg
          BY <3>2, <3>4, <5>1
        <5> QED
          BY <2>1, <2>3, <4>1, <5>1, <5>2 DEF VerdictsAreFinal
      <4>2. CASE d = source /\ i = Len(wire[source]) + 1 /\ wire'[d][i] = f
        BY <2>1, <2>3, <3>2, <3>4, <3>5, <3>6, <4>2
      <4> QED
        BY <3>4, <4>1, <4>2
    <3>8. Sessions'
      BY <2>1, <3>4 DEF Sessions
    <3>9. OnePlace' /\ HeldIsUnacked'
      BY <2>1, <2>3 DEF OnePlace, HeldIsUnacked, SourceClosed
    <3> QED
      BY <3>7, <3>8, <3>9 DEF Brokered
  <2> QED
    BY <2>5, <2>6
<1>2. CASE Listen
  <2>1. /\ UNCHANGED <<queue, unacked, settled, wire, session>> /\ Held' = {}
        /\ source' \in Connections /\ session[source'] = "open"
    BY <1>2 DEF Listen, Held, Busy, Usable, amqpVars, TypeOK, AmqpTypeOK, ClientOK, Numbered
  <2> QED
    <3>1. OnePlace' /\ VerdictsAreFinal'
      BY <2>1, QuietKeeps
    <3>2. HeldIsUnacked'
      BY <2>1 DEF HeldIsUnacked
    <3>3. Sessions'
      BY <2>1 DEF Sessions
    <3> QED
      BY <3>1, <3>2, <3>3 DEF Brokered
<1>3. CASE ~Settle /\ ~Listen
  <2>1. /\ UNCHANGED <<queue, unacked, settled, wire, session, conn, up, source>>
        /\ inbox' \cup {current'} \subseteq inbox \cup {current, "none"}
    BY <1>3 DEF Egress, DeliveriesClosed, TakeSilent, Take, CallIngress, CallFails, Returns, amqpVars,
                clientVars, brokerVars
  <2>2. "none" \notin inbox
    BY Values DEF TypeOK
  <2>3. Held' \subseteq Held /\ (SourceClosed => SourceClosed')
    <3>1. inbox' \subseteq Held /\ current' \in Held \cup {"none"}
      BY <1>3 DEF Egress, DeliveriesClosed, TakeSilent, Take, CallIngress, CallFails, Returns, Held
    <3> QED
      BY <2>1, <3>1 DEF Held, SourceClosed
  <2> QED
    <3>1. OnePlace' /\ VerdictsAreFinal'
      BY <2>1, <2>3, QuietKeeps
    <3>2. Sessions' /\ HeldIsUnacked'
      BY <2>1, <2>3, QuietSessions
    <3> QED
      BY <3>1, <3>2 DEF Brokered
<1> QED
  BY <1>1, <1>2, <1>3

\* By the broker: what it delivers nobody held; what it takes from the wire is
\* settled for good; what it takes back is delivered to nobody.
LEMMA BrokeredBroker ==
  ASSUME Inv, NEW c \in Connections,
         Arrive(c) \/ SessionEnds(c) \/ \E m \in Messages : Deliver(c, m)
  PROVE  Brokered'
<1> USE DEF Inv
<1>1. ASSUME NEW m \in Messages, Deliver(c, m) PROVE Brokered'
  <2>1. /\ UNCHANGED <<settled, wire, session, conn, up, source, current>>
        /\ session[c] = "open" /\ m \in queue /\ queue' = queue \ {m}
        /\ unacked' = [unacked EXCEPT ![c] = @ \cup {m}]
        /\ inbox' = IF ~SourceClosed /\ c = source THEN inbox \cup {m} ELSE inbox
    BY <1>1 DEF Deliver, amqpVars, clientVars
  <2>2. \A d \in Connections : unacked'[d] = IF d = c THEN unacked[d] \cup {m} ELSE unacked[d]
    BY <2>1 DEF TypeOK
  <2>3. Held' \subseteq Held \cup {m} /\ (SourceClosed \/ c # source => Held' = Held)
    BY <2>1 DEF Held
  <2>4. settled[m] = "no" /\ \A d \in Connections : m \notin unacked[d]
    BY <2>1 DEF OnePlace
  <2>5. OnePlace'
    BY <2>1, <2>2, <2>4 DEF OnePlace
  <2>6. VerdictsAreFinal'
    <3>1. \A d \in Connections : \A i \in DOMAIN wire[d] : wire[d][i].msg # m
      BY <2>4 DEF VerdictsAreFinal
    <3> QED
      BY <2>1, <2>2, <2>3, <3>1 DEF VerdictsAreFinal
  <2>7. Sessions'
    BY <2>1, <2>2 DEF Sessions
  <2>8. HeldIsUnacked'
    <3> SUFFICES ASSUME ~SourceClosed, session[source] = "open"
                 PROVE  Held' \subseteq unacked'[source]
      BY <2>1 DEF HeldIsUnacked, SourceClosed
    <3>1. source \in Connections
      BY DEF SourceClosed, ClientOK, Numbered, TypeOK, AmqpTypeOK
    <3> QED
      BY <2>2, <2>3, <3>1 DEF HeldIsUnacked
  <2> QED
    BY <2>5, <2>6, <2>7, <2>8 DEF Brokered
<1>2. CASE Arrive(c)
  <2> DEFINE f == Head(wire[c])
  <2>1. wire[c] # <<>> /\ wire' = [wire EXCEPT ![c] = Tail(@)]
    BY <1>2 DEF Arrive
  <2>2. wire \in [Connections -> Seq(Frame)]
    BY DEF TypeOK, AmqpTypeOK
  <2>3. /\ f = wire[c][1] /\ 1 \in DOMAIN wire[c] /\ f \in Frame
        /\ \A d \in Connections \ {c} : wire'[d] = wire[d]
        /\ \A i \in DOMAIN wire'[c] :
             i \in Nat \ {0} /\ i + 1 \in DOMAIN wire[c] /\ wire'[c][i] = wire[c][i + 1]
    BY <2>1, <2>2, Arriving
  <2>4. /\ UNCHANGED <<queue, session, conn, up, source, inbox, current>>
        /\ \E s \in {"acked", "nacked"} : settled' = [settled EXCEPT ![f.msg] = s]
        /\ unacked' = [unacked EXCEPT ![c] = @ \ {f.msg}] /\ session[c] = "open"
    BY <1>2 DEF Arrive, clientVars, egressVars
  <2>5. f.msg \in Messages /\ f.msg \in unacked[c] \ Held
    BY <2>3, Values DEF VerdictsAreFinal
  <2>6. \A j \in DOMAIN wire[c] : wire[c][j].msg = f.msg => j = 1
    BY <2>3 DEF VerdictsAreFinal
  <2> DEFINE m == f.msg
  <2> HIDE DEF f
  <2>7. \A d \in Connections : unacked'[d] = IF d = c THEN unacked[d] \ {m} ELSE unacked[d]
    BY <2>4 DEF TypeOK
  <2>8. /\ settled'[m] \in {"acked", "nacked"}
        /\ \A n \in Messages : n # m => settled'[n] = settled[n]
    BY <2>4, <2>5 DEF TypeOK
  <2>9. m \in Messages /\ m \in unacked[c] \ Held
    BY <2>5
  <2>10. Held' = Held
    BY <2>4 DEF Held
  <2>11. \A i \in DOMAIN wire'[c] : wire'[c][i].msg # m
    BY <2>3, <2>6
  <2>12. \A d \in Connections \ {c} : m \notin unacked[d]
    BY <2>9 DEF OnePlace
  <2> HIDE DEF m
  <2>13. OnePlace'
    <3> SUFFICES ASSUME NEW n \in Messages
                 PROVE  /\ settled'[n] = "no" <=> n \in queue \/ \E d \in Connections : n \in unacked'[d]
                        /\ n \in queue => \A d \in Connections : n \notin unacked'[d]
                        /\ \A d, e \in Connections : n \in unacked'[d] \cap unacked'[e] => d = e
      BY <2>4 DEF OnePlace
    <3>1. CASE n = m
      <4>1. \A d \in Connections : m \notin unacked'[d]
        BY <2>7, <2>12
      <4>2. m \notin queue
        BY <2>9 DEF OnePlace
      <4> QED
        BY <2>8, <3>1, <4>1, <4>2
    <3>2. CASE n # m
      <4>1. \A d \in Connections : n \in unacked'[d] <=> n \in unacked[d]
        BY <2>7, <3>2
      <4> QED
        BY <2>8, <3>2, <4>1 DEF OnePlace
    <3> QED
      BY <3>1, <3>2
  <2>14. VerdictsAreFinal'
    <3> SUFFICES ASSUME NEW d \in Connections, NEW i \in DOMAIN wire'[d]
                 PROVE  /\ wire'[d][i].msg \in unacked'[d] \ Held
                        /\ \A j \in DOMAIN wire'[d] : wire'[d][j].msg = wire'[d][i].msg => j = i
      BY <2>10 DEF VerdictsAreFinal
    <3>1. CASE d # c
      BY <2>3, <2>7, <3>1 DEF VerdictsAreFinal
    <3>2. CASE d = c
      <4>1. wire'[c][i].msg \in unacked[c] \ Held /\ wire'[c][i].msg # m
        BY <2>3, <2>11, <3>2 DEF VerdictsAreFinal
      <4>2. ASSUME NEW j \in DOMAIN wire'[c], wire'[c][j].msg = wire'[c][i].msg
            PROVE  j = i
        <5>1. /\ i + 1 \in DOMAIN wire[c] /\ j + 1 \in DOMAIN wire[c]
              /\ wire[c][j + 1].msg = wire[c][i + 1].msg /\ i \in Nat /\ j \in Nat
          BY <2>3, <3>2, <4>2
        <5>2. i + 1 = j + 1
          BY <5>1 DEF VerdictsAreFinal
        <5> QED
          BY <5>1, <5>2
      <4> QED
        BY <2>7, <3>2, <4>1, <4>2
    <3> QED
      BY <3>1, <3>2
  <2>15. Sessions'
    BY <2>3, <2>4, <2>7 DEF Sessions
  <2>16. HeldIsUnacked'
    <3> SUFFICES ASSUME ~SourceClosed, session[source] = "open"
                 PROVE  Held \subseteq unacked'[source]
      BY <2>4, <2>10 DEF HeldIsUnacked, SourceClosed
    <3>1. source \in Connections
      BY DEF SourceClosed, ClientOK, Numbered, TypeOK, AmqpTypeOK
    <3> QED
      BY <2>7, <2>9, <3>1 DEF HeldIsUnacked
  <2> QED
    BY <2>13, <2>14, <2>15, <2>16 DEF Brokered
<1>3. CASE SessionEnds(c)
  <2>1. /\ UNCHANGED <<settled, conn, up, source, inbox, current>>
        /\ queue' = queue \cup unacked[c] /\ unacked' = [unacked EXCEPT ![c] = {}]
        /\ session' = [session EXCEPT ![c] = "ended"] /\ wire' = [wire EXCEPT ![c] = <<>>]
    BY <1>3 DEF SessionEnds, EndSession, clientVars, egressVars
  <2>2. /\ \A d \in Connections : unacked'[d] = IF d = c THEN {} ELSE unacked[d]
        /\ \A d \in Connections : wire'[d] = IF d = c THEN <<>> ELSE wire[d]
        /\ \A d \in Connections : session'[d] = IF d = c THEN "ended" ELSE session[d]
    BY <2>1 DEF TypeOK, AmqpTypeOK
  <2>3. Held' = Held
    BY <2>1 DEF Held
  <2>4. OnePlace'
    BY <2>1, <2>2 DEF OnePlace
  <2>5. VerdictsAreFinal'
    BY <2>2, <2>3 DEF VerdictsAreFinal
  <2>6. Sessions'
    BY <2>1, <2>2 DEF Sessions, TypeOK
  <2>7. HeldIsUnacked'
    <3> SUFFICES ASSUME ~SourceClosed, session'[source] = "open"
                 PROVE  Held \subseteq unacked'[source]
      BY <2>1, <2>3 DEF HeldIsUnacked, SourceClosed
    <3>1. source \in Connections
      BY DEF SourceClosed, ClientOK, Numbered, TypeOK, AmqpTypeOK
    <3> QED
      BY <2>2, <3>1 DEF HeldIsUnacked
  <2> QED
    BY <2>4, <2>5, <2>6, <2>7 DEF Brokered
<1> QED
  BY <1>1, <1>2, <1>3

\* By every step: the ingress and its faults have no part in it, and a restart only
\* lets go.
LEMMA BrokeredNext ==
  ASSUME Inv, Next
  PROVE  Brokered'
<1>1. CASE Restart
  <2>1. UNCHANGED <<queue, unacked, settled, wire, session>> /\ Held' = {} /\ source' = 0
    BY <1>1 DEF Restart, RestartClient, brokerVars, Held
  <2>2. OnePlace' /\ VerdictsAreFinal'
    BY <2>1, QuietKeeps
  <2>3. HeldIsUnacked'
    BY <2>1 DEF HeldIsUnacked
  <2>4. Sessions'
    BY <2>1 DEF Sessions, Inv
  <2> QED
    BY <2>2, <2>3, <2>4 DEF Brokered
<1>2. CASE Ingress \/ (\E m \in Calls : CallOther(m)) \/ IngressStops \/ CallBreaks \/ CallHangs
  <2>1. UNCHANGED <<queue, unacked, settled, wire, session, conn, up, source, inbox, current>>
    BY <1>2 DEF Ingress, Handle, Publish, SkipEmpty, Panic, IngressStarts, IngressEnds, CallOther,
                IngressStops, CallBreaks, CallHangs, amqpVars, clientVars, brokerVars, egressVars
  <2>2. Held' = Held /\ (SourceClosed => SourceClosed')
    BY <2>1 DEF Held, SourceClosed
  <2>3. OnePlace' /\ VerdictsAreFinal'
    BY <2>1, <2>2, QuietKeeps
  <2>4. Sessions' /\ HeldIsUnacked'
    BY <2>1, <2>2, QuietSessions
  <2> QED
    BY <2>3, <2>4 DEF Brokered
<1> QED
  BY <1>1, <1>2, BrokeredClient, BrokeredEgress, BrokeredBroker DEF Next

------------------------------------------------------------------------------
(***************************************************************************)
(* The calls that the ingress has.                                         *)
(***************************************************************************)
\* A call goes behind the others.
LEMMA Queueing ==
  ASSUME TypeOK, NEW call \in Call, iQueue' = Append(iQueue, call)
  PROVE  /\ Len(iQueue) \in Nat /\ DOMAIN iQueue = 1 .. Len(iQueue)
         /\ DOMAIN iQueue' = DOMAIN iQueue \cup {Len(iQueue) + 1}
         /\ \A i \in DOMAIN iQueue : iQueue'[i] = iQueue[i]
         /\ iQueue'[Len(iQueue) + 1] = call
<1>1. iQueue \in Seq(Call)
  BY DEF TypeOK
<1>2. /\ iQueue' \in Seq(Call) /\ Len(iQueue') = Len(iQueue) + 1
      /\ \A i \in 1 .. Len(iQueue) : iQueue'[i] = iQueue[i]
      /\ iQueue'[Len(iQueue) + 1] = call
  BY <1>1, AppendProperties
<1>3. /\ Len(iQueue) \in Nat /\ DOMAIN iQueue = 1 .. Len(iQueue)
      /\ DOMAIN iQueue' = 1 .. Len(iQueue')
  BY <1>1, <1>2, LenProperties
<1> QED
  BY <1>2, <1>3

\* Steps that leave the queue, its order and the caller of it alone.
LEMMA CallsKept ==
  ASSUME Inv, UNCHANGED <<iQueue, handling>>
  PROVE  /\ UNCHANGED <<rpc, current>> => LastCall'
         /\ rpc = "none" /\ rpc' = "none" => LastCall'
         /\ UNCHANGED status => OthersWait'
BY DEF Inv, LastCall, OthersWait

\* Steps after which nobody waits.
LEMMA NobodyWaits ==
  ASSUME rpc' \notin {"open", "answered"}, ~handling'.live,
         \A i \in DOMAIN iQueue' : ~iQueue'[i].live
  PROVE  LastCall'
BY DEF LastCall

\* A call of the egress goes behind all others.
LEMMA CallsFromEgress ==
  ASSUME Inv, CallIngress
  PROVE  LastCall' /\ OthersWait'
<1> DEFINE call == [msg |-> current, live |-> TRUE]
<1>1. /\ pc = "calling" /\ rpc' = "open" /\ iQueue' = Append(iQueue, call)
      /\ UNCHANGED <<handling, current, status>>
  BY DEF CallIngress
<1>2. current \in Messages /\ rpc = "none"
  BY <1>1 DEF Inv, Busy, TypeOK
<1>3. call \in Call /\ call.msg = current /\ call.live
  BY <1>2, Values
<1> HIDE DEF call
<1>4. /\ Len(iQueue) \in Nat /\ DOMAIN iQueue = 1 .. Len(iQueue)
      /\ DOMAIN iQueue' = DOMAIN iQueue \cup {Len(iQueue) + 1}
      /\ \A i \in DOMAIN iQueue : iQueue'[i] = iQueue[i]
      /\ iQueue'[Len(iQueue) + 1] = call
  BY <1>1, <1>3, Queueing DEF Inv
<1>5. ~handling.live /\ \A i \in DOMAIN iQueue : ~iQueue[i].live
  BY <1>2 DEF Inv, LastCall
<1>6. LastCall'
  <2>1. ASSUME NEW i \in DOMAIN iQueue', iQueue'[i].live
        PROVE  /\ iQueue'[i].msg = current
               /\ \A j \in DOMAIN iQueue' : j > i => iQueue'[j].msg \notin Messages
    <3>1. i = Len(iQueue) + 1
      BY <1>4, <1>5, <2>1
    <3>2. \A j \in DOMAIN iQueue' : ~(j > i)
      BY <1>4, <3>1
    <3> QED
      BY <1>3, <1>4, <3>1, <3>2
  <2>2. \E i \in DOMAIN iQueue' : iQueue'[i].live
    BY <1>3, <1>4
  <2> QED
    BY <1>1, <1>5, <2>1, <2>2 DEF LastCall
<1>7. OthersWait'
  <2>1. current \notin Calls
    BY <1>2, Values
  <2>2. \A i \in DOMAIN iQueue' : iQueue'[i].msg \in Calls =>
          i \in DOMAIN iQueue /\ iQueue'[i] = iQueue[i]
    BY <1>3, <1>4, <2>1
  <2> QED
    BY <1>1, <2>2 DEF OthersWait, Inv
<1> QED
  BY <1>6, <1>7

\* A call of others comes once.
LEMMA CallsFromOthers ==
  ASSUME Inv, NEW m \in Calls, CallOther(m)
  PROVE  LastCall' /\ OthersWait'
<1> DEFINE call == [msg |-> m, live |-> FALSE]
<1>1. /\ iQueue' = Append(iQueue, call) /\ status[m] = "no"
      /\ status' = [status EXCEPT ![m] = "waiting"]
      /\ UNCHANGED <<handling, current, rpc>>
  BY DEF CallOther, egressVars
<1>2. call \in Call /\ call.msg = m /\ ~call.live
  BY Values
<1> HIDE DEF call
<1>3. /\ Len(iQueue) \in Nat /\ DOMAIN iQueue = 1 .. Len(iQueue)
      /\ DOMAIN iQueue' = DOMAIN iQueue \cup {Len(iQueue) + 1}
      /\ \A i \in DOMAIN iQueue : iQueue'[i] = iQueue[i]
      /\ iQueue'[Len(iQueue) + 1] = call
  BY <1>1, <1>2, Queueing DEF Inv
<1>4. m \notin Messages
  BY Values
<1>5. LastCall'
  BY <1>1, <1>2, <1>3, <1>4 DEF Inv, LastCall
<1>6. \A c \in Calls : status'[c] = IF c = m THEN "waiting" ELSE status[c]
  BY <1>1 DEF Inv, TypeOK
<1>7. handling.msg # m /\ \A i \in DOMAIN iQueue : iQueue[i].msg # m
  BY <1>1 DEF Inv, OthersWait
<1>8. OthersWait'
  <2>1. ASSUME NEW i \in DOMAIN iQueue', iQueue'[i].msg \in Calls
        PROVE  /\ status'[iQueue'[i].msg] = "waiting"
               /\ \A j \in DOMAIN iQueue' : iQueue'[j].msg = iQueue'[i].msg => j = i
               /\ iQueue'[i].msg # handling.msg
    <3>1. CASE i = Len(iQueue) + 1
      BY <1>2, <1>3, <1>6, <1>7, <3>1
    <3>2. CASE i \in DOMAIN iQueue
      BY <1>2, <1>3, <1>6, <1>7, <2>1, <3>2 DEF Inv, OthersWait
    <3> QED
      BY <1>3, <3>1, <3>2
  <2>2. ASSUME handling.msg \in Calls
        PROVE  /\ status'[handling.msg] = "waiting"
               /\ \A i \in DOMAIN iQueue' : iQueue'[i].msg # handling.msg
    BY <1>2, <1>3, <1>6, <1>7, <2>2 DEF Inv, OthersWait
  <2> QED
    BY <1>1, <2>1, <2>2 DEF OthersWait
<1> QED
  BY <1>5, <1>8

\* The goroutine of the ingress takes the calls in order.
LEMMA CallsHandled ==
  ASSUME Inv, Handle
  PROVE  LastCall' /\ OthersWait'
<1>1. /\ handling = Nothing /\ iQueue # <<>> /\ handling' = Head(iQueue) /\ iQueue' = Tail(iQueue)
      /\ UNCHANGED <<current, rpc, status>>
  BY DEF Handle, egressVars
<1>2. /\ handling' = iQueue[1] /\ 1 \in DOMAIN iQueue
      /\ \A i \in DOMAIN iQueue' :
           i \in Nat \ {0} /\ i + 1 \in DOMAIN iQueue /\ iQueue'[i] = iQueue[i + 1]
      /\ Len(iQueue') = Len(iQueue) - 1 /\ iQueue' \in Seq(Call)
  BY <1>1, NextCall DEF Inv
<1>3. /\ Len(iQueue) \in Nat /\ DOMAIN iQueue = 1 .. Len(iQueue)
      /\ DOMAIN iQueue' = 1 .. Len(iQueue')
  BY <1>2, LenProperties DEF Inv, TypeOK
<1>4. ~handling.live
  BY <1>1, Values
<1>5. LastCall'
  <2>1. ASSUME NEW i \in DOMAIN iQueue', iQueue'[i].live
        PROVE  /\ rpc = "open" /\ iQueue'[i].msg = current
               /\ \A j \in DOMAIN iQueue' : j > i => iQueue'[j].msg \notin Messages
    <3>1. i + 1 \in DOMAIN iQueue /\ iQueue[i + 1].live
      BY <1>2, <2>1
    <3>2. /\ rpc = "open" /\ iQueue[i + 1].msg = current
          /\ \A j \in DOMAIN iQueue : j > i + 1 => iQueue[j].msg \notin Messages
      BY <3>1 DEF Inv, LastCall
    <3>3. \A j \in DOMAIN iQueue' : j > i => j + 1 \in DOMAIN iQueue /\ j + 1 > i + 1
      BY <1>2
    <3> QED
      BY <1>2, <3>2, <3>3
  <2>2. handling'.live =>
          /\ rpc = "open" /\ handling'.msg = current
          /\ \A j \in DOMAIN iQueue' : iQueue'[j].msg \notin Messages
    <3>1. \A j \in DOMAIN iQueue' : j + 1 \in DOMAIN iQueue /\ j + 1 > 1
      BY <1>2
    <3> QED
      BY <1>2, <3>1 DEF Inv, LastCall
  <2>3. rpc = "open" => handling'.live \/ \E i \in DOMAIN iQueue' : iQueue'[i].live
    <3> SUFFICES ASSUME rpc = "open" PROVE handling'.live \/ \E i \in DOMAIN iQueue' : iQueue'[i].live
      OBVIOUS
    <3>1. PICK i \in DOMAIN iQueue : iQueue[i].live
      BY <1>4 DEF Inv, LastCall
    <3>2. CASE i = 1
      BY <1>2, <3>1, <3>2
    <3>3. CASE i # 1
      <4>1. i - 1 \in DOMAIN iQueue' /\ (i - 1) + 1 = i
        BY <1>2, <1>3, <3>3
      <4>2. iQueue'[i - 1].live
        BY <1>2, <3>1, <4>1
      <4> QED
        BY <4>1, <4>2
    <3> QED
      BY <3>2, <3>3
  <2>4. rpc = "answered" =>
          /\ handling'.msg \notin Messages
          /\ \A j \in DOMAIN iQueue' : iQueue'[j].msg \notin Messages
    BY <1>2 DEF Inv, LastCall
  <2> QED
    BY <1>1, <2>1, <2>2, <2>3, <2>4 DEF LastCall
<1>6. OthersWait'
  <2>1. ASSUME NEW i \in DOMAIN iQueue', iQueue'[i].msg \in Calls
        PROVE  /\ status[iQueue'[i].msg] = "waiting" /\ iQueue'[i].msg # handling'.msg
               /\ \A j \in DOMAIN iQueue' : iQueue'[j].msg = iQueue'[i].msg => j = i
    <3>1. i + 1 \in DOMAIN iQueue /\ i + 1 # 1 /\ i \in Nat /\ iQueue[i + 1].msg \in Calls
      BY <1>2, <2>1
    <3>2. /\ status[iQueue[i + 1].msg] = "waiting"
          /\ \A j \in DOMAIN iQueue : iQueue[j].msg = iQueue[i + 1].msg => j = i + 1
      BY <3>1 DEF Inv, OthersWait
    <3>3. \A j \in DOMAIN iQueue' : iQueue'[j].msg = iQueue'[i].msg => j + 1 = i + 1 /\ j \in Nat
      BY <1>2, <3>2
    <3> QED
      BY <1>2, <3>1, <3>2, <3>3
  <2>2. handling'.msg \in Calls => status[handling'.msg] = "waiting"
    BY <1>2 DEF Inv, OthersWait
  <2> QED
    BY <1>1, <2>1, <2>2 DEF OthersWait
<1> QED
  BY <1>5, <1>6

\* When the goroutine is done with a call, its caller, if it waits, has an answer.
LEMMA CallsDone ==
  ASSUME Inv, Publish \/ SkipEmpty
  PROVE  LastCall' /\ OthersWait'
<1>1. /\ handling # Nothing /\ handling' = Nothing /\ UNCHANGED <<iQueue, current>>
      /\ handling \in Call /\ ~handling'.live /\ handling'.msg = "none"
  BY Values DEF Publish, SkipEmpty, egressVars, Inv, TypeOK
<1>2. handling'.msg \notin Messages /\ handling'.msg \notin Calls
  BY <1>1, Values
<1>3. /\ handling.live => rpc' = "answered" /\ kind[handling.msg] # "empty"
      /\ ~handling.live => rpc' = rpc
  <2>1. CASE Publish
    BY <2>1 DEF Publish
  <2>2. CASE SkipEmpty
    <3>1. kind \in Kinds /\ kind[handling.msg] = "empty" /\ rpc' = rpc
      BY <2>2 DEF SkipEmpty, egressVars, Inv, TypeOK
    <3>2. handling.msg \notin Messages
      BY <3>1, HopAssumption
    <3>3. ~handling.live
      BY <3>2, <1>1 DEF Inv, LastCall, Busy, TypeOK
    <3> QED
      BY <3>1, <3>3
  <2> QED
    BY <2>1, <2>2
<1>4. LastCall'
  <2>1. CASE handling.live
    <3>1. \A j \in DOMAIN iQueue : iQueue[j].msg \notin Messages
      BY <2>1 DEF Inv, LastCall
    <3>2. current \in Messages
      BY <2>1 DEF Inv, LastCall, TypeOK, Busy
    <3>3. \A j \in DOMAIN iQueue : ~iQueue[j].live
      BY <3>1, <3>2 DEF Inv, LastCall
    <3> QED
      BY <1>1, <1>2, <1>3, <2>1, <3>1, <3>3 DEF LastCall
  <2>2. CASE ~handling.live
    BY <1>1, <1>2, <1>3, <2>2 DEF Inv, LastCall
  <2> QED
    BY <2>1, <2>2
<1>5. OthersWait'
  <2>1. \A c \in Calls : c # handling.msg => status'[c] = status[c]
    BY DEF Publish, SkipEmpty
  <2>2. \A i \in DOMAIN iQueue : iQueue[i].msg \in Calls => iQueue[i].msg # handling.msg
    BY DEF Inv, OthersWait
  <2> QED
    BY <1>1, <1>2, <2>1, <2>2 DEF Inv, OthersWait
<1> QED
  BY <1>4, <1>5

\* Abandoned calls are nobody's last call, and keep others waiting.
LEMMA CallsAbandoned ==
  ASSUME Inv, NoneLive, rpc' \notin {"open", "answered"}, UNCHANGED status
  PROVE  LastCall' /\ OthersWait'
<1>1. /\ DOMAIN iQueue' = DOMAIN iQueue
      /\ \A i \in DOMAIN iQueue : iQueue'[i].msg = iQueue[i].msg /\ ~iQueue'[i].live
      /\ handling'.msg = handling.msg /\ ~handling'.live
  BY Abandoning DEF Inv, TypeOK
<1>2. LastCall'
  BY <1>1, NobodyWaits
<1>3. OthersWait'
  BY <1>1 DEF Inv, OthersWait
<1> QED
  BY <1>2, <1>3

\* All steps keep the order of calls.
LEMMA CallsNext ==
  ASSUME Inv, Next
  PROVE  LastCall' /\ OthersWait'
<1>1. CASE Egress
  <2>1. CASE CallIngress
    BY <2>1, CallsFromEgress
  <2>2. CASE ~CallIngress
    <3>1. UNCHANGED <<iQueue, handling, status>>
      BY <1>1, <2>2 DEF Egress, Listen, DeliveriesClosed, TakeSilent, Take, CallFails, Returns, Settle,
                        ingressVars
    <3>2. \/ UNCHANGED <<rpc, current>>
          \/ rpc = "none" /\ rpc' = "none"
          \/ rpc = "answered" /\ rpc' = "none"
      BY <1>1, <2>2 DEF Egress, Listen, DeliveriesClosed, TakeSilent, Take, CallFails, AttemptFails,
                        Returns, Settle, Inv, TypeOK
    <3>3. CASE rpc = "answered" /\ rpc' = "none"
      <4>1. ~handling.live /\ \A i \in DOMAIN iQueue : ~iQueue[i].live
        BY <3>3 DEF Inv, LastCall
      <4> QED
        BY <3>1, <3>3, <4>1, CallsKept DEF LastCall
    <3> QED
      BY <3>1, <3>2, <3>3, CallsKept
  <2> QED
    BY <2>1, <2>2
<1>2. CASE IngressEnds
  <2>1. iQueue' = <<>> /\ handling' = Nothing /\ rpc' \in {"none", "hung"}
    BY <1>2, Ending DEF Inv
  <2>2. DOMAIN iQueue' = {} /\ ~handling'.live /\ handling'.msg \notin Calls
    BY <2>1, Values
  <2>3. LastCall'
    BY <2>1, <2>2, NobodyWaits
  <2> QED
    BY <2>2, <2>3 DEF OthersWait
<1>3. CASE CallBreaks \/ CallHangs \/ Restart
  <2>1. NoneLive /\ rpc' \in {"none", "hung"} /\ status' = status
    BY <1>3 DEF CallBreaks, CallHangs, Restart, AttemptFails
  <2> QED
    BY <2>1, CallsAbandoned
<1>4. CASE UNCHANGED <<iQueue, handling, rpc, current, status>>
  BY <1>4, CallsKept
<1>5. CASE Client \/ IngressStarts \/ \E c \in Connections :
             Arrive(c) \/ SessionEnds(c) \/ \E m \in Messages : Deliver(c, m)
  <2>1. UNCHANGED <<iQueue, handling, rpc, current, status>>
    BY <1>5 DEF Client, IngressStarts, Arrive, SessionEnds, Deliver, egressVars, ingressVars
  <2> QED
    BY <1>4, <2>1
<1> QED
  BY <1>1, <1>2, <1>3, <1>5, CallsFromOthers, CallsHandled, CallsDone
     DEF Next, Ingress, Panic, IngressStops

------------------------------------------------------------------------------
(***************************************************************************)
(* What is acknowledged is published.                                      *)
(***************************************************************************)
\* No step takes a publication back.
LEMMA PublishedGrows ==
  ASSUME Inv, Next
  PROVE  \A m \in Messages : published[m] > 0 => published'[m] > 0
<1>1. CASE Publish
  <2>1. handling.msg \in Messages \cup Calls
    BY <1>1, Values DEF Publish, Inv, TypeOK
  <2> QED
    BY <1>1, <2>1 DEF Publish, Inv, TypeOK
<1>2. CASE ~Publish
  <2>1. published' = published
    <3> USE DEF ingressVars
    <3>1. CASE Client \/ Egress
      BY <3>1 DEF Client, Egress, Listen, DeliveriesClosed, TakeSilent, Take, CallIngress, CallFails,
                  Returns, Settle
    <3>2. CASE Ingress
      BY <1>2, <3>2 DEF Ingress, Handle, SkipEmpty, Panic, IngressStarts, IngressEnds
    <3>3. CASE \E c \in Connections : Arrive(c) \/ SessionEnds(c) \/ \E m \in Messages : Deliver(c, m)
      BY <3>3 DEF Arrive, SessionEnds, Deliver
    <3>4. CASE (\E m \in Calls : CallOther(m)) \/ IngressStops \/ CallBreaks \/ CallHangs \/ Restart
      BY <3>4 DEF CallOther, IngressStops, IngressEnds, CallBreaks, CallHangs, Restart
    <3> QED
      BY <3>1, <3>2, <3>3, <3>4 DEF Next
  <2> QED
    BY <2>1
<1> QED
  BY <1>1, <1>2

\* An acknowledgement follows its message's publication all the way.
LEMMA SentNext ==
  ASSUME Inv, Next
  PROVE  SentIsPublished'
<1> USE DEF Inv
<1>1. \A m \in Messages : published[m] > 0 => published'[m] > 0
  BY PublishedGrows
<1>2. wire \in [Connections -> Seq(Frame)]
  BY DEF TypeOK, AmqpTypeOK
<1>3. \A c \in Connections : \A i \in DOMAIN wire[c] : wire[c][i].msg \in Messages
  BY <1>2, OnWire, Values
<1>4. \A m \in Messages : settled[m] = "acked" => published'[m] > 0
  BY <1>1 DEF SentIsPublished
<1>5. \A c \in Connections : \A i \in DOMAIN wire[c] :
        wire[c][i].kind = "ack" => published'[wire[c][i].msg] > 0
  BY <1>1, <1>3 DEF SentIsPublished
<1>6. pc = "sent" \/ rpc = "answered" => current \in Messages /\ published'[current] > 0
  BY <1>1 DEF SentIsPublished, Busy, TypeOK
<1>7. ASSUME \/ settled' = settled /\ wire' = wire
             \/ \E c \in Connections : Arrive(c) \/ SessionEnds(c)
             \/ Settle
      PROVE  /\ \A m \in Messages : settled'[m] = "acked" => published'[m] > 0
             /\ \A c \in Connections : \A i \in DOMAIN wire'[c] :
                  wire'[c][i].kind = "ack" => published'[wire'[c][i].msg] > 0
  <2>1. CASE settled' = settled /\ wire' = wire
    BY <1>4, <1>5, <2>1
  <2>2. ASSUME NEW c \in Connections, Arrive(c)
        PROVE  /\ \A m \in Messages : settled'[m] = "acked" => published'[m] > 0
               /\ \A d \in Connections : \A i \in DOMAIN wire'[d] :
                    wire'[d][i].kind = "ack" => published'[wire'[d][i].msg] > 0
    <3> DEFINE f == Head(wire[c])
    <3>1. wire[c] # <<>> /\ wire' = [wire EXCEPT ![c] = Tail(@)]
      BY <2>2 DEF Arrive
    <3>2. /\ f = wire[c][1] /\ 1 \in DOMAIN wire[c] /\ f \in Frame
          /\ \A d \in Connections \ {c} : wire'[d] = wire[d]
          /\ \A i \in DOMAIN wire'[c] : i + 1 \in DOMAIN wire[c] /\ wire'[c][i] = wire[c][i + 1]
      BY <1>2, <3>1, Arriving
    <3>3. settled' = [settled EXCEPT ![f.msg] = IF f.kind = "ack" THEN "acked" ELSE "nacked"]
      BY <2>2 DEF Arrive
    <3>4. f.msg \in Messages /\ (f.kind = "ack" => published'[f.msg] > 0)
      BY <1>5, <3>2, Values
    <3> HIDE DEF f
    <3>5. \A m \in Messages : settled'[m] = "acked" => published'[m] > 0
      BY <1>4, <3>3, <3>4 DEF TypeOK
    <3>6. \A d \in Connections : \A i \in DOMAIN wire'[d] :
            \E j \in DOMAIN wire[d] : wire'[d][i] = wire[d][j]
      BY <3>2
    <3> QED
      BY <1>5, <3>5, <3>6
  <2>3. ASSUME NEW c \in Connections, SessionEnds(c)
        PROVE  /\ \A m \in Messages : settled'[m] = "acked" => published'[m] > 0
               /\ \A d \in Connections : \A i \in DOMAIN wire'[d] :
                    wire'[d][i].kind = "ack" => published'[wire'[d][i].msg] > 0
    BY <1>2, <1>4, <1>5, <2>3 DEF SessionEnds, EndSession
  <2>4. CASE Settle
    <3>1. settled' = settled
      BY <2>4 DEF Settle, brokerVars
    <3>2. PICK v \in {"ack", "nack"} : Answer(v) /\ (v = "ack" => pc = "sent")
      BY <2>4 DEF Settle
    <3>3. CASE SourceClosed
      BY <1>4, <1>5, <3>1, <3>2, <3>3 DEF Answer
    <3>4. CASE ~SourceClosed
      <4> DEFINE f == [kind |-> v, msg |-> current]
      <4>1. source \in Connections /\ current \in Messages
        BY <2>4, <3>4 DEF Settle, SourceClosed, ClientOK, Numbered, Busy, TypeOK, AmqpTypeOK
      <4>2. f \in Frame /\ Send(source, f) /\ f.kind = v /\ f.msg = current
        BY <3>2, <3>4, <4>1, Values DEF Answer
      <4> HIDE DEF f
      <4>3. \A d \in Connections : \A i \in DOMAIN wire'[d] :
              \/ i \in DOMAIN wire[d] /\ wire'[d][i] = wire[d][i]
              \/ wire'[d][i] = f
        BY <1>2, <4>1, <4>2, Sending
      <4>4. v = "ack" => published'[current] > 0
        BY <1>6, <3>2
      <4> QED
        BY <1>4, <1>5, <3>1, <4>2, <4>3, <4>4
    <3> QED
      BY <3>3, <3>4
  <2> QED
    BY <1>7, <2>1, <2>2, <2>3, <2>4
<1>8. pc' = "sent" \/ rpc' = "answered" => published'[current'] > 0
  <2>1. CASE Egress
    BY <1>6, <2>1 DEF Egress, Listen, DeliveriesClosed, TakeSilent, Take, CallIngress, CallFails,
                      AttemptFails, Returns, Settle, TypeOK
  <2>2. CASE Publish
    <3>1. handling.msg \in Messages \cup Calls /\ pc' = pc /\ current' = current
      BY <2>2, Values DEF Publish, TypeOK
    <3>2. CASE handling.live
      <4>1. handling.msg = current /\ rpc = "open"
        BY <3>2 DEF LastCall
      <4>2. published'[current] = published[current] + 1
        BY <2>2, <3>1, <4>1 DEF Publish, TypeOK
      <4>3. published[current] \in Nat
        BY <3>1, <4>1 DEF TypeOK
      <4> QED
        BY <3>1, <4>2, <4>3
    <3>3. CASE ~handling.live
      BY <1>6, <2>2, <3>1, <3>3 DEF Publish
    <3> QED
      BY <3>2, <3>3
  <2>3. CASE IngressEnds
    <3>1. rpc' \in {"none", "hung"} /\ current' = current /\ (pc' = "sent" => pc = "sent")
      BY <2>3, Ending DEF IngressEnds
    <3> QED
      BY <1>6, <3>1
  <2>4. CASE CallBreaks \/ CallHangs \/ Restart
    BY <1>6, <2>4 DEF CallBreaks, CallHangs, Restart, AttemptFails
  <2>5. CASE UNCHANGED <<pc, rpc, current>>
    BY <1>6, <2>5
  <2>6. CASE \/ Client \/ Handle \/ SkipEmpty \/ IngressStarts \/ \E m \in Calls : CallOther(m)
             \/ \E c \in Connections : Arrive(c) \/ SessionEnds(c) \/ \E m \in Messages : Deliver(c, m)
    <3>1. UNCHANGED <<pc, rpc, current>>
      BY <2>6 DEF Client, Handle, SkipEmpty, IngressStarts, CallOther, Arrive, SessionEnds, Deliver,
                  egressVars
    <3> QED
      BY <2>5, <3>1
  <2> QED
    BY <2>1, <2>2, <2>3, <2>4, <2>6 DEF Next, Ingress, Panic, IngressStops
<1>9. \/ settled' = settled /\ wire' = wire
      \/ \E c \in Connections : Arrive(c) \/ SessionEnds(c)
      \/ Settle
  <2> USE DEF amqpVars, clientVars, brokerVars
  <2>1. CASE Client
    <3>1. wire' = wire
      BY <2>1, ClientSteps DEF Client, ClientOK, TypeOK
    <3> QED
      BY <2>1, <3>1 DEF Client
  <2>2. CASE Egress
    BY <2>2 DEF Egress, Listen, DeliveriesClosed, TakeSilent, Take, CallIngress, CallFails, Returns
  <2>3. CASE Ingress \/ IngressStops
    BY <2>3 DEF Ingress, Handle, Publish, SkipEmpty, Panic, IngressStarts, IngressEnds, IngressStops
  <2>4. CASE \E c \in Connections : \E m \in Messages : Deliver(c, m)
    BY <2>4 DEF Deliver
  <2>5. CASE (\E m \in Calls : CallOther(m)) \/ CallBreaks \/ CallHangs \/ Restart
    BY <2>5 DEF CallOther, CallBreaks, CallHangs, Restart, RestartClient
  <2> QED
    BY <2>1, <2>2, <2>3, <2>4, <2>5 DEF Next
<1> QED
  BY <1>7, <1>8, <1>9 DEF SentIsPublished

------------------------------------------------------------------------------
(***************************************************************************)
(* What is given up.                                                       *)
(***************************************************************************)
\* Only a fault, or an ingress that has been down, makes the egress give up on a
\* certificate it has.
LEMMA GivesUpNext ==
  ASSUME Inv, Next
  PROVE  GivesUpForReason'
<1> USE DEF Inv
<1>1. breaks \in Nat
  BY HopAssumption DEF TypeOK
<1>2. CASE IngressEnds
  BY <1>2, Ending DEF GivesUpForReason
<1>3. CASE CallFails
  <2>1. pool # NoClient /\ ~Reachable /\ pool' = [pool EXCEPT !.state = "failing"]
        /\ UNCHANGED <<serving, fell, breaks>>
    BY <1>3 DEF CallFails, Busy, ingressVars
  <2>2. pool'.cert = pool.cert
    BY <2>1, ClientsHaveCerts
  <2> QED
    BY <2>1, <2>2 DEF GivesUpForReason, Reachable
<1>4. ASSUME breaks' = breaks + 1, UNCHANGED <<serving, fell>>
      PROVE  GivesUpForReason'
  BY <1>1, <1>4 DEF GivesUpForReason
<1>5. CASE CallBreaks \/ CallHangs
  <2>1. breaks' = breaks + 1 /\ UNCHANGED <<serving, fell>>
    BY <1>5 DEF CallBreaks, CallHangs, Break
  <2> QED
    BY <1>4, <2>1
<1>6. CASE IngressStarts
  BY <1>6 DEF IngressStarts, GivesUpForReason
<1>7. ASSUME UNCHANGED <<serving, fell, breaks>>,
             pc' = "failed" => pc = "failed" /\ pool' = pool
      PROVE  GivesUpForReason'
  BY <1>7 DEF GivesUpForReason
<1>8. CASE Egress /\ ~CallFails
  <2>1. UNCHANGED <<serving, fell, breaks>>
    BY <1>8 DEF Egress, Listen, DeliveriesClosed, TakeSilent, Take, CallIngress, Returns, Settle,
                ingressVars
  <2>2. pc' # "failed"
    BY <1>8 DEF Egress, Listen, DeliveriesClosed, TakeSilent, Take, CallIngress, Returns, Settle
  <2> QED
    BY <1>7, <2>1, <2>2
<1>9. CASE \/ Client \/ Handle \/ Publish \/ SkipEmpty \/ Restart \/ \E m \in Calls : CallOther(m)
           \/ \E c \in Connections : Arrive(c) \/ SessionEnds(c) \/ \E m \in Messages : Deliver(c, m)
  <2>1. UNCHANGED <<serving, fell, breaks>> /\ (pc' = "failed" => pc = "failed" /\ pool' = pool)
    BY <1>9 DEF Client, Handle, Publish, SkipEmpty, Restart, CallOther, Arrive, SessionEnds, Deliver,
                egressVars, ingressVars
  <2> QED
    BY <1>7, <2>1
<1> QED
  BY <1>2, <1>3, <1>5, <1>6, <1>8, <1>9 DEF Next, Ingress, Panic, IngressStops

------------------------------------------------------------------------------
(***************************************************************************)
(* How often a message is published.                                       *)
(***************************************************************************)
\* All these are numbers, before a step and after it.
LEMMA Numbers ==
  ASSUME TypeOK, TypeOK', ClientOK, ClientOK', NEW m \in Messages
  PROVE  /\ IsFiniteSet(Row(m)) /\ Cardinality(Row(m)) \in Nat
         /\ IsFiniteSet(Row(m)') /\ Cardinality(Row(m)') \in Nat
         /\ IsFiniteSet(Lost) /\ Cardinality(Lost) \in Nat
         /\ IsFiniteSet(Lost') /\ Cardinality(Lost') \in Nat
         /\ published[m] \in Nat /\ published'[m] \in Nat
         /\ Pending(m) \in Nat /\ Pending(m)' \in Nat /\ Tries(m) \in Nat /\ Tries(m)' \in Nat
         /\ Underway(m) \in Nat /\ Underway(m)' \in Nat /\ Hopes(m) \in Nat /\ Hopes(m)' \in Nat
         /\ Top \in Nat /\ Top' \in Nat /\ breaks \in Nat /\ breaks' \in Nat
         /\ Causes \in Nat /\ Causes' \in Nat
<1>1. iQueue \in Seq(Call) /\ iQueue' \in Seq(Call)
  BY DEF TypeOK
<1>2. /\ Len(iQueue) \in Nat /\ DOMAIN iQueue = 1 .. Len(iQueue)
      /\ Len(iQueue') \in Nat /\ DOMAIN iQueue' = 1 .. Len(iQueue')
  BY <1>1, LenProperties
<1>3. IsFiniteSet(Row(m)) /\ Cardinality(Row(m)) \in Nat
  <2>1. Row(m) \subseteq 1 .. Len(iQueue)
    BY <1>2 DEF Row
  <2>2. IsFiniteSet(1 .. Len(iQueue))
    <3>1. 1 \in Int /\ Len(iQueue) \in Int
      BY <1>2
    <3> QED
      BY <3>1, FS_Interval
  <2>3. IsFiniteSet(Row(m))
    BY <2>1, <2>2, FS_Subset
  <2> QED
    BY <2>3, FS_CardinalityType
<1>4. IsFiniteSet(Row(m)') /\ Cardinality(Row(m)') \in Nat
  <2>1. Row(m)' \subseteq 1 .. Len(iQueue')
    BY <1>2 DEF Row
  <2>2. IsFiniteSet(1 .. Len(iQueue'))
    <3>1. 1 \in Int /\ Len(iQueue') \in Int
      BY <1>2
    <3> QED
      BY <3>1, FS_Interval
  <2>3. IsFiniteSet(Row(m)')
    BY <2>1, <2>2, FS_Subset
  <2> QED
    BY <2>3, FS_CardinalityType
<1>5. IsFiniteSet(Lost) /\ Cardinality(Lost) \in Nat
  <2>1. Lost \subseteq Calls
    BY DEF Lost, Roleless
  <2>2. IsFiniteSet(Lost)
    BY <2>1, HopAssumption, FS_Subset
  <2> QED
    BY <2>2, FS_CardinalityType
<1>6. IsFiniteSet(Lost') /\ Cardinality(Lost') \in Nat
  <2>1. Lost' \subseteq Calls
    BY DEF Lost, Roleless
  <2>2. IsFiniteSet(Lost')
    BY <2>1, HopAssumption, FS_Subset
  <2> QED
    BY <2>2, FS_CardinalityType
<1>7. published[m] \in Nat /\ published'[m] \in Nat /\ breaks \in Nat /\ breaks' \in Nat
  BY HopAssumption DEF TypeOK
<1>8. Top \in Nat /\ Top' \in Nat
  <2>1. PICK n \in 0 .. MaxConnection : Dialled(n)'
    BY DEF ClientOK, Numbered
  <2> QED
    BY <2>1, TopIs, TopFacts, Connecting DEF ClientOK
<1>9. Pending(m) \in Nat /\ Pending(m)' \in Nat /\ Tries(m) \in Nat /\ Tries(m)' \in Nat
  <2>1. Pending(m) \in Nat /\ Pending(m)' \in Nat
    BY <1>3, <1>4 DEF Pending
  <2> QED
    BY <1>7, <2>1 DEF Tries
<1>10. Underway(m) \in Nat /\ Underway(m)' \in Nat /\ Hopes(m) \in Nat /\ Hopes(m)' \in Nat
  <2>1. Underway(m) \in Nat /\ Underway(m)' \in Nat
    BY DEF Underway
  <2> QED
    BY <2>1 DEF Hopes
<1>11. Causes \in Nat /\ Causes' \in Nat
  BY <1>5, <1>6, <1>7, <1>8 DEF Causes
<1> QED
  BY <1>3, <1>4, <1>5, <1>6, <1>7, <1>8, <1>9, <1>10, <1>11

\* The last connection may deliver as before.
LEMMA SameFresh ==
  ASSUME NEW m, Top' = Top, UNCHANGED <<session, settled, unacked>>
  PROVE  Fresh(m)' <=> Fresh(m)
BY DEF Fresh

\* Fewer calls that failed, or more.
LEMMA MoreLost ==
  ASSUME TypeOK, TypeOK', kind' = kind, \A c \in Calls : status[c] = "error" => status'[c] = "error"
  PROVE  /\ Lost \subseteq Lost' /\ Cardinality(Lost) <= Cardinality(Lost')
         /\ \A c \in Lost' \ Lost : Cardinality(Lost) + 1 <= Cardinality(Lost')
<1>1. Lost \subseteq Lost' /\ Lost' \subseteq Calls
  BY DEF Lost, Roleless
<1>2. IsFiniteSet(Lost')
  BY <1>1, HopAssumption, FS_Subset
<1>3. IsFiniteSet(Lost) /\ Cardinality(Lost) <= Cardinality(Lost')
  BY <1>1, <1>2, FS_Subset
<1>4. Cardinality(Lost) \in Nat
  BY <1>3, FS_CardinalityType
<1>5. ASSUME NEW c \in Lost' \ Lost
      PROVE  Cardinality(Lost) + 1 <= Cardinality(Lost')
  <2>1. Lost \cup {c} \subseteq Lost' /\ Cardinality(Lost \cup {c}) = Cardinality(Lost) + 1
    BY <1>1, <1>3, FS_AddElement
  <2>2. Cardinality(Lost \cup {c}) <= Cardinality(Lost')
    BY <1>2, <2>1, FS_Subset
  <2> QED
    BY <2>1, <2>2
<1> QED
  BY <1>1, <1>3, <1>5

\* A call behind the others counts for its message.
LEMMA RowQueueing ==
  ASSUME TypeOK, NEW call \in Call, iQueue' = Append(iQueue, call), NEW m \in Messages,
         IsFiniteSet(Row(m))
  PROVE  Cardinality(Row(m)') = Cardinality(Row(m)) + (IF call.msg = m THEN 1 ELSE 0)
<1> DEFINE n == Len(iQueue) + 1
<1>1. /\ Len(iQueue) \in Nat /\ DOMAIN iQueue = 1 .. Len(iQueue)
      /\ DOMAIN iQueue' = DOMAIN iQueue \cup {n}
      /\ \A i \in DOMAIN iQueue : iQueue'[i] = iQueue[i]
      /\ iQueue'[n] = call
  BY Queueing
<1>2. n \notin DOMAIN iQueue
  BY <1>1
<1> HIDE DEF n
<1>3. CASE call.msg = m
  <2>1. Row(m)' = Row(m) \cup {n} /\ n \notin Row(m)
    BY <1>1, <1>2, <1>3 DEF Row
  <2> QED
    BY <1>3, <2>1, FS_AddElement
<1>4. CASE call.msg # m
  <2>1. Row(m)' = Row(m)
    BY <1>1, <1>2, <1>4 DEF Row
  <2>2. Cardinality(Row(m)) \in Nat
    BY FS_CardinalityType
  <2> QED
    BY <1>4, <2>1, <2>2
<1> QED
  BY <1>3, <1>4

\* A call that is taken from the front counts no longer.
LEMMA RowTaken ==
  ASSUME TypeOK, iQueue # <<>>, iQueue' = Tail(iQueue), NEW m \in Messages, IsFiniteSet(Row(m))
  PROVE  Cardinality(Row(m)') + (IF Head(iQueue).msg = m THEN 1 ELSE 0) <= Cardinality(Row(m))
<1>1. /\ Head(iQueue) = iQueue[1] /\ 1 \in DOMAIN iQueue
      /\ \A i \in DOMAIN iQueue' :
           i \in Nat \ {0} /\ i + 1 \in DOMAIN iQueue /\ iQueue'[i] = iQueue[i + 1]
  BY NextCall
<1> DEFINE f == [i \in Row(m)' |-> i + 1]
           rest == Row(m) \ {1}
<1>2. \A i \in Row(m)' : i \in Nat \ {0} /\ i + 1 \in rest
  BY <1>1 DEF Row
<1>3. f \in Injection(Row(m)', rest)
  <2>1. f \in [Row(m)' -> rest]
    BY <1>2
  <2>2. \A i, j \in Row(m)' : f[i] = f[j] => i = j
    BY <1>2
  <2> HIDE DEF f, rest
  <2>3. DOMAIN f = Row(m)'
    BY <2>1
  <2> QED
    BY <2>1, <2>2, <2>3 DEF Injection, IsInjective
<1> HIDE DEF f
<1>4. /\ IsFiniteSet(rest)
      /\ Cardinality(rest) = IF 1 \in Row(m) THEN Cardinality(Row(m)) - 1 ELSE Cardinality(Row(m))
  BY FS_RemoveElement
<1> HIDE DEF rest
<1>5. IsFiniteSet(Row(m)') /\ Cardinality(Row(m)') <= Cardinality(rest)
  BY <1>3, <1>4, FS_Injection
<1>6. /\ Cardinality(Row(m)) \in Nat /\ Cardinality(Row(m)') \in Nat /\ Cardinality(rest) \in Nat
  BY <1>4, <1>5, FS_CardinalityType
<1>7. Head(iQueue).msg = m <=> 1 \in Row(m)
  BY <1>1 DEF Row
<1> QED
  BY <1>4, <1>5, <1>6, <1>7

\* A step that has more causes by as much as there is more to try.
LEMMA CausesKept ==
  ASSUME Inv, TypeOK', ClientOK',
         \A m \in Messages : Tries(m)' + Hopes(m)' + Causes <= Tries(m) + Hopes(m) + Causes'
  PROVE  CopiesHaveCauses'
<1> SUFFICES ASSUME NEW m \in Messages PROVE Tries(m)' + Hopes(m)' <= Causes'
  BY DEF CopiesHaveCauses
<1>1. /\ Tries(m) \in Nat /\ Tries(m)' \in Nat /\ Hopes(m) \in Nat /\ Hopes(m)' \in Nat
      /\ Causes \in Nat /\ Causes' \in Nat
  BY Numbers DEF Inv
<1>2. Tries(m) + Hopes(m) <= Causes
  BY DEF Inv, CopiesHaveCauses
<1> QED
  BY <1>1, <1>2

\* A connection dialled may deliver once more what waits.
LEMMA CausesClient ==
  ASSUME Inv, TypeOK', ClientOK', Client
  PROVE  CopiesHaveCauses'
<1> SUFFICES ASSUME NEW m \in Messages
             PROVE  Tries(m)' + Hopes(m)' + Causes <= Tries(m) + Hopes(m) + Causes'
  BY CausesKept
<1>1. UNCHANGED <<settled, unacked, iQueue, handling, published, inbox, current, pc, kind, status, breaks>>
  BY DEF Client, brokerVars, egressVars, ingressVars
<1>2. Tries(m)' = Tries(m) /\ Underway(m)' = Underway(m) /\ Lost' = Lost
  BY <1>1 DEF Tries, Pending, Row, Underway, Lost, Roleless
<1>3. \/ session' = session /\ Top' = Top
      \/ Top' = Top + 1
  BY ClientSteps DEF Client, ClientOK, Inv, TypeOK
<1>4. /\ Tries(m) \in Nat /\ Underway(m) \in Nat /\ Top \in Nat /\ Cardinality(Lost) \in Nat
      /\ breaks \in Nat
  BY Numbers DEF Inv
<1>5. CASE session' = session /\ Top' = Top
  <2>1. Fresh(m)' <=> Fresh(m)
    BY <1>1, <1>5, SameFresh
  <2> QED
    BY <1>1, <1>2, <1>4, <1>5, <2>1 DEF Hopes, Causes
<1>6. CASE Top' = Top + 1
  <2>1. Hopes(m)' <= Hopes(m) + 1 /\ Hopes(m) \in Nat /\ Hopes(m)' \in Nat
    BY <1>2, <1>4 DEF Hopes
  <2>2. Causes' = Causes + 1 /\ Causes \in Nat
    BY <1>1, <1>2, <1>4, <1>6 DEF Causes
  <2> QED
    BY <1>2, <1>4, <2>1, <2>2
<1> QED
  BY <1>3, <1>5, <1>6

\* The egress hands over what it has, or lets go of it.
LEMMA CausesEgress ==
  ASSUME Inv, TypeOK', ClientOK', Top' = Top, Egress
  PROVE  CopiesHaveCauses'
<1> SUFFICES ASSUME NEW m \in Messages
             PROVE  Tries(m)' + Hopes(m)' + Causes <= Tries(m) + Hopes(m) + Causes'
  BY CausesKept
<1>1. UNCHANGED <<session, settled, unacked, handling, published, kind, status, breaks>>
  BY DEF Egress, Listen, DeliveriesClosed, TakeSilent, Take, CallIngress, CallFails, Returns, Settle,
         amqpVars, brokerVars, ingressVars
<1>2. Fresh(m)' <=> Fresh(m)
  BY <1>1, SameFresh
<1>3. Lost' = Lost
  BY <1>1 DEF Lost, Roleless
<1>4. /\ Tries(m) \in Nat /\ Underway(m) \in Nat /\ Underway(m)' \in Nat /\ Top \in Nat
      /\ Cardinality(Lost) \in Nat /\ breaks \in Nat /\ published[m] \in Nat
      /\ Cardinality(Row(m)) \in Nat /\ IsFiniteSet(Row(m))
  BY Numbers DEF Inv
<1>5. Causes' = Causes /\ Causes \in Nat
  BY <1>1, <1>3, <1>4 DEF Causes
<1>6. m # "none" /\ m \notin Calls
  BY Values
<1>7. CASE CallIngress
  <2>1. /\ pc = "calling" /\ pc' = "waiting" /\ current \in Messages /\ UNCHANGED <<inbox, current>>
        /\ iQueue' = Append(iQueue, [msg |-> current, live |-> TRUE])
    BY <1>7 DEF CallIngress, Inv, Busy, TypeOK
  <2>2. [msg |-> current, live |-> TRUE] \in Call
    BY <2>1, Values
  <2>3. Cardinality(Row(m)') = Cardinality(Row(m)) + (IF current = m THEN 1 ELSE 0)
    BY <1>4, <2>1, <2>2, RowQueueing DEF Inv
  <2>4. Tries(m)' = Tries(m) + (IF current = m THEN 1 ELSE 0)
    BY <1>1, <1>4, <2>3 DEF Tries, Pending
  <2>5. Underway(m)' + (IF current = m THEN 1 ELSE 0) = Underway(m)
    BY <2>1 DEF Underway
  <2> QED
    BY <1>2, <1>4, <1>5, <2>4, <2>5 DEF Hopes
<1>8. CASE ~CallIngress
  <2>1. iQueue' = iQueue
    BY <1>8 DEF Egress, Listen, DeliveriesClosed, TakeSilent, Take, CallFails, Returns, Settle,
                ingressVars
  <2>2. Tries(m)' = Tries(m)
    BY <1>1, <2>1 DEF Tries, Pending, Row
  <2>3. Underway(m)' <= Underway(m)
    <3>1. CASE Listen \/ DeliveriesClosed
      BY <1>6, <3>1 DEF Listen, DeliveriesClosed, Underway
    <3>2. ASSUME NEW n \in Messages, TakeSilent(n) PROVE Underway(m)' <= Underway(m)
      BY <3>2 DEF TakeSilent, Underway
    <3>3. ASSUME NEW n \in Messages, Take(n) PROVE Underway(m)' <= Underway(m)
      BY <3>3 DEF Take, Underway
    <3>4. CASE CallFails
      BY <3>4 DEF CallFails, Underway
    <3>5. CASE Returns \/ Settle
      BY <1>6, <3>5 DEF Returns, Settle, Underway
    <3> QED
      BY <1>8, <3>1, <3>2, <3>3, <3>4, <3>5 DEF Egress
  <2> QED
    BY <1>2, <1>4, <1>5, <2>2, <2>3 DEF Hopes
<1> QED
  BY <1>7, <1>8

\* The last connection delivers what it may; settling and taking back give it nothing
\* to deliver that it had not.
LEMMA CausesBroker ==
  ASSUME Inv, TypeOK', ClientOK', Top' = Top, NEW c \in Connections,
         Arrive(c) \/ SessionEnds(c) \/ \E m \in Messages : Deliver(c, m)
  PROVE  CopiesHaveCauses'
<1> SUFFICES ASSUME NEW m \in Messages
             PROVE  Tries(m)' + Hopes(m)' + Causes <= Tries(m) + Hopes(m) + Causes'
  BY CausesKept
<1>1. UNCHANGED <<iQueue, handling, published, current, pc, kind, status, breaks>>
  BY DEF Arrive, SessionEnds, Deliver, egressVars, ingressVars
<1>2. Tries(m)' = Tries(m) /\ Lost' = Lost
  BY <1>1 DEF Tries, Pending, Row, Lost, Roleless
<1>3. /\ Tries(m) \in Nat /\ Underway(m) \in Nat /\ Underway(m)' \in Nat /\ Top \in Nat
      /\ Cardinality(Lost) \in Nat /\ breaks \in Nat
  BY Numbers DEF Inv
<1>4. Causes' = Causes /\ Causes \in Nat
  BY <1>1, <1>2, <1>3 DEF Causes
<1>5. Hopes(m)' <= Hopes(m) /\ Hopes(m)' \in Nat /\ Hopes(m) \in Nat
  <2>1. Hopes(m)' \in Nat /\ Hopes(m) \in Nat
    BY <1>3 DEF Hopes
  <2>2. ASSUME Fresh(m)' => Fresh(m), inbox' = inbox PROVE Hopes(m)' <= Hopes(m)
    <3>1. Underway(m)' = Underway(m)
      BY <1>1, <2>2 DEF Underway
    <3> QED
      BY <1>3, <2>2, <3>1 DEF Hopes
  <2>3. CASE Arrive(c)
    <3> DEFINE f == Head(wire[c])
    <3>1. wire[c] # <<>> /\ wire' = [wire EXCEPT ![c] = Tail(@)]
      BY <2>3 DEF Arrive
    <3>2. f \in Frame /\ f.msg \in Messages
      BY <3>1, Arriving, Values DEF Inv, TypeOK, AmqpTypeOK
    <3>3. /\ settled' = [settled EXCEPT ![f.msg] = IF f.kind = "ack" THEN "acked" ELSE "nacked"]
          /\ unacked' = [unacked EXCEPT ![c] = @ \ {f.msg}] /\ UNCHANGED <<session, inbox>>
      BY <2>3 DEF Arrive, egressVars
    <3> HIDE DEF f
    <3>4. CASE f.msg = m
      <4>1. settled'[m] # "no"
        BY <3>2, <3>3, <3>4 DEF Inv, TypeOK
      <4>2. ~Fresh(m)'
        BY <4>1 DEF Fresh
      <4> QED
        BY <2>1, <2>2, <3>3, <4>2
    <3>5. CASE f.msg # m
      <4>1. settled'[m] = settled[m] /\ \A d \in Connections : m \in unacked'[d] <=> m \in unacked[d]
        BY <3>2, <3>3, <3>5 DEF Inv, TypeOK
      <4>2. Top # 0 => Top \in Connections
        BY <1>3, TopFacts, Connecting DEF Inv, ClientOK
      <4>3. Fresh(m)' => Fresh(m)
        BY <3>3, <4>1, <4>2 DEF Fresh
      <4> QED
        BY <2>1, <2>2, <3>3, <4>3
    <3> QED
      BY <3>4, <3>5
  <2>4. CASE SessionEnds(c)
    <3>1. /\ settled' = settled /\ inbox' = inbox
          /\ \A d \in Connections : unacked'[d] = IF d = c THEN {} ELSE unacked[d]
          /\ \A d \in Connections : session'[d] = IF d = c THEN "ended" ELSE session[d]
      BY <2>4 DEF SessionEnds, EndSession, egressVars, Inv, TypeOK, AmqpTypeOK
    <3>2. Top # 0 => Top \in Connections
      BY <1>3, TopFacts, Connecting DEF Inv, ClientOK
    <3>3. Fresh(m)' => Fresh(m)
      BY <3>1, <3>2 DEF Fresh
    <3> QED
      BY <2>1, <2>2, <3>1, <3>3
  <2>5. ASSUME NEW n \in Messages, Deliver(c, n) PROVE Hopes(m)' <= Hopes(m)
    <3>1. /\ UNCHANGED <<settled, session>> /\ session[c] = "open" /\ n \in queue
          /\ \A d \in Connections : unacked'[d] = IF d = c THEN unacked[d] \cup {n} ELSE unacked[d]
          /\ inbox' = IF ~SourceClosed /\ c = source THEN inbox \cup {n} ELSE inbox
      BY <2>5 DEF Deliver, amqpVars, Inv, TypeOK
    <3>2. Top # 0 => Top \in Connections
      BY <1>3, TopFacts, Connecting DEF Inv, ClientOK
    <3>3. Fresh(m)' => Fresh(m)
      BY <3>1, <3>2 DEF Fresh
    <3>4. CASE inbox' = inbox
      BY <2>2, <3>3, <3>4
    <3>5. CASE ~SourceClosed /\ c = source /\ inbox' = inbox \cup {n}
      <4>1. c = Top /\ Top # 0
        BY <3>5, Connecting DEF SourceClosed, Inv, ClientOK, Numbered
      <4>2. CASE m # n
        BY <2>2, <3>3, <3>5, <4>2, <1>1, <1>3 DEF Hopes, Underway
      <4>3. CASE m = n
        <5>1. Fresh(m)
          BY <3>1, <4>1, <4>3 DEF Fresh, Inv, OnePlace
        <5>2. ~Fresh(m)'
          BY <3>1, <4>1, <4>3 DEF Fresh
        <5>3. Underway(m)' <= Underway(m) + 1
          BY <1>1, <3>5, <4>3 DEF Underway
        <5> QED
          BY <1>3, <5>1, <5>2, <5>3 DEF Hopes
      <4> QED
        BY <4>2, <4>3
    <3> QED
      BY <3>1, <3>4, <3>5
  <2> QED
    BY <2>1, <2>3, <2>4, <2>5
<1> QED
  BY <1>2, <1>3, <1>4, <1>5

\* The ingress publishes what it was given, or loses it.
LEMMA CausesIngress ==
  ASSUME Inv, TypeOK', ClientOK', Top' = Top,
         Handle \/ Publish \/ SkipEmpty \/ IngressStarts \/ \E n \in Calls : CallOther(n)
  PROVE  CopiesHaveCauses'
<1> SUFFICES ASSUME NEW m \in Messages
             PROVE  Tries(m)' + Hopes(m)' + Causes <= Tries(m) + Hopes(m) + Causes'
  BY CausesKept
<1>1. UNCHANGED <<session, settled, unacked, inbox, current, pc, kind, breaks>>
  BY DEF Handle, Publish, SkipEmpty, IngressStarts, CallOther, amqpVars, brokerVars, egressVars
<1>2. Hopes(m)' = Hopes(m)
  <2>1. (Fresh(m)' <=> Fresh(m)) /\ Underway(m)' = Underway(m)
    BY <1>1, SameFresh DEF Underway
  <2> QED
    BY <2>1 DEF Hopes
<1>3. /\ Tries(m) \in Nat /\ Tries(m)' \in Nat /\ Hopes(m) \in Nat /\ Top \in Nat
      /\ Cardinality(Lost) \in Nat /\ breaks \in Nat /\ published[m] \in Nat
      /\ Cardinality(Row(m)) \in Nat /\ IsFiniteSet(Row(m)) /\ Cardinality(Row(m)') \in Nat
  BY Numbers DEF Inv
<1>4. Causes' = Causes /\ Causes \in Nat
  <2>1. \A c \in Roleless(Calls) : status'[c] = "error" <=> status[c] = "error"
    <3>1. CASE Publish
      BY <3>1 DEF Publish, Roleless
    <3>2. CASE Handle \/ SkipEmpty \/ IngressStarts
      BY <3>2 DEF Handle, SkipEmpty, IngressStarts
    <3>3. ASSUME NEW n \in Calls, CallOther(n)
          PROVE  \A c \in Roleless(Calls) : status'[c] = "error" <=> status[c] = "error"
      BY <3>3 DEF CallOther, Roleless, Inv, TypeOK
    <3> QED
      BY <3>1, <3>2, <3>3
  <2>2. Lost' = Lost
    BY <1>1, <2>1 DEF Lost, Roleless
  <2> QED
    BY <1>1, <1>3, <2>2 DEF Causes
<1>5. m # "none" /\ m \notin Calls /\ Nothing.msg = "none"
  BY Values
<1>6. Tries(m)' <= Tries(m)
  <2>1. CASE Handle
    <3>1. /\ handling = Nothing /\ iQueue # <<>> /\ handling' = Head(iQueue)
          /\ iQueue' = Tail(iQueue) /\ published' = published
      BY <2>1 DEF Handle
    <3>2. Cardinality(Row(m)') + (IF Head(iQueue).msg = m THEN 1 ELSE 0) <= Cardinality(Row(m))
      BY <1>3, <3>1, RowTaken DEF Inv
    <3>3. Pending(m)' <= Pending(m) /\ Pending(m) \in Nat /\ Pending(m)' \in Nat
      BY <1>3, <1>5, <3>1, <3>2 DEF Pending
    <3> QED
      BY <1>3, <3>1, <3>3 DEF Tries
  <2>2. CASE Publish \/ SkipEmpty
    <3>1. /\ handling \in Call /\ handling' = Nothing /\ iQueue' = iQueue
          /\ published'[m] \in {published[m], published[m] + (IF handling.msg = m THEN 1 ELSE 0)}
      BY <2>2, Values DEF Publish, SkipEmpty, Inv, TypeOK
    <3>2. Row(m)' = Row(m)
      BY <3>1 DEF Row
    <3>3. Pending(m)' + (IF handling.msg = m THEN 1 ELSE 0) = Pending(m) /\ Pending(m)' \in Nat
      BY <1>3, <1>5, <3>1, <3>2 DEF Pending
    <3> QED
      BY <1>3, <3>1, <3>3 DEF Tries
  <2>3. CASE IngressStarts
    <3>1. UNCHANGED <<iQueue, handling, published>>
      BY <2>3 DEF IngressStarts
    <3> QED
      BY <1>3, <3>1 DEF Tries, Pending, Row
  <2>4. ASSUME NEW n \in Calls, CallOther(n) PROVE Tries(m)' <= Tries(m)
    <3>1. /\ iQueue' = Append(iQueue, [msg |-> n, live |-> FALSE])
          /\ UNCHANGED <<handling, published>> /\ [msg |-> n, live |-> FALSE] \in Call
      BY <2>4, Values DEF CallOther
    <3>2. Cardinality(Row(m)') = Cardinality(Row(m))
      BY <1>3, <1>5, <3>1, RowQueueing DEF Inv
    <3> QED
      BY <1>3, <3>1, <3>2 DEF Tries, Pending
  <2> QED
    BY <2>1, <2>2, <2>3, <2>4
<1> QED
  BY <1>2, <1>3, <1>4, <1>6

\* When the ingress ends, the egress tries again: in place of its call, when that had
\* not been published, or because something broke, or because the ingress panicked at
\* a call of another, which gets no other chance.
LEMMA CausesEnding ==
  ASSUME Inv, TypeOK', ClientOK', Top' = Top, Panic \/ IngressStops
  PROVE  CopiesHaveCauses'
<1> SUFFICES ASSUME NEW m \in Messages
             PROVE  Tries(m)' + Hopes(m)' + Causes <= Tries(m) + Hopes(m) + Causes'
  BY CausesKept
<1>1. IngressEnds /\ (breaks' = breaks \/ breaks' = breaks + 1)
  BY DEF Panic, IngressStops, Break
<1>2. /\ UNCHANGED <<session, settled, unacked, inbox, current, kind, published>>
      /\ iQueue' = <<>> /\ handling' = Nothing
      /\ status' = [c \in Calls |-> IF status[c] = "waiting" THEN "error" ELSE status[c]]
  BY <1>1 DEF IngressEnds, amqpVars, brokerVars
<1>3. \/ UNCHANGED <<pc, rpc>> /\ rpc \in {"none", "hung"}
      \/ pc = "waiting" /\ rpc \in {"open", "answered"}
  BY <1>1, Ending DEF Inv
<1>4. Fresh(m)' <=> Fresh(m)
  BY <1>2, SameFresh
<1>5. /\ Tries(m) \in Nat /\ Pending(m) \in Nat /\ Underway(m) \in Nat /\ Underway(m)' \in Nat
      /\ Top \in Nat /\ Cardinality(Lost) \in Nat /\ Cardinality(Lost') \in Nat
      /\ breaks \in Nat /\ published[m] \in Nat
      /\ Cardinality(Row(m)) \in Nat /\ IsFiniteSet(Row(m))
  BY Numbers DEF Inv
<1>6. Tries(m)' = published[m] /\ Tries(m) = published[m] + Pending(m)
  <2>1. Row(m)' = {}
    BY <1>2 DEF Row
  <2>2. Pending(m)' = 0
    BY <1>2, <2>1, Values, FS_EmptySet DEF Pending
  <2> QED
    BY <1>2, <1>5, <2>2 DEF Tries
<1>7. /\ Cardinality(Lost) <= Cardinality(Lost')
      /\ \A c \in Lost' \ Lost : Cardinality(Lost) + 1 <= Cardinality(Lost')
  BY <1>2, MoreLost DEF Inv
<1>8. Causes <= Causes' /\ Causes \in Nat /\ Causes' \in Nat
  BY <1>1, <1>5, <1>7 DEF Causes
<1>9. CASE UNCHANGED <<pc, rpc>> /\ rpc \in {"none", "hung"}
  <2>1. Underway(m)' = Underway(m)
    BY <1>2, <1>9 DEF Underway
  <2> QED
    BY <1>4, <1>5, <1>6, <1>8, <2>1 DEF Hopes
<1>10. CASE pc = "waiting" /\ rpc \in {"open", "answered"} /\ current # m
  <2>1. Underway(m)' = Underway(m)
    BY <1>2, <1>10 DEF Underway
  <2> QED
    BY <1>4, <1>5, <1>6, <1>8, <2>1 DEF Hopes
<1>11. CASE pc = "waiting" /\ rpc = "open" /\ current = m
  <2>1. Underway(m)' <= Underway(m) + 1
    BY <1>2, <1>11 DEF Underway
  <2>2. Pending(m) >= 1
    <3>1. CASE handling.live
      BY <1>5, <1>11, <3>1 DEF Inv, LastCall, Pending
    <3>2. CASE ~handling.live
      <4>1. PICK i \in DOMAIN iQueue : iQueue[i].live
        BY <1>11, <3>2 DEF Inv, LastCall
      <4>2. i \in Row(m)
        BY <1>11, <4>1 DEF Inv, LastCall, Row
      <4>3. Cardinality(Row(m)) # 0
        BY <1>5, <4>2, FS_EmptySet
      <4> QED
        BY <1>5, <4>3 DEF Pending
    <3> QED
      BY <3>1, <3>2
  <2> QED
    BY <1>4, <1>5, <1>6, <1>8, <2>1, <2>2 DEF Hopes
<1>12. CASE pc = "waiting" /\ rpc = "answered"
  <2>1. Underway(m)' <= Underway(m) + 1
    BY <1>2, <1>12 DEF Underway
  <2>2. Causes + 1 <= Causes'
    <3>1. CASE Panic
      <4>1. handling # Nothing /\ kind[handling.msg] = "roleless" /\ breaks' = breaks
        BY <3>1 DEF Panic
      <4>2. handling.msg \in Calls
        BY <1>12, <4>1, Values DEF Inv, TypeOK, LastCall
      <4>3. status[handling.msg] = "waiting"
        BY <4>2 DEF Inv, OthersWait
      <4>4. handling.msg \in Lost' \ Lost
        BY <1>2, <4>1, <4>2, <4>3 DEF Lost, Roleless
      <4>5. Cardinality(Lost) + 1 <= Cardinality(Lost')
        BY <1>7, <4>4
      <4> QED
        BY <1>5, <4>1, <4>5 DEF Causes
    <3>2. CASE IngressStops
      <4>1. breaks' = breaks + 1
        BY <3>2 DEF IngressStops, Break
      <4> QED
        BY <1>5, <1>7, <4>1 DEF Causes
    <3> QED
      BY <3>1, <3>2
  <2> QED
    BY <1>4, <1>5, <1>6, <1>8, <2>1, <2>2 DEF Hopes
<1> QED
  BY <1>3, <1>9, <1>10, <1>11, <1>12

\* A call that breaks is one more cause; a restart forgets what was under way.
LEMMA CausesFaults ==
  ASSUME Inv, TypeOK', ClientOK', Top' = Top, CallBreaks \/ CallHangs \/ Restart
  PROVE  CopiesHaveCauses'
<1> SUFFICES ASSUME NEW m \in Messages
             PROVE  Tries(m)' + Hopes(m)' + Causes <= Tries(m) + Hopes(m) + Causes'
  BY CausesKept
<1>1. UNCHANGED <<session, settled, unacked, kind, status, published>> /\ NoneLive
  BY DEF CallBreaks, CallHangs, Restart, RestartClient, amqpVars, brokerVars
<1>2. Fresh(m)' <=> Fresh(m)
  BY <1>1, SameFresh
<1>3. Lost' = Lost
  BY <1>1 DEF Lost, Roleless
<1>4. /\ Tries(m) \in Nat /\ Underway(m) \in Nat /\ Underway(m)' \in Nat /\ Top \in Nat
      /\ Cardinality(Lost) \in Nat /\ breaks \in Nat
  BY Numbers DEF Inv
<1>5. Tries(m)' = Tries(m)
  <2>1. /\ DOMAIN iQueue' = DOMAIN iQueue
        /\ \A i \in DOMAIN iQueue : iQueue'[i].msg = iQueue[i].msg
        /\ handling'.msg = handling.msg
    BY <1>1, Abandoning DEF Inv, TypeOK
  <2>2. Row(m)' = Row(m)
    BY <2>1 DEF Row
  <2> QED
    BY <1>1, <2>1, <2>2 DEF Tries, Pending
<1>6. CASE CallBreaks \/ CallHangs
  <2>1. breaks' = breaks + 1 /\ UNCHANGED <<inbox, current>>
    BY <1>6 DEF CallBreaks, CallHangs, Break
  <2>2. Underway(m)' <= Underway(m) + 1
    <3>1. pc = "waiting"
      BY <1>6 DEF CallBreaks, CallHangs, Inv, TypeOK
    <3> QED
      BY <2>1, <3>1 DEF Underway
  <2> QED
    BY <1>2, <1>3, <1>4, <1>5, <2>1, <2>2 DEF Hopes, Causes
<1>7. CASE Restart
  <2>1. breaks' = breaks /\ Underway(m)' = 0
    BY <1>7, Values DEF Restart, Underway
  <2> QED
    BY <1>2, <1>3, <1>4, <1>5, <2>1 DEF Hopes, Causes
<1> QED
  BY <1>6, <1>7

\* No step publishes more than there is cause for.
LEMMA CausesNext ==
  ASSUME Inv, Next, TypeOK', ClientOK'
  PROVE  CopiesHaveCauses'
<1>1. CASE Client
  BY <1>1, CausesClient
<1>2. CASE ~Client
  <2>1. Top' = Top
    BY <1>2, ClientNextKept
  <2> QED
    BY <1>2, <2>1, CausesEgress, CausesBroker, CausesIngress, CausesEnding, CausesFaults
       DEF Next, Ingress
<1> QED
  BY <1>1, <1>2

------------------------------------------------------------------------------
(***************************************************************************)
(* The theorems.                                                           *)
(***************************************************************************)
\* Nothing is under way at the start.
LEMMA InvInit == Init => Inv
<1> SUFFICES ASSUME Init PROVE Inv
  OBVIOUS
<1>1. TypeOK
  BY TypeInit
<1>2. ClientOK /\ Top = 0
  <2>1. Numbered /\ Top = 0 /\ Spare = 0
    BY ClientInit DEF Init
  <2> QED
    BY <2>1 DEF Init, ClientOK
<1>3. Busy /\ OnePlace /\ HeldIsUnacked
  BY DEF Init, AmqpInit, Busy, OnePlace, HeldIsUnacked, SourceClosed
<1>4. Sessions /\ VerdictsAreFinal
  BY DEF Init, AmqpInit, Sessions, VerdictsAreFinal
<1>5. LastCall /\ OthersWait /\ SentIsPublished
  BY Values DEF Init, AmqpInit, LastCall, OthersWait, SentIsPublished
<1>6. GivesUpForReason
  BY Values DEF Init, GivesUpForReason
<1>7. CopiesHaveCauses
  <2> SUFFICES ASSUME NEW m \in Messages PROVE Tries(m) + Hopes(m) <= Causes
    BY DEF CopiesHaveCauses
  <2>1. Row(m) = {} /\ Lost = {} /\ m # "none"
    BY Values DEF Init, Row, Lost, Roleless
  <2>2. Tries(m) = 0
    BY <2>1, Values, FS_EmptySet DEF Init, Tries, Pending
  <2>3. Hopes(m) = 0
    BY <1>2, <2>1 DEF Init, Hopes, Underway, Fresh
  <2>4. Causes = 0
    BY <1>2, <2>1, FS_EmptySet DEF Init, Causes
  <2> QED
    BY <2>2, <2>3, <2>4
<1> QED
  BY <1>1, <1>2, <1>3, <1>4, <1>5, <1>6, <1>7 DEF Inv

\* Every step keeps the invariant.
LEMMA InvNext == Inv /\ [Next]_vars => Inv'
<1> SUFFICES ASSUME Inv, [Next]_vars PROVE Inv'
  OBVIOUS
<1>1. CASE Next
  <2>1. TypeOK'
    BY <1>1, TypeNext
  <2>2. ClientOK'
    BY <1>1, <2>1, ClientNextKept
  <2>3. Busy' /\ Brokered' /\ LastCall' /\ OthersWait' /\ SentIsPublished' /\ GivesUpForReason'
    BY <1>1, BusyNext, BrokeredNext, CallsNext, SentNext, GivesUpNext
  <2>4. CopiesHaveCauses'
    BY <1>1, <2>1, <2>2, CausesNext
  <2> QED
    BY <2>1, <2>2, <2>3, <2>4 DEF Inv, Brokered
<1>2. CASE UNCHANGED vars
  <2> USE DEF vars, amqpVars, clientVars, brokerVars, egressVars, ingressVars
  <2>1. TypeOK' /\ Busy' /\ Sessions' /\ OnePlace' /\ HeldIsUnacked' /\ VerdictsAreFinal'
    BY <1>2 DEF Inv, TypeOK, AmqpTypeOK, Busy, Sessions, OnePlace, HeldIsUnacked, SourceClosed,
                VerdictsAreFinal, Held
  <2>2. LastCall' /\ OthersWait' /\ SentIsPublished' /\ GivesUpForReason'
    BY <1>2 DEF Inv, LastCall, OthersWait, SentIsPublished, GivesUpForReason
  <2>3. ClientOK' /\ Top' = Top
    BY <1>2, ConnectionsKept DEF Inv, ClientOK
  <2>4. CopiesHaveCauses'
    <3>1. \A m : (Fresh(m)' <=> Fresh(m))
      BY <1>2, <2>3 DEF Fresh
    <3>2. \A m : Tries(m)' = Tries(m) /\ Underway(m)' = Underway(m)
      BY <1>2 DEF Tries, Pending, Row, Underway
    <3>3. Causes' = Causes
      BY <1>2, <2>3 DEF Causes, Lost, Roleless
    <3>4. \A m : Hopes(m)' = Hopes(m)
      BY <3>1, <3>2 DEF Hopes
    <3> QED
      BY <3>2, <3>3, <3>4 DEF Inv, CopiesHaveCauses
  <2> QED
    BY <2>1, <2>2, <2>3, <2>4 DEF Inv
<1> QED
  BY <1>1, <1>2

\* The inductive invariant holds.
THEOREM InvHolds == Spec => []Inv
BY InvInit, InvNext, PTL DEF Spec

\* Every variable of egress, broker and ingress keeps its type, and the egress has a
\* call exactly while it waits for one.
THEOREM TypesHold == Spec => []TypeOK
<1>1. Inv => TypeOK
  BY DEF Inv
<1> QED
  BY <1>1, InvHolds, PTL

\* A message is waiting, with one connection, or settled.
THEOREM OnePlaceHolds == Spec => []OnePlace
<1>1. Inv => OnePlace
  BY DEF Inv
<1> QED
  BY <1>1, InvHolds, PTL

\* What the queue of the egress forgets as sent is published, once more at most for
\* every fault and every call of others that makes the ingress panic; and while nothing
\* breaks, it gives up on a certificate that is right only for a client made with
\* another.
THEOREM HopKeepsHolds == Spec => []HopKeeps
<1>1. Inv => HopKeeps
  <2> SUFFICES ASSUME Inv, NEW m \in Messages
               PROVE  /\ settled[m] = "acked" => published[m] > 0
                      /\ published[m] <= 1 + Troubles + Cardinality(Roleless(Calls))
                      /\ pc = "failed" /\ current = m /\ Cert[m] = serving /\ breaks = 0 /\ ~fell
                           => pool.cert # serving
    BY DEF HopKeeps
  <2> USE DEF Inv
  <2>1. published[m] <= 1 + Troubles + Cardinality(Roleless(Calls))
    <3>1. Roleless(Calls) \subseteq Calls /\ Lost \subseteq Roleless(Calls)
      BY DEF Roleless, Lost
    <3>2. IsFiniteSet(Roleless(Calls))
      BY <3>1, HopAssumption, FS_Subset
    <3>3. IsFiniteSet(Lost) /\ Cardinality(Lost) <= Cardinality(Roleless(Calls))
      BY <3>1, <3>2, FS_Subset
    <3>4. Cardinality(Lost) \in Nat /\ Cardinality(Roleless(Calls)) \in Nat
      BY <3>2, <3>3, FS_CardinalityType
    <3>5. IsFiniteSet(Row(m)) /\ Cardinality(Row(m)) \in Nat
      <4>1. Len(iQueue) \in Nat /\ DOMAIN iQueue = 1 .. Len(iQueue)
        BY LenProperties DEF TypeOK
      <4>2. Row(m) \subseteq 1 .. Len(iQueue) /\ 1 \in Int /\ Len(iQueue) \in Int
        BY <4>1 DEF Row
      <4>3. IsFiniteSet(1 .. Len(iQueue))
        BY <4>2, FS_Interval
      <4>4. IsFiniteSet(Row(m))
        BY <4>2, <4>3, FS_Subset
      <4> QED
        BY <4>4, FS_CardinalityType
    <3>6. published[m] \in Nat /\ Pending(m) \in Nat /\ Hopes(m) \in Nat
      BY <3>5 DEF TypeOK, Pending, Hopes, Underway
    <3>7. published[m] <= Causes
      BY <3>4, <3>6, TopFacts, HopAssumption DEF CopiesHaveCauses, Tries, Causes, ClientOK, TypeOK
    <3>8. Top <= 1 + losses + crashes /\ losses \in Nat /\ crashes \in Nat /\ Top \in Nat
      BY TopFacts, AmqpAssumption DEF ClientOK, Spare, TypeOK, AmqpTypeOK
    <3>9. breaks \in Nat
      BY HopAssumption DEF TypeOK
    <3> QED
      BY <3>3, <3>4, <3>6, <3>7, <3>8, <3>9 DEF Causes, Troubles
  <2> QED
    BY <2>1 DEF SentIsPublished, GivesUpForReason
<1> QED
  BY <1>1, InvHolds, PTL

(***************************************************************************)
(* Who waits is attended to: this is what EverybodyAnswered rests on       *)
(* besides fairness.                                                       *)
(***************************************************************************)
\* A consumer of the connection the client has is one that the goroutine
\* ranges over, and a client that is connected has a channel, or is about to
\* open one.
Attentive ==
  /\ \A c \in Connections : unacked[c] # {} => c \in consumers
  /\ \A c \in consumers : session[c] # "none"
  /\ up => (conn \in consumers <=> source = conn)
  /\ pc = "listening" => SourceClosed
  /\ up => dialer # "dialing" /\ (dialer = "dialed" \/ channel = conn)

\* A verdict on m is on its way to the broker.
Answered(m) == \E i \in DOMAIN wire[conn] : wire[conn][i].msg = m

\* What was delivered on the connection the client has is in its hands, unless it
\* is of the kind that is never answered.
NoDeliveryForgotten ==
  up => \A m \in unacked[conn] : kind[m] = "silent" \/ m \in Held \/ Answered(m)

\* A message that is not settled waits in the queue; or is with a connection
\* that the client has no longer, which the broker will end; or the egress has
\* it, or has answered for it, or never will.
UnsettledIsAttended ==
  \A m \in Messages : settled[m] = "no" =>
    \/ m \in queue
    \/ \E c \in Connections : m \in unacked[c] /\ ~(up /\ c = conn)
    \/ /\ up /\ source = conn /\ m \in unacked[conn]
       /\ kind[m] = "silent" \/ m \in Held \/ Answered(m)

\* A call of others that waits is one that the ingress has, or is without
\* interaction elements.
WaitingIsAttended ==
  \A c \in Calls : status[c] = "waiting" =>
    kind[c] = "empty" \/ handling.msg = c \/ \E i \in DOMAIN iQueue : iQueue[i].msg = c

LEMMA AttentionInit == Init => Attentive /\ NoDeliveryForgotten /\ WaitingIsAttended
BY DEF Init, AmqpInit, Attentive, NoDeliveryForgotten, WaitingIsAttended, SourceClosed

\* The connection a client has is one of those dialled.
LEMMA HasConnection ==
  ASSUME Inv, up
  PROVE  conn \in Connections
BY DEF Inv, TypeOK, AmqpTypeOK, ClientOK, Numbered

\* A connection that the goroutine does not range over has nothing to settle.
LEMMA OthersHaveNothing ==
  ASSUME Inv, Attentive, up, source # conn
  PROVE  unacked[conn] = {}
BY HasConnection DEF Attentive

\* What a step of the ingress, of other callers or of a fault does not touch.
LEMMA ElsewhereSteps ==
  ASSUME Inv,
         \/ Ingress \/ IngressStops \/ CallBreaks \/ CallHangs
         \/ \E m \in Calls : CallOther(m)
  PROVE  /\ UNCHANGED <<amqpVars, brokerVars, source, inbox, current, kind>>
         /\ pc' = "listening" => pc = "listening"
<1>1. UNCHANGED <<amqpVars, brokerVars, source, inbox, current, kind>>
  BY DEF Ingress, Handle, Publish, SkipEmpty, Panic, IngressStarts, IngressEnds, IngressStops,
         CallBreaks, CallHangs, CallOther, egressVars
<1>2. (IngressEnds \/ CallBreaks) /\ pc' = "listening" => pc = "listening"
  BY DEF IngressEnds, CallBreaks, AttemptFails
<1>3. ~IngressEnds /\ ~CallBreaks => pc' = pc
  BY DEF Ingress, Handle, Publish, SkipEmpty, Panic, IngressStarts, IngressStops,
         CallHangs, CallOther, egressVars
<1> QED
  BY <1>1, <1>2, <1>3

LEMMA AttentiveClient == ASSUME Inv, Attentive, Client PROVE Attentive'
<1>1. UNCHANGED <<unacked, consumers, source, pc>>
  BY DEF Client, brokerVars, egressVars
<1>2. CASE Dial
  <2>1. PICK c \in Connections : /\ session[c] = "none" /\ conn' = c
                                 /\ session' = [session EXCEPT ![c] = "open"]
    BY <1>2 DEF Dial
  <2>2. /\ session \in [Connections -> {"none", "open", "ended"}]
        /\ source # c /\ c \notin consumers
    BY <2>1, Connecting DEF Inv, TypeOK, AmqpTypeOK, Sessions, Attentive
  <2>3. dialer' = "dialed"
    BY <1>2 DEF Dial
  <2>4. \A d \in Connections : session[d] # "none" => session'[d] # "none"
    BY <2>1, <2>2
  <2>5. \A d \in consumers : session'[d] # "none"
    BY <2>4 DEF Attentive, Inv, TypeOK
  <2> QED
    BY <1>1, <2>1, <2>2, <2>3, <2>5 DEF Attentive, SourceClosed
<1>3. CASE OpenChannel \/ Watch \/ Reconnect \/ ClientLoses
  <2>1. (up' => up) /\ UNCHANGED <<conn, session>>
    BY <1>3 DEF OpenChannel, Watch, Reconnect, ClientLoses
  <2>2. up' => dialer' # "dialing" /\ (dialer' = "dialed" \/ channel' = conn')
    BY <1>3 DEF OpenChannel, Watch, Reconnect, ClientLoses, Attentive
  <2> QED
    BY <1>1, <2>1, <2>2 DEF Attentive, SourceClosed
<1> QED
  BY <1>2, <1>3 DEF Client, ClientNext

LEMMA AttentiveOthers ==
  ASSUME Inv, Attentive, Next, ~Client
  PROVE  Attentive'
<1> USE DEF amqpVars, clientVars, brokerVars
<1>1. conn \in Connections \cup {0} /\ unacked \in [Connections -> SUBSET Messages]
      /\ session \in [Connections -> {"none", "open", "ended"}] /\ consumers \subseteq Connections
  BY DEF Inv, TypeOK, AmqpTypeOK
<1>2. ASSUME UNCHANGED <<conn, up, dialer, channel, consumers, source>>,
             \A c \in Connections : session[c] # "none" => session'[c] # "none",
             \A c \in Connections : unacked'[c] # {} => unacked[c] # {} \/ c \in consumers,
             pc' = "listening" => pc = "listening" \/ SourceClosed
      PROVE  Attentive'
  BY <1>1, <1>2 DEF Attentive, SourceClosed
<1>3. CASE Listen
  <2>1. /\ Usable /\ session[conn] = "open" /\ consumers' = consumers \cup {conn}
        /\ source' = conn /\ pc' = "ranging"
        /\ UNCHANGED <<conn, up, dialer, channel, session, unacked>>
    BY <1>3 DEF Listen
  <2> QED
    BY <2>1 DEF Usable, Attentive
<1>4. CASE Egress /\ ~Listen
  <2>1. UNCHANGED <<conn, up, dialer, channel, session, consumers, source, unacked>>
    BY <1>4 DEF Egress, TakeSilent, Take, DeliveriesClosed, CallIngress, CallFails, Returns, Settle
  <2>2. pc' = "listening" => pc = "listening" \/ SourceClosed
    BY <1>4 DEF Egress, TakeSilent, Take, DeliveriesClosed, CallIngress, CallFails, AttemptFails,
                Returns, Settle
  <2> QED
    BY <1>2, <2>1, <2>2
<1>5. CASE Ingress \/ IngressStops \/ CallBreaks \/ CallHangs \/ \E m \in Calls : CallOther(m)
  <2>1. /\ UNCHANGED <<conn, up, dialer, channel, session, consumers, source, unacked>>
        /\ pc' = "listening" => pc = "listening"
    BY <1>5, ElsewhereSteps
  <2> QED
    BY <1>2, <2>1
<1>6. ASSUME NEW c \in Connections, NEW m \in Messages, Deliver(c, m) PROVE Attentive'
  <2>1. /\ UNCHANGED <<conn, up, dialer, channel, session, consumers, source, pc>>
        /\ c \in consumers /\ unacked' = [unacked EXCEPT ![c] = @ \cup {m}]
    BY <1>6 DEF Deliver
  <2>2. \A d \in Connections : unacked'[d] # {} => unacked[d] # {} \/ d \in consumers
    BY <1>1, <2>1
  <2> QED
    BY <1>2, <2>1, <2>2
<1>7. ASSUME NEW c \in Connections, Arrive(c) PROVE Attentive'
  <2>1. /\ UNCHANGED <<conn, up, dialer, channel, session, consumers, source, pc>>
        /\ \E f : unacked' = [unacked EXCEPT ![c] = @ \ {f}]
    BY <1>7 DEF Arrive, egressVars
  <2>2. \A d \in Connections : unacked'[d] \subseteq unacked[d]
    BY <1>1, <2>1
  <2> QED
    BY <1>2, <2>1, <2>2
<1>8. ASSUME NEW c \in Connections, SessionEnds(c) PROVE Attentive'
  <2>1. UNCHANGED <<conn, up, dialer, channel, consumers, source, pc>>
    BY <1>8 DEF SessionEnds, EndSession, egressVars
  <2>2. /\ \A d \in Connections : unacked'[d] \subseteq unacked[d]
        /\ \A d \in Connections : session[d] # "none" => session'[d] # "none"
    BY <1>1, <1>8 DEF SessionEnds, EndSession
  <2> QED
    BY <1>2, <2>1, <2>2
<1>9. CASE Restart
  <2>1. up' = FALSE /\ UNCHANGED <<session, consumers, unacked>>
    BY <1>9 DEF Restart, RestartClient
  <2> QED
    BY <2>1 DEF Attentive, SourceClosed
<1> QED
  BY <1>3, <1>4, <1>5, <1>6, <1>7, <1>8, <1>9 DEF Next

\* Who still has its connection, and what was delivered on it.
LEMMA HeldStays ==
  ASSUME NoDeliveryForgotten, UNCHANGED <<kind, conn>>, up' => up,
         up => unacked'[conn] \subseteq unacked[conn],
         up => unacked[conn] = {}
               \/ \A m \in Held : m \in Held' \/ kind[m] = "silent" \/ Answered(m)',
         up => \A m : Answered(m) => Answered(m)'
  PROVE  NoDeliveryForgotten'
BY DEF NoDeliveryForgotten

\* A verdict goes behind those on the wire, and is on it if the session is open.
LEMMA VerdictIsSent ==
  ASSUME Inv, up, UNCHANGED conn, NEW f \in Frame, Send(conn, f)
  PROVE  /\ \A m : Answered(m) => Answered(m)'
         /\ \A m : f.msg = m /\ session[conn] = "open" => Answered(m)'
<1> DEFINE s == wire[conn]
           n == Len(wire[conn])
<1>1. /\ wire \in [Connections -> Seq(Frame)] /\ conn \in Connections
      /\ s \in Seq(Frame)
  BY HasConnection DEF Inv, TypeOK, AmqpTypeOK
<1>2. n \in Nat /\ DOMAIN s = 1 .. n
  BY <1>1, LenProperties
<1>3. CASE session[conn] # "open"
  BY <1>3 DEF Send, Answered
<1>4. CASE session[conn] = "open"
  <2> DEFINE t == Append(s, f)
  <2>1. wire'[conn] = t
    BY <1>1, <1>4 DEF Send
  <2>2. /\ t \in Seq(Frame) /\ Len(t) = n + 1 /\ t[n + 1] = f
        /\ \A i \in 1 .. n : t[i] = s[i]
    BY <1>1, AppendProperties
  <2>3. DOMAIN t = 1 .. n + 1
    BY <1>2, <2>2, LenProperties
  <2> HIDE DEF t, s, n
  <2>4. n + 1 \in DOMAIN t /\ \A i \in 1 .. n : i \in DOMAIN t
    BY <1>2, <2>3
  <2>5. \A m : (\E i \in DOMAIN s : s[i].msg = m) => \E i \in DOMAIN t : t[i].msg = m
    BY <1>2, <2>2, <2>4
  <2>6. \A m : f.msg = m => \E i \in DOMAIN t : t[i].msg = m
    BY <2>2, <2>4
  <2>7. \A m : Answered(m) <=> \E i \in DOMAIN s : s[i].msg = m
    BY DEF Answered, s
  <2>8. \A m : Answered(m)' <=> \E i \in DOMAIN t : t[i].msg = m
    BY <2>1 DEF Answered
  <2> QED
    BY <2>5, <2>6, <2>7, <2>8
<1> QED
  BY <1>3, <1>4

LEMMA ForgottenEgress ==
  ASSUME Inv, Attentive, NoDeliveryForgotten, Egress
  PROVE  NoDeliveryForgotten'
<1> USE DEF amqpVars, clientVars, brokerVars, ingressVars
<1>1. UNCHANGED <<conn, up, session, unacked, kind>>
  BY DEF Egress, Listen, DeliveriesClosed, TakeSilent, Take, CallIngress, CallFails, Returns, Settle
<1>2. ASSUME UNCHANGED wire,
             up => unacked[conn] = {} \/ \A m \in Held : m \in Held' \/ kind[m] = "silent"
      PROVE  NoDeliveryForgotten'
  BY <1>1, <1>2, HeldStays DEF Answered
<1>3. CASE Listen \/ DeliveriesClosed
  <2>1. SourceClosed /\ UNCHANGED wire
    BY <1>3 DEF Listen, DeliveriesClosed, Attentive
  <2>2. up => unacked[conn] = {}
    BY <2>1, OthersHaveNothing DEF SourceClosed
  <2> QED
    BY <1>2, <2>1, <2>2
<1>4. ASSUME NEW m \in Messages, TakeSilent(m) \/ Take(m) PROVE NoDeliveryForgotten'
  <2>1. /\ UNCHANGED wire /\ inbox' = inbox \ {m}
        /\ \/ kind[m] = "silent" /\ current' = current
           \/ current' = m /\ current = "none"
    BY <1>4 DEF TakeSilent, Take, Inv, Busy
  <2>2. m # "none"
    BY Values
  <2>3. \A k \in Held : k \in Held' \/ kind[k] = "silent"
    BY <2>1, <2>2 DEF Held
  <2> QED
    BY <1>2, <2>1, <2>3
<1>5. CASE CallIngress \/ CallFails \/ Returns
  <2>1. UNCHANGED <<wire, inbox, current>>
    BY <1>5 DEF CallIngress, CallFails, Returns
  <2> QED
    BY <1>2, <2>1 DEF Held
<1>6. CASE Settle
  <2>1. current' = "none" /\ inbox' = inbox /\ current \in Messages
    BY <1>6 DEF Settle, Inv, Busy, TypeOK
  <2>2. PICK m0 \in Messages : m0 = current
    BY <2>1
  <2>3. \A k \in Held : k \in Held' \/ k = m0
    BY <2>1, <2>2 DEF Held
  <2>4. CASE SourceClosed
    <3>1. up => unacked[conn] = {}
      BY <2>4, OthersHaveNothing DEF SourceClosed
    <3>2. UNCHANGED wire
      BY <1>6, <2>4 DEF Settle, Answer
    <3> QED
      BY <1>2, <3>1, <3>2
  <2>5. CASE ~SourceClosed
    <3>1. up /\ source = conn
      BY <2>5 DEF SourceClosed
    <3>2. PICK v \in {"ack", "nack"} : Send(conn, [kind |-> v, msg |-> m0])
      BY <1>6, <2>2, <2>5, <3>1 DEF Settle, Answer
    <3> DEFINE f == [kind |-> v, msg |-> m0]
    <3>3. f \in Frame /\ f.msg = m0 /\ Send(conn, f)
      BY <3>2, Values
    <3> HIDE DEF f
    <3>4. /\ \A m : Answered(m) => Answered(m)'
          /\ session[conn] = "open" => Answered(m0)'
      BY <1>1, <3>1, <3>3, VerdictIsSent
    <3>5. unacked[conn] # {} => session[conn] = "open"
      BY <3>1, HasConnection DEF Inv, Sessions
    <3> QED
      BY <1>1, <2>3, <3>1, <3>4, <3>5, HeldStays
  <2> QED
    BY <2>4, <2>5
<1> QED
  BY <1>3, <1>4, <1>5, <1>6 DEF Egress

\* A verdict that the broker takes is on one message.
LEMMA ForgottenArrive ==
  ASSUME Inv, NoDeliveryForgotten, NEW c \in Connections, Arrive(c)
  PROVE  NoDeliveryForgotten'
<1>1. /\ UNCHANGED <<conn, up, kind, inbox, current>> /\ wire[c] # <<>>
      /\ wire' = [wire EXCEPT ![c] = Tail(@)]
      /\ unacked' = [unacked EXCEPT ![c] = @ \ {Head(wire[c]).msg}]
  BY DEF Arrive, clientVars, egressVars, ingressVars
<1>2. wire \in [Connections -> Seq(Frame)] /\ unacked \in [Connections -> SUBSET Messages]
  BY DEF Inv, TypeOK, AmqpTypeOK
<1>3. Held' = Held
  BY <1>1 DEF Held
<1>4. CASE c # conn
  <2>1. up => wire'[conn] = wire[conn] /\ unacked'[conn] = unacked[conn]
    BY <1>1, <1>2, <1>4, HasConnection
  <2>2. up => \A m : Answered(m) => Answered(m)'
    BY <1>1, <2>1 DEF Answered
  <2> QED
    BY <1>1, <1>3, <2>1, <2>2, HeldStays
<1>5. CASE c = conn
  <2>1. /\ wire[c] \in Seq(Frame) /\ Head(wire[c]) = wire[c][1]
        /\ wire'[c] = Tail(wire[c])
        /\ unacked'[c] = unacked[c] \ {wire[c][1].msg}
    BY <1>1, <1>2, Arriving
  <2>2. /\ Tail(wire[c]) \in Seq(Frame) /\ Len(Tail(wire[c])) = Len(wire[c]) - 1
        /\ \A i \in 1 .. Len(Tail(wire[c])) : Tail(wire[c])[i] = wire[c][i + 1]
    BY <1>1, <2>1, HeadTailProperties
  <2>3. /\ Len(wire[c]) \in Nat /\ DOMAIN wire[c] = 1 .. Len(wire[c])
        /\ DOMAIN wire'[c] = 1 .. Len(wire[c]) - 1
    BY <2>1, <2>2, LenProperties
  <2>4. \A i \in DOMAIN wire[c] \ {1} : i - 1 \in DOMAIN wire'[c] /\ wire'[c][i - 1] = wire[c][i]
    <3>1. \A i \in DOMAIN wire[c] \ {1} :
            i - 1 \in DOMAIN wire'[c] /\ i - 1 \in 1 .. Len(Tail(wire[c])) /\ (i - 1) + 1 = i
      BY <2>2, <2>3
    <3> QED
      BY <2>1, <2>2, <3>1
  <2> SUFFICES ASSUME up, NEW m \in unacked'[conn]
               PROVE  kind[m] = "silent" \/ m \in Held \/ Answered(m)'
    BY <1>1, <1>3 DEF NoDeliveryForgotten
  <2>5. m \in unacked[conn] /\ m # wire[conn][1].msg
    BY <1>5, <2>1
  <2>6. Answered(m) => Answered(m)'
    <3> SUFFICES ASSUME NEW i \in DOMAIN wire[conn], wire[conn][i].msg = m
                 PROVE  Answered(m)'
      BY DEF Answered
    <3>1. i # 1
      BY <2>5
    <3>2. i - 1 \in DOMAIN wire'[conn] /\ wire'[conn][i - 1].msg = m
      BY <1>5, <2>4, <3>1
    <3> QED
      BY <1>1, <3>2 DEF Answered
  <2> QED
    BY <2>5, <2>6 DEF NoDeliveryForgotten
<1> QED
  BY <1>4, <1>5

LEMMA ForgottenOthers ==
  ASSUME Inv, Attentive, NoDeliveryForgotten,
         \/ Client \/ Restart
         \/ Ingress \/ IngressStops \/ CallBreaks \/ CallHangs
         \/ \E m \in Calls : CallOther(m)
         \/ \E c \in Connections : SessionEnds(c) \/ \E m \in Messages : Deliver(c, m)
  PROVE  NoDeliveryForgotten'
<1> USE DEF amqpVars, clientVars, brokerVars, egressVars, ingressVars
<1>1. unacked \in [Connections -> SUBSET Messages]
  BY DEF Inv, TypeOK
<1>2. CASE Client
  <2>1. Held' = Held /\ UNCHANGED <<unacked, wire, kind>>
    BY <1>2 DEF Client, ClientNext, Dial, OpenChannel, Watch, Reconnect, ClientLoses, Held
  <2>2. CASE Dial
    <3>1. PICK c \in Connections : session[c] = "none" /\ conn' = c
      BY <2>2 DEF Dial
    <3>2. unacked[c] = {}
      BY <3>1 DEF Inv, Sessions
    <3> QED
      BY <2>1, <3>1, <3>2 DEF NoDeliveryForgotten
  <2>3. CASE ~Dial
    <3>1. (up' => up) /\ conn' = conn
      BY <1>2, <2>3 DEF Client, ClientNext, OpenChannel, Watch, Reconnect, ClientLoses
    <3> QED
      BY <2>1, <3>1, HeldStays DEF Answered
  <2> QED
    BY <2>2, <2>3
<1>3. CASE Restart
  BY <1>3 DEF Restart, RestartClient, NoDeliveryForgotten
<1>4. CASE Ingress \/ IngressStops \/ CallBreaks \/ CallHangs \/ \E m \in Calls : CallOther(m)
  <2>1. UNCHANGED <<conn, up, wire, unacked, inbox, current, kind>>
    BY <1>4, ElsewhereSteps
  <2> QED
    BY <2>1, HeldStays DEF Answered, Held
<1>5. ASSUME NEW c \in Connections, NEW m \in Messages, Deliver(c, m) PROVE NoDeliveryForgotten'
  <2>1. /\ UNCHANGED <<conn, up, wire, source, current, kind>>
        /\ c \in consumers /\ unacked' = [unacked EXCEPT ![c] = @ \cup {m}]
        /\ inbox' = IF ~SourceClosed /\ c = source THEN inbox \cup {m} ELSE inbox
    BY <1>5 DEF Deliver
  <2>2. (\A k : Answered(k) <=> Answered(k)') /\ Held \subseteq Held'
    BY <2>1 DEF Answered, Held
  <2>3. CASE c = conn /\ up
    <3>1. ~SourceClosed /\ c = source
      BY <2>1, <2>3 DEF Attentive, SourceClosed
    <3>2. unacked'[conn] = unacked[conn] \cup {m} /\ m \in Held'
      BY <1>1, <2>1, <2>3, <3>1 DEF Held
    <3> QED
      BY <2>1, <2>2, <3>2 DEF NoDeliveryForgotten
  <2>4. CASE ~(c = conn /\ up)
    <3>1. up => unacked'[conn] = unacked[conn]
      BY <1>1, <2>1, <2>4, HasConnection
    <3> QED
      BY <2>1, <2>2, <3>1, HeldStays
  <2> QED
    BY <2>3, <2>4
<1>6. ASSUME NEW c \in Connections, SessionEnds(c) PROVE NoDeliveryForgotten'
  <2>1. Held' = Held /\ UNCHANGED <<conn, up, kind>>
    BY <1>6 DEF SessionEnds, EndSession, Held
  <2>2. /\ unacked' = [unacked EXCEPT ![c] = {}] /\ wire' = [wire EXCEPT ![c] = <<>>]
        /\ wire \in [Connections -> Seq(Frame)]
    BY <1>6 DEF SessionEnds, EndSession, Inv, TypeOK, AmqpTypeOK
  <2>3. CASE c = conn
    <3>1. unacked'[conn] = {}
      BY <1>1, <2>2, <2>3
    <3> QED
      BY <2>1, <3>1 DEF NoDeliveryForgotten
  <2>4. CASE c # conn
    <3>1. up => unacked'[conn] = unacked[conn] /\ wire'[conn] = wire[conn]
      BY <1>1, <2>2, <2>4, HasConnection
    <3> QED
      BY <2>1, <3>1, HeldStays DEF Answered
  <2> QED
    BY <2>3, <2>4
<1> QED
  BY <1>2, <1>3, <1>4, <1>5, <1>6

\* A call that the ingress is done with has a status; one that it loses, an error.
LEMMA WaitingNext ==
  ASSUME Inv, WaitingIsAttended, Next
  PROVE  WaitingIsAttended'
<1> USE DEF brokerVars, egressVars, ingressVars
<1>1. ASSUME UNCHANGED kind,
             \A c \in Calls : status'[c] = "waiting" =>
               /\ status[c] = "waiting"
               /\ handling.msg = c =>
                    kind[c] = "empty" \/ handling'.msg = c \/ \E i \in DOMAIN iQueue' : iQueue'[i].msg = c
               /\ (\E i \in DOMAIN iQueue : iQueue[i].msg = c) =>
                    handling'.msg = c \/ \E i \in DOMAIN iQueue' : iQueue'[i].msg = c
      PROVE  WaitingIsAttended'
  BY <1>1 DEF WaitingIsAttended
<1>2. CASE UNCHANGED <<kind, status, iQueue, handling>>
  BY <1>1, <1>2
<1>3. CASE CallIngress
  <2> DEFINE call == [msg |-> current, live |-> TRUE]
  <2>1. iQueue' = Append(iQueue, call) /\ UNCHANGED <<kind, status, handling>>
    BY <1>3 DEF CallIngress
  <2>2. call \in Call
    BY <1>3, Values DEF CallIngress, Inv, TypeOK, Busy
  <2> HIDE DEF call
  <2>3. /\ DOMAIN iQueue \subseteq DOMAIN iQueue'
        /\ \A i \in DOMAIN iQueue : iQueue'[i] = iQueue[i]
    BY <2>1, <2>2, Queueing DEF Inv
  <2> QED
    BY <1>1, <2>1, <2>3
<1>4. ASSUME NEW m \in Calls, CallOther(m) PROVE WaitingIsAttended'
  <2> DEFINE call == [msg |-> m, live |-> FALSE]
  <2>1. /\ iQueue' = Append(iQueue, call) /\ UNCHANGED <<kind, handling>>
        /\ status' = [status EXCEPT ![m] = "waiting"]
    BY <1>4 DEF CallOther
  <2>2. call \in Call /\ call.msg = m
    BY Values
  <2> HIDE DEF call
  <2>3. /\ DOMAIN iQueue' = DOMAIN iQueue \cup {Len(iQueue) + 1}
        /\ \A i \in DOMAIN iQueue : iQueue'[i] = iQueue[i]
        /\ iQueue'[Len(iQueue) + 1] = call
    BY <2>1, <2>2, Queueing DEF Inv
  <2>4. \A c \in Calls : status'[c] = IF c = m THEN "waiting" ELSE status[c]
    BY <2>1 DEF Inv, TypeOK
  <2>5. \E i \in DOMAIN iQueue' : iQueue'[i].msg = m
    BY <2>2, <2>3
  <2> QED
    BY <2>1, <2>3, <2>4, <2>5 DEF WaitingIsAttended
<1>5. CASE Handle
  <2>1. /\ handling = Nothing /\ iQueue # <<>> /\ handling' = Head(iQueue) /\ iQueue' = Tail(iQueue)
        /\ UNCHANGED <<kind, status>>
    BY <1>5 DEF Handle
  <2>2. /\ handling' = iQueue[1] /\ iQueue' \in Seq(Call) /\ Len(iQueue') = Len(iQueue) - 1
        /\ \A i \in DOMAIN iQueue' : iQueue'[i] = iQueue[i + 1]
    BY <2>1, NextCall DEF Inv
  <2>3. /\ Len(iQueue) \in Nat /\ DOMAIN iQueue = 1 .. Len(iQueue)
        /\ DOMAIN iQueue' = 1 .. Len(iQueue')
    BY <2>2, LenProperties DEF Inv, TypeOK
  <2>4. \A i \in DOMAIN iQueue \ {1} : i - 1 \in DOMAIN iQueue' /\ iQueue'[i - 1] = iQueue[i]
    <3>1. \A i \in DOMAIN iQueue \ {1} : i - 1 \in DOMAIN iQueue' /\ (i - 1) + 1 = i
      BY <2>2, <2>3
    <3> QED
      BY <2>2, <3>1
  <2>5. \A c \in Calls : handling.msg # c
    BY <2>1, Values
  <2> QED
    BY <1>1, <2>1, <2>2, <2>4, <2>5
<1>6. CASE Publish
  <2>1. UNCHANGED <<kind, iQueue>>
    BY <1>6 DEF Publish
  <2>2. \A c \in Calls : status'[c] = "waiting" => status[c] = "waiting" /\ handling.msg # c
    BY <1>6 DEF Publish
  <2> QED
    BY <1>1, <2>1, <2>2
<1>7. CASE SkipEmpty
  <2>1. UNCHANGED <<kind, iQueue, status>> /\ kind[handling.msg] = "empty"
    BY <1>7 DEF SkipEmpty
  <2> QED
    BY <1>1, <2>1
<1>8. CASE IngressEnds
  <2>1. \A c \in Calls : status'[c] # "waiting"
    BY <1>8 DEF IngressEnds
  <2> QED
    BY <2>1 DEF WaitingIsAttended
<1>9. CASE CallBreaks \/ CallHangs \/ Restart
  <2>1. NoneLive /\ UNCHANGED <<kind, status>>
    BY <1>9 DEF CallBreaks, CallHangs, Restart
  <2>2. /\ DOMAIN iQueue' = DOMAIN iQueue /\ handling'.msg = handling.msg
        /\ \A i \in DOMAIN iQueue : iQueue'[i].msg = iQueue[i].msg
    BY <2>1, Abandoning DEF Inv, TypeOK
  <2> QED
    BY <1>1, <2>1, <2>2
<1>10. CASE \/ Client \/ IngressStarts \/ (Egress /\ ~CallIngress)
            \/ \E c \in Connections : Arrive(c) \/ SessionEnds(c) \/ \E m \in Messages : Deliver(c, m)
  <2>1. UNCHANGED <<kind, status, iQueue, handling>>
    BY <1>10 DEF Client, IngressStarts, Arrive, SessionEnds, Deliver, Egress, Listen, DeliveriesClosed,
                 TakeSilent, Take, CallFails, Returns, Settle
  <2> QED
    BY <1>2, <2>1
<1> QED
  BY <1>3, <1>4, <1>5, <1>6, <1>7, <1>8, <1>9, <1>10 DEF Next, Ingress, Panic, IngressStops

LEMMA AttentionStutter ==
  ASSUME UNCHANGED vars, Attentive, NoDeliveryForgotten, WaitingIsAttended
  PROVE  Attentive' /\ NoDeliveryForgotten' /\ WaitingIsAttended'
<1>1. UNCHANGED <<unacked, consumers, pc, source, inbox, current, dialer, conn, up, channel, session,
                  wire, kind, status, handling, iQueue>>
  BY DEF vars, amqpVars, clientVars, brokerVars, egressVars, ingressVars
<1> QED
  BY <1>1 DEF Attentive, NoDeliveryForgotten, WaitingIsAttended, SourceClosed, Held, Answered

LEMMA AttentionHolds == Spec => [](Inv /\ Attentive /\ NoDeliveryForgotten /\ WaitingIsAttended)
<1> DEFINE More == Attentive /\ NoDeliveryForgotten /\ WaitingIsAttended
<1>1. Init => More
  BY AttentionInit
<1>2. Inv /\ More /\ [Next]_vars => More'
  <2>1. ASSUME Inv, More, Next PROVE More'
    <3>1. Attentive'
      BY <2>1, AttentiveClient, AttentiveOthers
    <3>2. NoDeliveryForgotten'
      BY <2>1, ForgottenEgress, ForgottenArrive, ForgottenOthers DEF Next
    <3> QED
      BY <2>1, <3>1, <3>2, WaitingNext
  <2> QED
    BY <2>1, AttentionStutter
<1>3. Inv /\ More => Inv /\ Attentive /\ NoDeliveryForgotten /\ WaitingIsAttended
  OBVIOUS
<1> HIDE DEF More
<1> QED
  BY <1>1, <1>2, <1>3, InvHolds, PTL DEF Spec

\* However connections end and whatever breaks: a message that the egress was
\* delivered and has not settled is in its hands, or its verdict is on the way, or
\* it is one that it never answers; the goroutine forgets none.
THEOREM UnsettledIsAttendedHolds == Spec => []UnsettledIsAttended
<1>1. Inv /\ Attentive /\ NoDeliveryForgotten => UnsettledIsAttended
  <2> SUFFICES ASSUME Inv, Attentive, NoDeliveryForgotten,
                      NEW m \in Messages, settled[m] = "no", m \notin queue
               PROVE  \/ \E c \in Connections : m \in unacked[c] /\ ~(up /\ c = conn)
                      \/ /\ up /\ source = conn /\ m \in unacked[conn]
                         /\ kind[m] = "silent" \/ m \in Held \/ Answered(m)
    BY DEF UnsettledIsAttended
  <2>1. PICK c \in Connections : m \in unacked[c]
    BY DEF Inv, OnePlace
  <2>2. CASE up /\ c = conn
    BY <2>1, <2>2, OthersHaveNothing DEF NoDeliveryForgotten
  <2> QED
    BY <2>1, <2>2
<1> QED
  BY <1>1, AttentionHolds, PTL

\* Whichever end of a call is lost, and whenever the ingress panics or is stopped:
\* the call of another installation waits only while the ingress has it, or if it is
\* of the kind that it never answers.
THEOREM WaitingIsAttendedHolds == Spec => []WaitingIsAttended
BY AttentionHolds, PTL
==============================================================================
