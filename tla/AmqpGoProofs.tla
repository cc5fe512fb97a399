----------------------------- MODULE AmqpGoProofs -----------------------------
(***************************************************************************)
(* What holds of the AMQP client of module AmqpGo in every service that    *)
(* owns one: it keeps its types, and all connections it has dialled but    *)
(* the last have been lost or left behind by a process that ended.         *)
(***************************************************************************)
EXTENDS AmqpGo, SequenceTheorems, TLAPS

MaxConnection == MaxLosses + MaxCrashes + 1

\* The first n connections have been dialled, and no others.
Dialled(n) == \A c \in Connections : session[c] # "none" <=> c <= n

\* The number of connections dialled.
Top == CHOOSE n \in 0 .. MaxConnection : Dialled(n)

\* The client has the last connection, or none.
Numbered ==
  /\ \E n \in 0 .. MaxConnection : Dialled(n)
  /\ conn # 0 => conn = Top
  /\ up => conn # 0
  /\ dialer = "dialing" => ~up

\* The client has a connection that both sides keep.
Alive == up /\ session[conn] = "open"

\* How many connections broke that need not have been replaced.
Spare == losses + (IF Alive THEN 1 ELSE 0) - Top

------------------------------------------------------------------------------
\* Connections are numbers from 1.
LEMMA Connecting == /\ Connections = 1 .. MaxConnection /\ MaxConnection \in Nat
                    /\ Connections \subseteq Nat /\ 0 \notin Connections
BY AmqpAssumption DEF Connections, MaxConnection

\* Top is the number of connections dialled, now and after a step.
LEMMA TopIs ==
  ASSUME NEW n \in 0 .. MaxConnection
  PROVE  /\ Dialled(n) => Top = n
         /\ Dialled(n)' => Top' = n
<1>1. ASSUME NEW k \in 0 .. MaxConnection, NEW j \in 0 .. MaxConnection, Dialled(j), Dialled(k)
      PROVE  j = k
  <2>1. CASE j < k
    <3>1. k \in Connections
      BY <2>1, Connecting
    <3> QED
      BY <1>1, <2>1, <3>1 DEF Dialled
  <2>2. CASE k < j
    <3>1. j \in Connections
      BY <2>2, Connecting
    <3> QED
      BY <1>1, <2>2, <3>1 DEF Dialled
  <2> QED
    BY <2>1, <2>2, Connecting
<1>2. ASSUME NEW k \in 0 .. MaxConnection, NEW j \in 0 .. MaxConnection, Dialled(j)', Dialled(k)'
      PROVE  j = k
  <2>1. CASE j < k
    <3>1. k \in Connections
      BY <2>1, Connecting
    <3> QED
      BY <1>2, <2>1, <3>1 DEF Dialled
  <2>2. CASE k < j
    <3>1. j \in Connections
      BY <2>2, Connecting
    <3> QED
      BY <1>2, <2>2, <3>1 DEF Dialled
  <2> QED
    BY <2>1, <2>2, Connecting
<1> QED
  BY <1>1, <1>2 DEF Top

\* What Numbered says of Top.
LEMMA TopFacts ==
  ASSUME Numbered
  PROVE  Top \in 0 .. MaxConnection /\ Dialled(Top) /\ Top \in Nat
<1>1. PICK n \in 0 .. MaxConnection : Dialled(n)
  BY DEF Numbered
<1> QED
  BY <1>1, TopIs, Connecting

\* Numbered and Spare are about numbers of connections, before and after a step.
LEMMA SpareIsInt ==
  ASSUME NEW F
  PROVE  /\ AmqpTypeOK(F) /\ Numbered => Spare \in Int
         /\ (AmqpTypeOK(F) /\ Numbered)' => Spare' \in Int
<1>1. ASSUME AmqpTypeOK(F), Numbered PROVE Spare \in Int
  BY <1>1, TopFacts, AmqpAssumption DEF Spare, AmqpTypeOK
<1>2. ASSUME (AmqpTypeOK(F) /\ Numbered)' PROVE Spare' \in Int
  <2>1. PICK n \in 0 .. MaxConnection : Dialled(n)'
    BY <1>2 DEF Numbered
  <2>2. Top' \in Nat
    BY <2>1, TopIs, Connecting
  <2>3. losses' \in Nat
    BY <1>2, AmqpAssumption DEF AmqpTypeOK
  <2> QED
    BY <2>2, <2>3 DEF Spare
<1> QED
  BY <1>1, <1>2

\* Top and Numbered look at sessions only for whether they were ever opened.
LEMMA TopKept ==
  ASSUME Numbered, \A d \in Connections : session'[d] # "none" <=> session[d] # "none"
  PROVE  Top' = Top /\ \E n \in 0 .. MaxConnection : Dialled(n)'
<1>1. PICK n \in 0 .. MaxConnection : Dialled(n)
  BY DEF Numbered
<1>2. Dialled(n)'
  BY <1>1 DEF Dialled
<1>3. Top = n /\ Top' = n
  BY <1>1, <1>2, TopIs
<1> QED
  BY <1>2, <1>3

\* A loss is counted up to its bound.
LEMMA LossCounted ==
  ASSUME losses \in 0 .. MaxLosses, Loss \/ UNCHANGED losses
  PROVE  losses' \in 0 .. MaxLosses
BY AmqpAssumption DEF Loss

------------------------------------------------------------------------------
\* The client begins without a connection.
LEMMA ClientInit ==
  ASSUME NEW F, AmqpInit
  PROVE  AmqpTypeOK(F) /\ Numbered /\ Top = 0 /\ Spare = 0
<1>1. AmqpTypeOK(F)
  <2>1. losses \in 0 .. MaxLosses
    BY AmqpAssumption DEF AmqpInit
  <2>2. <<>> \in Seq(F)
    OBVIOUS
  <2>3. wire \in [Connections -> Seq(F)]
    BY <2>2 DEF AmqpInit
  <2> QED
    BY <2>1, <2>3 DEF AmqpInit, AmqpTypeOK
<1>2. Dialled(0) /\ 0 \in 0 .. MaxConnection
  BY Connecting DEF AmqpInit, Dialled
<1>3. Top = 0
  BY <1>2, TopIs
<1>4. Numbered
  BY <1>2 DEF AmqpInit, Numbered
<1>5. Spare = 0
  BY <1>3 DEF AmqpInit, Spare, Alive
<1> QED
  BY <1>1, <1>3, <1>4, <1>5

\* Its own steps dial the next connection when it has lost the last one.
LEMMA ClientSteps ==
  ASSUME NEW F, AmqpTypeOK(F), Numbered, ClientNext
  PROVE  /\ AmqpTypeOK(F)' /\ Numbered' /\ Spare' >= Spare /\ wire' = wire
         /\ \/ session' = session /\ Top' = Top /\ conn' = conn /\ (up' => up)
            \/ /\ Top + 1 \in Connections /\ Top' = Top + 1 /\ ~up /\ up' /\ conn' = Top'
               /\ session' = [session EXCEPT ![Top + 1] = "open"]
<1>1. Top \in 0 .. MaxConnection /\ Dialled(Top) /\ Top \in Nat
  BY TopFacts
<1>2. CASE Dial
  <2>1. PICK c \in Connections :
          /\ session[c] = "none" /\ \A d \in Connections : d < c => session[d] # "none"
          /\ conn' = c /\ session' = [session EXCEPT ![c] = "open"]
    BY <1>2 DEF Dial
  <2>2. c > Top
    BY <1>1, <2>1, Connecting DEF Dialled
  <2>3. c <= Top + 1
    <3>1. SUFFICES ASSUME c > Top + 1
                   PROVE  FALSE
      BY <1>1, Connecting
    <3>2. Top + 1 \in Connections /\ Top + 1 < c
      BY <1>1, <3>1, Connecting
    <3> QED
      BY <1>1, <2>1, <3>2 DEF Dialled
  <2>4. c = Top + 1
    BY <1>1, <2>2, <2>3, Connecting
  <2>5. Dialled(c)'
    BY <1>1, <2>1, <2>4, Connecting DEF Dialled, AmqpTypeOK
  <2>6. Top' = c /\ c \in 0 .. MaxConnection
    BY <2>5, TopIs, Connecting
  <2>7. AmqpTypeOK(F)'
    BY <1>2, <2>1 DEF Dial, AmqpTypeOK
  <2>8. Numbered' /\ Alive' /\ ~up /\ up'
    BY <1>2, <2>1, <2>5, <2>6, Connecting DEF Dial, Numbered, Alive, AmqpTypeOK
  <2>9. Spare' >= Spare
    BY <1>1, <1>2, <2>4, <2>6, <2>8 DEF Spare, Dial, Alive, AmqpTypeOK
  <2> QED
    BY <1>2, <2>1, <2>4, <2>6, <2>7, <2>8, <2>9 DEF Dial
<1>3. CASE ~Dial
  <2>1. OpenChannel \/ Watch \/ Reconnect \/ ClientLoses
    BY <1>3 DEF ClientNext
  <2>2. session' = session /\ conn' = conn /\ wire' = wire
    BY <2>1 DEF OpenChannel, Watch, Reconnect, ClientLoses
  <2>3. Top' = Top /\ \E n \in 0 .. MaxConnection : Dialled(n)'
    BY <2>2, TopKept
  <2>4. Top' = Top
    BY <2>3
  <2>5. AmqpTypeOK(F)'
    <3>1. losses' \in 0 .. MaxLosses
      BY <2>1, LossCounted DEF OpenChannel, Watch, Reconnect, ClientLoses, AmqpTypeOK
    <3>2. CASE OpenChannel
      BY <3>2 DEF OpenChannel, AmqpTypeOK
    <3>3. CASE Watch
      BY <3>3 DEF Watch, AmqpTypeOK
    <3>4. CASE Reconnect
      BY <3>4 DEF Reconnect, AmqpTypeOK
    <3>5. CASE ClientLoses
      BY <3>1, <3>5 DEF ClientLoses, AmqpTypeOK
    <3> QED
      BY <2>1, <3>2, <3>3, <3>4, <3>5
  <2>8. up' => up
    BY <2>1 DEF OpenChannel, Watch, Reconnect, ClientLoses
  <2>6. Numbered'
    <3>1. up' => up
      BY <2>8
    <3>2. dialer' = "dialing" => ~up'
      BY <2>1 DEF OpenChannel, Watch, Reconnect, ClientLoses, Numbered
    <3> QED
      BY <2>2, <2>3, <3>1, <3>2 DEF Numbered
  <2>7. Spare' >= Spare
    <3>1. losses \in Nat /\ losses' \in Nat
      BY <2>5, AmqpAssumption DEF AmqpTypeOK
    <3>2. CASE ClientLoses
      <4>1. up /\ ~Alive'
        BY <3>2 DEF ClientLoses, Alive
      <4>2. losses' = losses + (IF Alive THEN 1 ELSE 0)
        BY <3>1, <3>2, <4>1 DEF ClientLoses, Loss, Alive
      <4> QED
        BY <1>1, <2>4, <3>1, <4>1, <4>2 DEF Spare
    <3>3. CASE OpenChannel \/ Watch \/ Reconnect
      <4>1. losses' = losses /\ up' = up
        BY <3>3 DEF OpenChannel, Watch, Reconnect
      <4>2. Alive' <=> Alive
        BY <2>2, <4>1 DEF Alive
      <4> QED
        BY <1>1, <2>4, <3>1, <4>1, <4>2 DEF Spare
    <3> QED
      BY <2>1, <3>2, <3>3
  <2> QED
    BY <2>2, <2>4, <2>5, <2>6, <2>7, <2>8
<1> QED
  BY <1>2, <1>3

\* The end of a session is a loss, unless the client has noticed before.
LEMMA SessionSteps ==
  ASSUME NEW F, AmqpTypeOK(F), Numbered, NEW c \in Connections, EndSession(c)
  PROVE  /\ AmqpTypeOK(F)' /\ Numbered' /\ Top' = Top /\ Spare' >= Spare
         /\ session' = [session EXCEPT ![c] = "ended"] /\ wire' = [wire EXCEPT ![c] = <<>>]
<1>1. Top \in 0 .. MaxConnection /\ Dialled(Top) /\ Top \in Nat
  BY TopFacts
<1>2. \A d \in Connections : session'[d] # "none" <=> session[d] # "none"
  BY DEF EndSession, AmqpTypeOK
<1>3. Top' = Top /\ \E n \in 0 .. MaxConnection : Dialled(n)'
  BY <1>2, TopKept
<1>4. wire' \in [Connections -> Seq(F)]
  <2>1. <<>> \in Seq(F)
    OBVIOUS
  <2> QED
    BY <2>1 DEF EndSession, AmqpTypeOK
<1>5. losses' \in 0 .. MaxLosses
  BY LossCounted DEF EndSession, AmqpTypeOK
<1>6. AmqpTypeOK(F)'
  BY <1>4, <1>5 DEF EndSession, clientVars, AmqpTypeOK
<1>7. Numbered'
  BY <1>1, <1>3 DEF EndSession, clientVars, Numbered
<1>8. Spare' >= Spare
  <2>1. losses \in Nat /\ losses' \in Nat
    BY <1>5, AmqpAssumption DEF AmqpTypeOK
  <2>2. CASE up /\ c = conn
    <3>1. ~Alive' /\ losses' = losses + 1
      BY <2>2 DEF EndSession, Loss, clientVars, Alive, AmqpTypeOK
    <3> QED
      BY <1>1, <1>3, <2>1, <3>1 DEF Spare
  <2>3. CASE ~ (up /\ c = conn)
    <3>1. losses' = losses /\ (Alive' <=> Alive)
      BY <2>3 DEF EndSession, clientVars, Alive, AmqpTypeOK
    <3> QED
      BY <1>1, <1>3, <2>1, <3>1 DEF Spare
  <2> QED
    BY <2>2, <2>3
<1> QED
  BY <1>3, <1>6, <1>7, <1>8 DEF EndSession

\* A restart leaves one connection behind.
LEMMA RestartSteps ==
  ASSUME NEW F, AmqpTypeOK(F), Numbered, RestartClient
  PROVE  /\ AmqpTypeOK(F)' /\ Numbered' /\ Top' = Top /\ Spare' + 1 >= Spare
<1>1. Top \in 0 .. MaxConnection /\ Dialled(Top) /\ Top \in Nat
  BY TopFacts
<1>2. Top' = Top /\ \E n \in 0 .. MaxConnection : Dialled(n)'
  BY TopKept DEF RestartClient
<1>3. AmqpTypeOK(F)'
  BY DEF RestartClient, AmqpTypeOK
<1>4. Numbered'
  BY <1>2 DEF RestartClient, Numbered
<1>5. losses \in Nat /\ losses' = losses /\ ~Alive'
  BY AmqpAssumption DEF RestartClient, AmqpTypeOK, Alive
<1>6. Spare' + 1 >= Spare
  BY <1>1, <1>2, <1>5 DEF Spare
<1> QED
  BY <1>2, <1>3, <1>4, <1>6

\* Without a step of client or session nothing changes.
LEMMA ConnectionsKept ==
  ASSUME UNCHANGED <<clientVars, session, losses>>, Numbered
  PROVE  Numbered' /\ Top' = Top /\ Spare' = Spare /\ (Alive' <=> Alive)
<1>1. Top' = Top
  BY DEF Top, Dialled
<1> QED
  BY <1>1 DEF clientVars, Numbered, Dialled, Spare, Alive

------------------------------------------------------------------------------
\* What is on the wire.
LEMMA OnWire ==
  ASSUME NEW F, wire \in [Connections -> Seq(F)], NEW c \in Connections
  PROVE  /\ Len(wire[c]) \in Nat /\ DOMAIN wire[c] = 1 .. Len(wire[c])
         /\ \A i \in DOMAIN wire[c] : wire[c][i] \in F
<1>1. wire[c] \in Seq(F)
  OBVIOUS
<1> QED
  BY <1>1, LenProperties

\* A frame written to a session goes behind the others of its connection.
LEMMA Sending ==
  ASSUME NEW F, wire \in [Connections -> Seq(F)], NEW c \in Connections, NEW f \in F, Send(c, f)
  PROVE  /\ wire' \in [Connections -> Seq(F)]
         /\ \A d \in Connections : \A i \in DOMAIN wire'[d] :
              \/ i \in DOMAIN wire[d] /\ wire'[d][i] = wire[d][i]
              \/ d = c /\ session[c] = "open" /\ i = Len(wire[c]) + 1 /\ wire'[d][i] = f
         /\ \A d \in Connections : session[d] # "open" => wire'[d] = wire[d]
<1>1. CASE session[c] # "open"
  BY <1>1 DEF Send
<1>2. CASE session[c] = "open"
  <2>1. wire' = [wire EXCEPT ![c] = Append(wire[c], f)]
    BY <1>2 DEF Send
  <2> DEFINE s == Append(wire[c], f)
             n == Len(wire[c])
  <2>2. wire[c] \in Seq(F)
    OBVIOUS
  <2>3. s \in Seq(F) /\ Len(s) = n + 1 /\ \A i \in 1 .. n : s[i] = wire[c][i]
    BY <2>2, AppendProperties
  <2>4. s[n + 1] = f
    BY <2>2, AppendProperties
  <2>5. n \in Nat /\ DOMAIN wire[c] = 1 .. n /\ DOMAIN s = 1 .. n + 1
    BY <2>2, <2>3, LenProperties
  <2> HIDE DEF s, n
  <2>6. \A i \in DOMAIN s : i \in 1 .. n \/ i = n + 1
    BY <2>5
  <2>7. wire' = [wire EXCEPT ![c] = s]
    BY <2>1 DEF s
  <2>8. \A d \in Connections : wire'[d] = IF d = c THEN s ELSE wire[d]
    BY <2>7
  <2>9. wire' \in [Connections -> Seq(F)]
    BY <2>3, <2>7
  <2>10. ASSUME NEW d \in Connections, NEW i \in DOMAIN wire'[d]
         PROVE  \/ i \in DOMAIN wire[d] /\ wire'[d][i] = wire[d][i]
                \/ d = c /\ session[c] = "open" /\ i = n + 1 /\ wire'[d][i] = f
    BY <1>2, <2>3, <2>4, <2>5, <2>6, <2>8, <2>10
  <2> QED
    BY <1>2, <2>8, <2>9, <2>10 DEF n
<1> QED
  BY <1>1, <1>2

\* When the broker takes the first frame of a connection the others move up.
LEMMA Arriving ==
  ASSUME NEW F, wire \in [Connections -> Seq(F)], NEW c \in Connections, wire[c] # <<>>,
         wire' = [wire EXCEPT ![c] = Tail(@)]
  PROVE  /\ Head(wire[c]) = wire[c][1] /\ 1 \in DOMAIN wire[c] /\ Head(wire[c]) \in F
         /\ wire' \in [Connections -> Seq(F)]
         /\ \A d \in Connections \ {c} : wire'[d] = wire[d]
         /\ \A i \in DOMAIN wire'[c] :
              i \in Nat \ {0} /\ i + 1 \in DOMAIN wire[c] /\ wire'[c][i] = wire[c][i + 1]
<1>1. wire[c] \in Seq(F)
  OBVIOUS
<1>2. /\ Head(wire[c]) \in F /\ Tail(wire[c]) \in Seq(F)
      /\ Len(Tail(wire[c])) = Len(wire[c]) - 1
      /\ \A i \in 1 .. Len(Tail(wire[c])) : Tail(wire[c])[i] = wire[c][i + 1]
  BY <1>1, HeadTailProperties
<1>3. /\ Len(wire[c]) \in Nat /\ DOMAIN wire[c] = 1 .. Len(wire[c])
      /\ Len(Tail(wire[c])) \in Nat /\ DOMAIN Tail(wire[c]) = 1 .. Len(Tail(wire[c]))
  BY <1>1, <1>2, LenProperties
<1>4. Head(wire[c]) = wire[c][1] /\ 1 \in DOMAIN wire[c]
  BY <1>1, <1>2, <1>3
<1>5. wire'[c] = Tail(wire[c]) /\ \A d \in Connections \ {c} : wire'[d] = wire[d]
  OBVIOUS
<1>6. ASSUME NEW i \in DOMAIN wire'[c]
      PROVE  i \in Nat \ {0} /\ i + 1 \in DOMAIN wire[c] /\ wire'[c][i] = wire[c][i + 1]
  <2>1. i \in 1 .. Len(Tail(wire[c]))
    BY <1>3, <1>5
  <2> QED
    BY <1>2, <1>3, <1>5, <2>1
<1> QED
  BY <1>2, <1>4, <1>5, <1>6
==============================================================================
