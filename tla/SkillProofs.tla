----------------------------- MODULE SkillProofs -----------------------------
(***************************************************************************)
(* What holds of module Skill for any number of messages, any mixture of   *)
(* them, both configurations, and any number of crashes and faults.        *)
(***************************************************************************)
EXTENDS Skill, SequenceTheorems, TLAPS

(***************************************************************************)
(* The edges of the statechart, said once so that no later proof expands   *)
(* them.                                                                   *)
(***************************************************************************)
\* The command lists of the statechart have at most two members.
LEMMA ShortLists ==
  /\ <<>> \in Seq(Messages)
  /\ \A t : ~Has(<<>>, t)
  /\ \A a \in Messages : /\ <<a>> \in Seq(Messages)
                         /\ \A t : Has(<<a>>, t) => t = a
  /\ \A a, b \in Messages : /\ <<a, b>> \in Seq(Messages)
                            /\ \A t : Has(<<a, b>>, t) => t \in {a, b}
BY DEF Has

\* A list of one command is that command.
LEMMA SingleCommands ==
  ASSUME NEW a \in Messages, NEW do, do = <<a>>
  PROVE  /\ do \in Seq(Messages)
         /\ \A t \in Messages : t # a => ~Has(do, t)
BY ShortLists

\* A message takes the machine out of a state that waits for one.
LEMMA MessageEdgeFacts ==
  ASSUME NEW d \in MessageEdges
  PROVE  /\ d.from \in {InitialState, "WaitingForApproval", "WaitingForType"}
         /\ d.to \in States \ {InitialState}
         /\ d.do \in Seq(Messages)
         /\ d.to = "WaitingForApproval" => d.from = InitialState /\ AskForApproval
         /\ d.to = "CreatingInstance" =>
              \/ d.from = "WaitingForApproval" /\ d.on = "APPROVED_FROM_APPROVER"
              \/ d.from = RequestEdge.from /\ RequestEdge.to = "CreatingInstance"
         /\ Has(d.do, "requestApproval") =>
              d.from = InitialState /\ d.to = "WaitingForApproval"
         /\ ~Has(d.do, "responseInstance")
<1>1. CASE d = RequestEdge
  <2>1. CASE AskForApproval
    <3>1. /\ d.from = InitialState
          /\ d.to = "WaitingForApproval"
          /\ d.do = <<"requestApproval">>
      BY <1>1, <2>1 DEF RequestEdge, Edge
    <3>2. "requestApproval" \in Messages /\ "responseInstance" \in Messages
      BY DEF Messages
    <3>3. d.do \in Seq(Messages) /\ ~Has(d.do, "responseInstance")
      BY <3>1, <3>2, SingleCommands
    <3>4. d.to \in States \ {InitialState}
      BY <3>1 DEF States, InitialState
    <3>5. QED
      BY <2>1, <3>1, <3>3, <3>4
  <2>2. CASE ~AskForApproval
    <3>1. d.from = InitialState /\ d.to = "CreatingInstance" /\ d.do = <<>>
      BY <1>1, <2>2 DEF RequestEdge, Edge
    <3>2. QED
      BY <1>1, <3>1, ShortLists DEF States, InitialState
  <2>3. QED BY <2>1, <2>2
<1>2. CASE d \in ApprovalEdges
  <2>1. /\ d.from = "WaitingForApproval"
        /\ \/ /\ d.on = "APPROVED_FROM_APPROVER" /\ d.to = "CreatingInstance"
              /\ d.do = <<>>
           \/ d.to = "OperationFailed" /\ d.do = <<"requestRefused">>
    BY <1>2 DEF ApprovalEdges, Edge
  <2>2. d.do \in Seq(Messages) /\ ~Has(d.do, "requestApproval") /\ ~Has(d.do, "responseInstance")
    <3>1. "requestRefused" \in Messages /\ "requestApproval" \in Messages
          /\ "responseInstance" \in Messages
      BY DEF Messages
    <3>2. CASE d.do = <<>>
      BY <3>2, ShortLists
    <3>3. CASE d.do = <<"requestRefused">>
      BY <3>1, <3>3, SingleCommands
    <3> QED
      BY <2>1, <3>2, <3>3
  <2>3. d.to \in States \ {InitialState} /\ d.to # "WaitingForApproval"
    BY <2>1 DEF States, FinalStates, InitialState
  <2>4. QED
    BY <2>1, <2>2, <2>3
<1>3. CASE d \in TypeEdges
  <2>1. /\ d.from = "WaitingForType"
        /\ d.to \in {"InstanceAndTypePublished", "InstancePublished"}
        /\ d.do \in {<<>>, <<"responseType">>}
    BY <1>3 DEF TypeEdges, Edge
  <2>2. d.do \in Seq(Messages) /\ ~Has(d.do, "requestApproval") /\ ~Has(d.do, "responseInstance")
    <3>1. "responseType" \in Messages /\ "requestApproval" \in Messages
          /\ "responseInstance" \in Messages
      BY DEF Messages
    <3>2. CASE d.do = <<>>
      BY <3>2, ShortLists
    <3>3. CASE d.do = <<"responseType">>
      BY <3>1, <3>3, SingleCommands
    <3> QED
      BY <2>1, <3>2, <3>3
  <2>3. d.to \in States \ {InitialState} /\ d.to \notin {"WaitingForApproval", "CreatingInstance"}
    BY <2>1 DEF States, FinalStates, InitialState
  <2>4. QED
    BY <2>1, <2>2, <2>3
<1>4. QED BY <1>1, <1>2, <1>3 DEF MessageEdges

\* The end of createInstance takes it out of CreatingInstance, and only a
\* success is reported as one.
LEMMA RestEdgeFacts ==
  ASSUME NEW d \in RestEdges
  PROVE  /\ d.from = "CreatingInstance"
         /\ d.on \in RestOutcomes
         /\ d.to \in {CreatedEdge.to, "OperationFailed"}
         /\ d.to \in States \ {InitialState, "WaitingForApproval", "CreatingInstance"}
         /\ d.do \in Seq(Messages)
         /\ ~Has(d.do, "requestApproval")
         /\ Has(d.do, "responseInstance") => d.on = "done"
<1>1. CASE d = CreatedEdge
  <2>1. /\ d.from = "CreatingInstance" /\ d.on = "done"
        /\ d.to \in {"WaitingForType", "InstancePublished"}
        /\ d.do \in {<<"responseInstance", "requestType">>, <<"responseInstance">>}
    BY <1>1 DEF CreatedEdge, Edge
  <2> DEFINE r == "responseInstance"
             q == "requestType"
  <2>2. r \in Messages /\ q \in Messages
    BY DEF Messages
  <2>3. /\ <<r>> \in Seq(Messages) /\ <<r, q>> \in Seq(Messages)
        /\ ~Has(<<r>>, "requestApproval") /\ ~Has(<<r, q>>, "requestApproval")
    <3> HIDE DEF r, q
    <3>1. "requestApproval" \notin {r, q}
      BY DEF r, q
    <3>2. QED BY <2>2, <3>1, ShortLists
  <2>4. QED
    BY <1>1, <2>1, <2>3 DEF States, FinalStates, InitialState, RestOutcomes
<1>2. CASE d \in CreationErrorEdges
  <2>1. /\ d.from = "CreatingInstance" /\ d.on \in RestFailures
        /\ d.to = "OperationFailed" /\ d.do = <<CreationError(d.on)>>
    BY <1>2 DEF CreationErrorEdges, Edge
  <2>2. CreationError(d.on) \in {"notUnderstood", "requestRefused", "error"}
    BY DEF CreationError
  <2>3. /\ d.do \in Seq(Messages)
        /\ ~Has(d.do, "requestApproval") /\ ~Has(d.do, "responseInstance")
    <3> DEFINE a == CreationError(d.on)
    <3>1. a \in Messages /\ a # "requestApproval" /\ a # "responseInstance"
          /\ "requestApproval" \in Messages /\ "responseInstance" \in Messages
      BY <2>2 DEF Messages
    <3> HIDE DEF a
    <3>2. d.do = <<a>>
      BY <2>1 DEF a
    <3>3. QED
      BY <3>1, <3>2, SingleCommands
  <2>4. d.on \in RestOutcomes /\ d.to \in States \ {InitialState, "WaitingForApproval", "CreatingInstance"}
    BY <2>1 DEF States, FinalStates, InitialState, RestOutcomes
  <2>5. QED
    BY <2>1, <2>3, <2>4
<1>3. QED BY <1>1, <1>2 DEF RestEdges

(***************************************************************************)
(* What the helpers of the actions do, said the same way.                  *)
(***************************************************************************)
LEMMA ConcatHas ==
  ASSUME NEW s \in Seq(Messages), NEW t \in Seq(Messages)
  PROVE  /\ s \o t \in Seq(Messages)
         /\ \A m : Has(s \o t, m) => Has(s, m) \/ Has(t, m)
BY ConcatProperties, SMTT(30) DEF Has

\* What is left of a queue after a commit was in it before.
LEMMA SuffixHas ==
  ASSUME NEW s \in Seq(Messages), NEW n \in 0 .. Len(s)
  PROVE  /\ SubSeq(s, n + 2, Len(s)) \in Seq(Messages)
         /\ \A m : Has(SubSeq(s, n + 2, Len(s)), m) => Has(s, m)
<1>1. /\ Len(s) \in Nat /\ n + 2 \in Int
      /\ \A i \in n + 2 .. Len(s) : s[i] \in Messages
  OBVIOUS
<1>2. /\ SubSeq(s, n + 2, Len(s)) \in Seq(Messages)
      /\ Len(SubSeq(s, n + 2, Len(s))) =
           IF n + 2 <= Len(s) THEN Len(s) - (n + 2) + 1 ELSE 0
      /\ \A i \in 1 .. Len(s) - (n + 2) + 1 :
           SubSeq(s, n + 2, Len(s))[i] = s[n + 2 + i - 1]
  BY <1>1, SubSeqProperties
<1>3. ASSUME NEW m, NEW i \in 1 .. Len(SubSeq(s, n + 2, Len(s))),
             SubSeq(s, n + 2, Len(s))[i] = m
      PROVE  Has(s, m)
  <2>1. n + 2 + i - 1 \in 1 .. Len(s)
    BY <1>1, <1>2, <1>3
  <2>2. s[n + 2 + i - 1] = m
    BY <1>1, <1>2, <1>3
  <2>3. QED BY <2>1, <2>2 DEF Has
<1>4. QED BY <1>2, <1>3 DEF Has

LEMMA ReplyEffect ==
  ASSUME TypeOK, NEW h \in Handlers, NEW type \in Messages, Reply(h, type)
  PROVE  /\ sent' \subseteq Sent /\ sent \subseteq sent'
         /\ \A m \in sent' \ sent : m.from = h /\ m.type = type /\ m.via = "reply"
BY DEF Reply, Sent, TypeOK

\* A commit publishes what was queued, answers at most with an error, and leaves
\* the queues of the other handlers alone.
LEMMA CommitEffect ==
  ASSUME TypeOK, NEW w \in writes, Commit(w)
  PROVE  /\ queue' \in [Handlers -> Seq(Messages)]
         /\ \A h \in Handlers : \A t : Has(queue'[h], t) => Has(queue[h], t)
         /\ \A h \in Handlers : h # w.by => queue'[h] = queue[h]
         /\ sent' \subseteq Sent /\ sent \subseteq sent'
         /\ \A m \in sent' \ sent :
              /\ m.from = w.by
              /\ \/ m.via = "commit" /\ Has(queue[w.by], m.type)
                 \/ m.via = "reply" /\ m.type = "error"
<1> DEFINE h == w.by
           q == queue[h]
<1>1. h \in Handlers /\ q \in Seq(Messages) /\ w.external \in BOOLEAN
  BY DEF TypeOK, Write
<1>2. PICK n \in 0 .. Len(q) :
        /\ queue' = [queue EXCEPT ![h] = SubSeq(q, n + 2, Len(q))]
        /\ sent' = sent
             \cup {[from |-> h, type |-> q[i], via |-> "commit"] : i \in 1 .. n}
             \cup (IF n < Len(q) /\ w.external /\ broker = "up"
                   THEN {[from |-> h, type |-> "error", via |-> "reply"]} ELSE {})
  BY DEF Commit
<1>3. /\ SubSeq(q, n + 2, Len(q)) \in Seq(Messages)
      /\ \A m : Has(SubSeq(q, n + 2, Len(q)), m) => Has(q, m)
  BY <1>1, SuffixHas
<1>4. \A i \in 1 .. n : q[i] \in Messages /\ Has(q, q[i])
  BY <1>1 DEF Has
<1>5. ASSUME NEW m \in sent' \ sent
      PROVE  /\ m \in Sent /\ m.from = h
             /\ \/ m.via = "commit" /\ Has(q, m.type)
                \/ m.via = "reply" /\ m.type = "error"
  BY <1>1, <1>2, <1>4 DEF Sent, Messages
<1>6. queue \in [Handlers -> Seq(Messages)] /\ sent \subseteq Sent
  BY DEF TypeOK
<1>7. QED BY <1>1, <1>2, <1>3, <1>5, <1>6

\* Taking an edge: one write more, not performed yet, and perhaps commands more.
LEMMA TransitionEffect ==
  ASSUME TypeOK, NEW h \in Handlers, NEW d \in Edges, NEW base \in Nat,
         NEW commands \in Seq(Messages), NEW external \in BOOLEAN,
         Transition(h, d, base, commands, external)
  PROVE  /\ machine' \in [Handlers -> States]
         /\ counter' \in [Handlers -> Nat]
         /\ queue' \in [Handlers -> Seq(Messages)]
         /\ \A g \in Handlers : g # h => queue'[g] = queue[g]
         /\ \A t : Has(queue'[h], t) => Has(commands, t) \/ Has(d.do, t)
         /\ writes' \subseteq Write
         /\ writes' = writes \cup
              {[by |-> h, base |-> base, state |-> d.to, external |-> external,
                stored |-> FALSE, status |-> "sent"]}
<1>1. d.to \in States /\ d.do \in Seq(Messages)
  BY MessageEdgeFacts, RestEdgeFacts DEF Edges
<1>2. /\ commands \o d.do \in Seq(Messages)
      /\ \A t : Has(commands \o d.do, t) => Has(commands, t) \/ Has(d.do, t)
  BY <1>1, ConcatHas
<1>3. machine' \in [Handlers -> States] /\ counter' \in [Handlers -> Nat]
  BY <1>1 DEF Transition, TypeOK
<1>4. /\ queue' \in [Handlers -> Seq(Messages)]
      /\ \A g \in Handlers : g # h => queue'[g] = queue[g]
      /\ queue'[h] = commands \o d.do
  <2>1. queue' = [queue EXCEPT ![h] = commands \o d.do]
    BY DEF Transition
  <2>2. queue \in [Handlers -> Seq(Messages)]
    BY DEF TypeOK
  <2>3. QED BY <1>2, <2>1, <2>2
<1>5. /\ writes' = writes \cup
           {[by |-> h, base |-> base, state |-> d.to, external |-> external,
             stored |-> FALSE, status |-> "sent"]}
      /\ writes' \subseteq Write
  <2>1. [by |-> h, base |-> base, state |-> d.to, external |-> external,
         stored |-> FALSE, status |-> "sent"] \in Write
    BY <1>1 DEF Write
  <2>2. QED BY <2>1 DEF Transition, TypeOK
<1>6. QED BY <1>2, <1>3, <1>4, <1>5

\* An answer of the driver replaces the write by one that differs in two fields.
LEMMA AnswerEffect ==
  ASSUME TypeOK, NEW w \in writes,
         NEW status \in {"sent", "ok", "error", "done", "failed"}, NEW stored \in BOOLEAN,
         Answer(w, status, stored)
  PROVE  \E v \in Write :
           /\ writes' = (writes \ {w}) \cup {v}
           /\ v.by = w.by /\ v.base = w.base /\ v.state = w.state
           /\ v.external = w.external
           /\ v.status = status /\ v.stored = stored
<1>1. w \in Write
  BY DEF TypeOK
<1> DEFINE v == [w EXCEPT !.status = status, !.stored = stored]
<1>2. v \in Write
  BY <1>1 DEF Write
<1>3. /\ v.by = w.by /\ v.base = w.base /\ v.state = w.state
      /\ v.external = w.external
      /\ v.status = status /\ v.stored = stored
  BY <1>1 DEF Write
<1>4. writes' = (writes \ {w}) \cup {v}
  BY DEF Answer
<1>5. QED BY <1>2, <1>3, <1>4

\* What the database does with an update, whether or not the answer is lost.
LEMMA DbEffect ==
  ASSUME TypeOK, NEW w \in writes, DbUpdate(w) \/ DbUpdateFails(w)
  PROVE  /\ w.status = "sent"
         /\ UNCHANGED <<broker, conn, pc, input, seen, machine, counter, rest, queue, sent,
                        crashes>>
         /\ faults' \in Nat
         /\ \E status \in {"ok", "error"}, stored \in BOOLEAN :
              /\ Answer(w, status, stored)
              /\ status = "ok" => stored
              /\ stored => /\ Matches(w)
                           /\ record' = [version |-> w.base + 1, state |-> w.state]
              /\ ~stored => record' = record
<1>1. CASE DbUpdate(w)
  BY <1>1 DEF DbUpdate, TypeOK
<1>2. CASE DbUpdateFails(w)
  <2>1. faults' \in Nat
    BY <1>2 DEF DbUpdateFails, Fault, TypeOK
  <2>2. /\ w.status = "sent"
        /\ UNCHANGED <<broker, conn, pc, input, seen, machine, counter, rest, queue, sent,
                       crashes>>
        /\ \/ /\ Answer(w, "error", TRUE) /\ Matches(w)
              /\ record' = [version |-> w.base + 1, state |-> w.state]
           \/ Answer(w, "error", FALSE) /\ record' = record
    BY <1>2 DEF DbUpdateFails
  <2>3. QED BY <2>1, <2>2
<1>3. QED BY <1>1, <1>2

------------------------------------------------------------------------------
(***************************************************************************)
(* Type correctness.                                                       *)
(***************************************************************************)
LEMMA TypeStep == TypeOK /\ [Next]_vars => TypeOK'
<1> SUFFICES ASSUME TypeOK, [Next]_vars PROVE TypeOK'
  OBVIOUS
<1> USE SkillAssumption
<1>1. ASSUME NEW h \in Handlers, ReceiveInvalid(h) PROVE TypeOK'
  <2>1. sent' \subseteq Sent
    <3>1. PICK m \in Defects :
            CASE m = "NOSENDER"   -> UNCHANGED sent
              [] m = "INCOMPLETE" -> Reply(h, "notUnderstood")
              [] m = "ROLELESS"   -> Reply(h, "error")
      BY <1>1 DEF ReceiveInvalid
    <3>2. sent' = sent \/ Reply(h, "notUnderstood") \/ Reply(h, "error")
      BY <3>1 DEF Defects
    <3>3. QED BY <3>2, ReplyEffect DEF TypeOK, Messages
  <2>2. QED BY <1>1, <2>1 DEF ReceiveInvalid, Goto, TypeOK
<1>2. ASSUME NEW h \in Handlers, Receive(h) PROVE TypeOK'
  <2>1. sent' \subseteq Sent
    BY <1>2, ReplyEffect DEF Receive, TypeOK, Messages
  <2>2. /\ conn' \in {"none", "connecting", "open", "failed"}
        /\ \E label \in {"connecting", "reading", "closed"} : Goto(h, label)
    BY <1>2 DEF Receive, TypeOK
  <2>3. QED BY <1>2, <2>1, <2>2 DEF Receive, Goto, TypeOK
<1>3. ASSUME NEW h \in Handlers, Connected(h) PROVE TypeOK'
  BY <1>3 DEF Connected, Goto, TypeOK
<1>4. ASSUME NEW h \in Handlers, ConnectFails(h) \/ ReadFails(h) PROVE TypeOK'
  <2>1. sent' \subseteq Sent
    BY <1>4, ReplyEffect DEF ConnectFails, ReadFails, Messages
  <2>2. faults' \in Nat /\ Goto(h, "closed")
    BY <1>4 DEF ConnectFails, ReadFails, Fault, TypeOK
  <2>3. CASE ConnectFails(h)
    BY <2>1, <2>2, <2>3 DEF ConnectFails, Goto, TypeOK
  <2>4. CASE ReadFails(h)
    BY <2>1, <2>2, <2>4 DEF ReadFails, Goto, TypeOK
  <2>5. QED BY <1>4, <2>3, <2>4
<1>5. ASSUME NEW h \in Handlers, ReadClosed(h) PROVE TypeOK'
  <2>1. sent' \subseteq Sent
    BY <1>5, ReplyEffect DEF ReadClosed, Messages
  <2>2. QED BY <1>5, <2>1 DEF ReadClosed, Goto, TypeOK
<1>6. ASSUME NEW h \in Handlers, ReadAndMove(h) PROVE TypeOK'
  <2>1. PICK d \in MessageEdges :
          /\ Transition(h, d, record.version, RestoredCommands(record.state), TRUE)
          /\ Invoke(h, d.to)
    BY <1>6 DEF ReadAndMove
  <2>2. RestoredCommands(record.state) \in Seq(Messages)
    BY DEF RestoredCommands
  <2>3. /\ machine' \in [Handlers -> States]
        /\ counter' \in [Handlers -> Nat]
        /\ queue' \in [Handlers -> Seq(Messages)]
        /\ writes' \subseteq Write
    <3>1. d \in Edges /\ record.version \in Nat /\ TRUE \in BOOLEAN
      BY DEF Edges, TypeOK, Record
    <3> HIDE DEF TypeOK
    <3>2. QED BY <2>1, <2>2, <3>1, TransitionEffect
  <2>4. QED BY <1>6, <2>1, <2>3 DEF ReadAndMove, Invoke, Goto, TypeOK
<1>7. ASSUME NEW h \in Handlers, ReadAndIgnore(h) PROVE TypeOK'
  <2>1. sent' \subseteq Sent
    BY <1>7, ReplyEffect DEF ReadAndIgnore, Messages, TypeOK
  <2>2. QED BY <1>7, <2>1 DEF ReadAndIgnore, Invoke, Goto, TypeOK, Record
<1>8. ASSUME NEW h \in Handlers, RestSettles(h) PROVE TypeOK'
  <2>1. PICK d \in RestEdges :
          /\ rest' = [rest EXCEPT ![h] = d.on]
          /\ Transition(h, d, counter[h], queue[h], FALSE)
    BY <1>8 DEF RestSettles
  <2>2. /\ machine' \in [Handlers -> States]
        /\ counter' \in [Handlers -> Nat]
        /\ queue' \in [Handlers -> Seq(Messages)]
        /\ writes' \subseteq Write
    <3>1. /\ d \in Edges /\ counter[h] \in Nat /\ queue[h] \in Seq(Messages)
          /\ FALSE \in BOOLEAN
      BY DEF Edges, TypeOK
    <3>2. QED BY <2>1, <3>1, TransitionEffect
  <2>3. d.on \in RestOutcomes
    BY RestEdgeFacts
  <2>4. QED BY <1>8, <2>1, <2>2, <2>3 DEF RestSettles, TypeOK
<1>9. ASSUME NEW w \in writes, DbUpdate(w) \/ DbUpdateFails(w) PROVE TypeOK'
  <2>1. w \in Write /\ record \in Record
    BY DEF TypeOK
  <2>2. PICK status \in {"ok", "error"}, stored \in BOOLEAN :
          /\ Answer(w, status, stored)
          /\ record' \in {record, [version |-> w.base + 1, state |-> w.state]}
    BY <1>9, DbEffect
  <2>3. record' \in Record
    BY <2>1, <2>2 DEF Record, Write
  <2>4. writes' \subseteq Write
    BY <2>2, AnswerEffect DEF TypeOK
  <2>5. QED BY <1>9, <2>3, <2>4, DbEffect DEF TypeOK
<1>10. ASSUME NEW w \in writes, UpdateDone(w) PROVE TypeOK'
  <2>1. w.stored \in BOOLEAN
    BY DEF TypeOK, Write
  <2>2. writes' \subseteq Write
    BY <1>10, <2>1, AnswerEffect DEF UpdateDone, TypeOK
  <2>3. queue' \in [Handlers -> Seq(Messages)] /\ sent' \subseteq Sent
    BY <1>10, CommitEffect DEF UpdateDone
  <2>4. QED BY <1>10, <2>2, <2>3 DEF UpdateDone, TypeOK
<1>11. ASSUME NEW w \in writes, UpdateFailed(w) PROVE TypeOK'
  <2>1. w.stored \in BOOLEAN /\ w.by \in Handlers
    BY DEF TypeOK, Write
  <2>2. writes' \subseteq Write
    BY <1>11, <2>1, AnswerEffect DEF UpdateFailed, TypeOK
  <2>3. sent' \subseteq Sent
    BY <1>11, <2>1, ReplyEffect DEF UpdateFailed, Messages, TypeOK
  <2>4. QED BY <1>11, <2>2, <2>3 DEF UpdateFailed, TypeOK
<1>12. ASSUME Crash \/ BrokerDown \/ BrokerUp PROVE TypeOK'
  BY <1>12 DEF Crash, BrokerDown, BrokerUp, Fault, TypeOK
<1>13. CASE UNCHANGED vars
  BY <1>13 DEF vars, TypeOK
<1>14. QED
  BY <1>1, <1>2, <1>3, <1>4, <1>5, <1>6, <1>7, <1>8, <1>9, <1>10, <1>11, <1>12, <1>13
  DEF Next

\* Every variable keeps its type, whatever is delivered, fails or crashes.
THEOREM TypeCorrect == Spec => []TypeOK
<1>1. Init => TypeOK
  BY DEF Init, TypeOK, NoRecord, Record, States, InitialState, Sent, Write
<1>2. QED BY <1>1, TypeStep, PTL DEF Spec

------------------------------------------------------------------------------
(***************************************************************************)
(* The safety invariants.  Inv is inductive: each lemma below shows that   *)
(* one kind of step preserves it.                                          *)
(***************************************************************************)
Inv ==
  /\ TypeOK
  /\ SkillInvariant
  /\ OneWinnerPerVersion
  /\ AnnouncedIsStored
  /\ SuccessIsReal
  /\ CreationAuthorised

\* The steps that neither read nor write the record, nor settle anything.
Quiet ==
  /\ UNCHANGED <<record, seen, rest, queue, writes>>
  /\ sent \subseteq sent'
  /\ \A m \in sent' \ sent : /\ m.via = "reply" /\ m.type \in {"notUnderstood", "error"}
                             /\ pc'[m.from] \notin Before
  /\ \A h \in Handlers : /\ pc[h] \notin Before => pc'[h] \notin Before
                         /\ pc[h] \in {"started", "crashed"} =>
                              pc'[h] \in {"started", "crashed"}
                         /\ pc[h] # "idle" => input'[h] = input[h]

LEMMA QuietSteps ==
  ASSUME TypeOK, NEW h \in Handlers,
         \/ ReceiveInvalid(h) \/ Receive(h) \/ Connected(h)
         \/ ConnectFails(h) \/ ReadFails(h)
  PROVE  Quiet
<1> DEFINE Answered(type) == Reply(h, type) /\ pc' = [pc EXCEPT ![h] = "closed"]
<1>1. ASSUME NEW type \in {"notUnderstood", "error"}, Answered(type),
             pc[h] \in Before,
             UNCHANGED <<record, seen, rest, queue, writes>>,
             \A g \in Handlers : pc[g] # "idle" => input'[g] = input[g]
      PROVE  Quiet
  BY <1>1, ReplyEffect DEF Quiet, Before, TypeOK, Messages
<1>2. CASE ReceiveInvalid(h)
  <2>1. PICK m \in Defects :
          /\ pc[h] = "idle"
          /\ input' = [input EXCEPT ![h] = m]
          /\ pc' = [pc EXCEPT ![h] = "closed"]
          /\ CASE m = "NOSENDER"   -> UNCHANGED sent
               [] m = "INCOMPLETE" -> Reply(h, "notUnderstood")
               [] m = "ROLELESS"   -> Reply(h, "error")
          /\ UNCHANGED <<record, seen, rest, queue, writes>>
    BY <1>2 DEF ReceiveInvalid, Goto
  <2>2. sent' = sent \/ Reply(h, "notUnderstood") \/ Reply(h, "error")
    BY <2>1 DEF Defects
  <2>3. \A g \in Handlers : pc[g] # "idle" => input'[g] = input[g]
    BY <2>1 DEF TypeOK
  <2>4. CASE sent' = sent
    BY <2>1, <2>3, <2>4 DEF Quiet, Before, TypeOK
  <2>5. QED BY <1>1, <2>1, <2>2, <2>3, <2>4 DEF Before
<1>3. CASE Receive(h)
  <2>1. PICK m \in Inputs \ Defects :
          /\ pc[h] = "idle"
          /\ input' = [input EXCEPT ![h] = m]
          /\ \/ sent' = sent /\ pc' = [pc EXCEPT ![h] = "connecting"]
             \/ sent' = sent /\ pc' = [pc EXCEPT ![h] = "reading"]
             \/ Answered("error")
          /\ UNCHANGED <<record, seen, rest, queue, writes>>
    BY <1>3 DEF Receive, Goto
  <2>2. \A g \in Handlers : pc[g] # "idle" => input'[g] = input[g]
    BY <2>1 DEF TypeOK
  <2>3. CASE sent' = sent
    BY <2>1, <2>2, <2>3 DEF Quiet, Before, TypeOK
  <2>4. QED BY <1>1, <2>1, <2>2, <2>3 DEF Before
<1>4. CASE Connected(h)
  BY <1>4 DEF Connected, Goto, Quiet, Before, TypeOK
<1>5. CASE ConnectFails(h) \/ ReadFails(h)
  <2>1. /\ Answered("error") /\ pc[h] \in Before
        /\ UNCHANGED <<record, seen, rest, queue, writes, input>>
    BY <1>5 DEF ConnectFails, ReadFails, Goto, Before
  <2>2. QED BY <1>1, <2>1
<1>6. QED BY <1>2, <1>3, <1>4, <1>5

\* So are those of the surroundings.
LEMMA QuietSurroundings ==
  ASSUME TypeOK, Crash \/ BrokerDown \/ BrokerUp \/ UNCHANGED vars
  PROVE  Quiet
<1>1. CASE Crash
  BY <1>1 DEF Crash, Quiet, Before, TypeOK
<1>2. CASE BrokerDown \/ BrokerUp \/ UNCHANGED vars
  BY <1>2 DEF BrokerDown, BrokerUp, vars, Quiet
<1>3. QED BY <1>1, <1>2

LEMMA QuietKeeps == Inv /\ TypeOK' /\ Quiet => Inv'
<1> SUFFICES ASSUME Inv, TypeOK', Quiet PROVE Inv'
  OBVIOUS
<1> USE DEF Inv, SkillInvariant
<1>1. Untouched'
  BY DEF Untouched, Quiet, TypeOK, Write, Sent
<1>2. UNCHANGED <<record, seen, rest, queue, writes>>
  BY DEF Quiet
<1>3. /\ AnswersTellTheTruth' /\ RecordIsLastStored' /\ SeenIsCurrentOrOlder'
      /\ WritesHaveACause' /\ QueuedSuccessIsReal' /\ CreationHasACaller' /\ FirstVersions'
      /\ CallersHaveReadIt' /\ OneWinnerPerVersion'
  BY <1>2 DEF AnswersTellTheTruth, RecordIsLastStored, SeenIsCurrentOrOlder, WritesHaveACause,
              QueuedSuccessIsReal, CreationHasACaller, FirstVersions, CallersHaveReadIt,
              OneWinnerPerVersion, Stored
<1>4. RepliesAreNegative' /\ AskingStartsTheConversation'
  BY <1>2 DEF RepliesAreNegative, AskingStartsTheConversation, Quiet
<1>5. AnnouncedIsStored' /\ SuccessIsReal'
  BY <1>2 DEF AnnouncedIsStored, SuccessIsReal, Quiet, Stored
<1>6. CreationAuthorised'
  <2>1. ASSUME AskForApproval, NEW h \in Handlers, rest[h] # "none"
        PROVE  \E g \in Handlers : /\ input'[g] = "APPROVED_FROM_APPROVER"
                                   /\ seen[g].state = "WaitingForApproval"
    <3>1. PICK g \in Handlers : /\ input[g] = "APPROVED_FROM_APPROVER"
                                /\ seen[g].state = "WaitingForApproval"
      BY <2>1 DEF CreationAuthorised
    <3>2. pc[g] # "idle"
      BY <3>1 DEF Untouched, Before, NoRecord, InitialState
    <3>3. QED BY <3>1, <3>2 DEF Quiet
  <2>2. QED BY <1>2, <2>1 DEF CreationAuthorised
<1>7. QED BY <1>1, <1>3, <1>4, <1>5, <1>6

\* What the record's state says of its version and of the writes.
LEMMA RecordStates ==
  ASSUME Inv
  PROVE  /\ record.state = InitialState => record.version = 0
         /\ record.state = "WaitingForApproval" => record.version = 1 /\ AskForApproval
         /\ record.state = "CreatingInstance" =>
              \E w \in writes : w.state = "CreatingInstance"
<1>1. record \in Record /\ \A w \in writes : w \in Write
  BY DEF Inv, TypeOK
<1>2. CASE record.version = 0
  BY <1>2 DEF Inv, SkillInvariant, RecordIsLastStored, NoRecord, InitialState
<1>3. CASE record.version # 0
  <2>1. PICK w \in writes : w.base + 1 = record.version /\ w.state = record.state
    BY <1>3 DEF Inv, SkillInvariant, RecordIsLastStored, Stored
  <2>2. w.state # InitialState
        /\ (w.state = "WaitingForApproval" => w.base = 0 /\ AskForApproval)
    BY DEF Inv, SkillInvariant, RecordIsLastStored, FirstVersions
  <2>3. QED BY <1>1, <2>1, <2>2 DEF Write, Record
<1>4. QED BY <1>2, <1>3

\* The step in which a handler reads: what it read before is of no consequence.
LEMMA ReadSeen ==
  ASSUME Inv, NEW h \in Handlers, pc[h] = "reading",
         seen' = [seen EXCEPT ![h] = record], record' = record
  PROVE  /\ SeenIsCurrentOrOlder'
         /\ \A r \in {seen'[g] : g \in Handlers} :
              /\ r.state = InitialState => r.version = 0
              /\ r.state = "WaitingForApproval" => r.version = 1 /\ AskForApproval
         /\ \A w \in writes : w.by \in Handlers /\ w.by # h /\ seen'[w.by] = seen[w.by]
         /\ \A g \in Handlers : rest[g] # "none" => g # h /\ seen'[g] = seen[g]
         /\ seen'[h] = record
<1> USE DEF Inv, SkillInvariant
<1>1. \A g \in Handlers : seen'[g] = IF g = h THEN record ELSE seen[g]
  BY DEF TypeOK
<1>2. SeenIsCurrentOrOlder'
  BY <1>1 DEF SeenIsCurrentOrOlder, TypeOK, Record
<1>3. \A r \in {seen'[g] : g \in Handlers} :
        /\ r.state = InitialState => r.version = 0
        /\ r.state = "WaitingForApproval" => r.version = 1 /\ AskForApproval
  BY <1>1, RecordStates DEF FirstVersions
<1>4. \A w \in writes : w.by \in Handlers /\ w.by # h
  BY DEF TypeOK, Write, Untouched
<1>5. \A g \in Handlers : rest[g] # "none" => g # h
  BY DEF Untouched, Before
<1>6. QED BY <1>1, <1>2, <1>3, <1>4, <1>5

LEMMA ReadClosedKeeps ==
  ASSUME Inv, TypeOK', NEW h \in Handlers, ReadClosed(h)
  PROVE  Inv'
<1> USE DEF Inv, SkillInvariant
<1>1. /\ pc[h] = "reading" /\ pc' = [pc EXCEPT ![h] = "closed"]
      /\ seen' = [seen EXCEPT ![h] = record]
      /\ UNCHANGED <<record, input, rest, queue, writes>>
  BY DEF ReadClosed, Goto
<1>2. /\ sent \subseteq sent'
      /\ \A m \in sent' \ sent : m.from = h /\ m.type = "notUnderstood" /\ m.via = "reply"
  BY ReplyEffect DEF ReadClosed, Messages
<1>3. Untouched'
  BY <1>1, <1>2 DEF Untouched, Before, TypeOK, Write, Sent
<1>4. AnswersTellTheTruth' /\ RecordIsLastStored' /\ QueuedSuccessIsReal'
      /\ CreationHasACaller' /\ OneWinnerPerVersion'
  BY <1>1 DEF AnswersTellTheTruth, RecordIsLastStored, QueuedSuccessIsReal,
              CreationHasACaller, OneWinnerPerVersion, Stored
<1>5. SeenIsCurrentOrOlder' /\ WritesHaveACause' /\ FirstVersions' /\ CallersHaveReadIt'
  <2>1. /\ SeenIsCurrentOrOlder'
        /\ \A r \in {seen'[g] : g \in Handlers} :
             /\ r.state = InitialState => r.version = 0
             /\ r.state = "WaitingForApproval" => r.version = 1 /\ AskForApproval
        /\ \A w \in writes : w.by \in Handlers /\ w.by # h /\ seen'[w.by] = seen[w.by]
        /\ \A g \in Handlers : rest[g] # "none" => g # h /\ seen'[g] = seen[g]
        /\ seen'[h] = record
    BY <1>1, ReadSeen
  <2>2. WritesHaveACause'
    BY <1>1, <2>1 DEF WritesHaveACause
  <2>3. FirstVersions'
    BY <1>1, <2>1 DEF FirstVersions
  <2>4. CallersHaveReadIt'
    BY <1>1, <2>1 DEF CallersHaveReadIt
  <2>5. QED BY <2>1, <2>2, <2>3, <2>4
<1>6. RepliesAreNegative' /\ AskingStartsTheConversation'
  BY <1>1, <1>2 DEF RepliesAreNegative, AskingStartsTheConversation
<1>7. AnnouncedIsStored' /\ SuccessIsReal'
  BY <1>1, <1>2 DEF AnnouncedIsStored, SuccessIsReal, Stored
<1>8. CreationAuthorised'
  <2>1. \A g \in Handlers : seen[g].state = "WaitingForApproval" => g # h
    BY <1>1 DEF Untouched, Before, NoRecord, InitialState
  <2>2. \A g \in Handlers : g # h => seen'[g] = seen[g]
    BY <1>1 DEF TypeOK
  <2>3. QED BY <1>1, <2>1, <2>2 DEF CreationAuthorised
<1>9. QED BY <1>3, <1>4, <1>5, <1>6, <1>7, <1>8

LEMMA ReadAndIgnoreKeeps ==
  ASSUME Inv, TypeOK', NEW h \in Handlers, ReadAndIgnore(h)
  PROVE  Inv'
<1> USE DEF Inv, SkillInvariant
<1>1. /\ pc[h] = "reading" /\ pc' = [pc EXCEPT ![h] = "started"]
      /\ seen' = [seen EXCEPT ![h] = record]
      /\ Invoke(h, record.state)
      /\ UNCHANGED <<record, input, queue, writes>>
  BY DEF ReadAndIgnore, Goto
<1>2. /\ sent \subseteq sent'
      /\ \A m \in sent' \ sent : m.from = h /\ m.type = "notUnderstood" /\ m.via = "reply"
  BY ReplyEffect DEF ReadAndIgnore, Messages
<1>3. /\ \A g \in Handlers : g # h => rest'[g] = rest[g]
      /\ rest'[h] # "none" => record.state = "CreatingInstance"
      /\ rest[h] = "none" /\ queue[h] = <<>>
  BY <1>1 DEF Invoke, TypeOK, Untouched, Before
<1>4. Untouched'
  BY <1>1, <1>2, <1>3 DEF Untouched, Before, TypeOK, Write, Sent
<1>5. AnswersTellTheTruth' /\ RecordIsLastStored' /\ OneWinnerPerVersion'
  BY <1>1 DEF AnswersTellTheTruth, RecordIsLastStored, OneWinnerPerVersion, Stored
<1>6. SeenIsCurrentOrOlder' /\ WritesHaveACause' /\ FirstVersions' /\ CallersHaveReadIt'
  <2>1. /\ SeenIsCurrentOrOlder'
        /\ \A r \in {seen'[g] : g \in Handlers} :
             /\ r.state = InitialState => r.version = 0
             /\ r.state = "WaitingForApproval" => r.version = 1 /\ AskForApproval
        /\ \A w \in writes : w.by \in Handlers /\ w.by # h /\ seen'[w.by] = seen[w.by]
        /\ \A g \in Handlers : rest[g] # "none" => g # h /\ seen'[g] = seen[g]
        /\ seen'[h] = record
    BY <1>1, ReadSeen
  <2>2. WritesHaveACause'
    BY <1>1, <2>1 DEF WritesHaveACause
  <2>3. FirstVersions'
    BY <1>1, <2>1 DEF FirstVersions
  <2>4. CallersHaveReadIt'
    BY <1>1, <1>3, <2>1 DEF CallersHaveReadIt
  <2>5. QED BY <2>1, <2>2, <2>3, <2>4
<1>7. ~Has(queue[h], "responseInstance") /\ ~Has(queue[h], "requestApproval")
  BY <1>3, ShortLists
<1>8. \A m \in sent : m.from # h
  BY <1>1 DEF Untouched, Before
<1>9. RepliesAreNegative' /\ AnnouncedIsStored' /\ CreationHasACaller'
  <2>1. RepliesAreNegative' /\ AnnouncedIsStored'
    BY <1>1, <1>2 DEF RepliesAreNegative, AnnouncedIsStored, Stored
  <2>2. \A w \in writes : w.by \in Handlers /\ w.by # h
    BY <1>1 DEF Untouched, TypeOK, Write
  <2>3. CreationHasACaller'
    BY <1>1, <1>3, <2>2 DEF CreationHasACaller
  <2>4. QED BY <2>1, <2>3
<1>10. AskingStartsTheConversation' /\ QueuedSuccessIsReal' /\ SuccessIsReal'
  <2>1. ASSUME NEW g \in Handlers,
               \/ Has(queue[g], "requestApproval")
               \/ \E m \in sent' : m.from = g /\ m.type = "requestApproval"
        PROVE  rest'[g] = "none" /\ \A w \in writes : w.by = g => w.base = 0
    <3>1. g # h
      BY <1>2, <1>7, <1>8, <2>1
    <3>2. QED BY <1>2, <1>3, <2>1, <3>1 DEF AskingStartsTheConversation
  <2>2. AskingStartsTheConversation'
    BY <1>1, <2>1 DEF AskingStartsTheConversation
  <2>3. QueuedSuccessIsReal'
    BY <1>1, <1>3, <1>7 DEF QueuedSuccessIsReal
  <2>4. SuccessIsReal'
    <3>1. \A m \in sent : m.from \in Handlers
      BY DEF TypeOK, Sent
    <3>2. \A m \in sent' : m.type = "responseInstance" => m \in sent
      BY <1>2
    <3>3. QED BY <1>3, <1>8, <3>1, <3>2 DEF SuccessIsReal
  <2>5. QED BY <2>2, <2>3, <2>4
<1>11. CreationAuthorised'
  <2>1. \A g \in Handlers : seen[g].state = "WaitingForApproval" => seen'[g] = seen[g]
    BY <1>1 DEF Untouched, Before, NoRecord, InitialState, TypeOK
  <2>2. ASSUME rest'[h] # "none", AskForApproval
        PROVE  \E g \in Handlers : rest[g] # "none"
    BY <1>3, <2>2, RecordStates DEF CreationHasACaller, TypeOK, Write
  <2>3. QED BY <1>1, <1>3, <2>1, <2>2 DEF CreationAuthorised
<1>12. QED BY <1>4, <1>5, <1>6, <1>9, <1>10, <1>11

LEMMA ReadAndMoveKeeps ==
  ASSUME Inv, TypeOK', NEW h \in Handlers, ReadAndMove(h)
  PROVE  Inv'
<1> USE DEF Inv, SkillInvariant
<1>1. /\ pc[h] = "reading" /\ pc' = [pc EXCEPT ![h] = "started"]
      /\ seen' = [seen EXCEPT ![h] = record]
      /\ record.state \notin FinalStates
      /\ UNCHANGED <<record, input, sent>>
  BY DEF ReadAndMove, Goto, Closed
<1>2. PICK d \in MessageEdges :
        /\ d.from = record.state /\ d.on = input[h]
        /\ Transition(h, d, record.version, RestoredCommands(record.state), TRUE)
        /\ Invoke(h, d.to)
  BY DEF ReadAndMove
<1> DEFINE v == [by |-> h, base |-> record.version, state |-> d.to, external |-> TRUE,
                 stored |-> FALSE, status |-> "sent"]
<1>3. /\ \A g \in Handlers : g # h => queue'[g] = queue[g]
      /\ \A t : Has(queue'[h], t) => Has(d.do, t)
      /\ writes' = writes \cup {v}
  <2>1. RestoredCommands(record.state) \in Seq(Messages)
        /\ \A t : ~Has(RestoredCommands(record.state), t)
    BY ShortLists DEF RestoredCommands
  <2>2. d \in Edges /\ record.version \in Nat /\ TRUE \in BOOLEAN
    BY DEF Edges, TypeOK, Record
  <2>3. TypeOK
    OBVIOUS
  <2> HIDE DEF Inv, SkillInvariant
  <2>4. QED BY <1>2, <2>1, <2>2, <2>3, TransitionEffect
<1>4. /\ d.from \in {InitialState, "WaitingForApproval", "WaitingForType"}
      /\ d.to # InitialState
      /\ d.to = "WaitingForApproval" => d.from = InitialState /\ AskForApproval
      /\ d.to = "CreatingInstance" =>
           \/ d.from = "WaitingForApproval" /\ d.on = "APPROVED_FROM_APPROVER"
           \/ d.from = RequestEdge.from /\ RequestEdge.to = "CreatingInstance"
      /\ Has(d.do, "requestApproval") =>
           d.from = InitialState /\ d.to = "WaitingForApproval"
      /\ ~Has(d.do, "responseInstance")
  BY MessageEdgeFacts
<1>5. /\ \A g \in Handlers : g # h => rest'[g] = rest[g]
      /\ rest'[h] # "none" <=> d.to = "CreatingInstance"
      /\ rest[h] = "none"
  BY <1>1, <1>2 DEF Invoke, TypeOK, Untouched, Before
<1>6. /\ \A w \in writes : w.by \in Handlers /\ w.by # h
      /\ \A m \in sent : m.from \in Handlers /\ m.from # h
  <2>1. (\A w \in writes : w.by # h) /\ (\A m \in sent : m.from # h)
    BY <1>1 DEF Untouched, Before
  <2>2. \A w \in writes : w.by \in Handlers
    BY DEF TypeOK, Write
  <2>3. \A m \in sent : m.from \in Handlers
    BY DEF TypeOK, Sent
  <2>4. QED BY <2>1, <2>2, <2>3
<1>7. Stored' = Stored
  BY <1>3 DEF Stored
<1>8. record.state = InitialState => record.version = 0
  BY RecordStates
<1>9. Untouched'
  <2>1. \A g \in Handlers : pc'[g] \in Before => g # h /\ pc[g] \in Before
    BY <1>1 DEF Before, TypeOK
  <2>2. \A g \in Handlers : pc'[g] \in Before =>
          seen'[g] = NoRecord /\ rest'[g] = "none" /\ queue'[g] = <<>>
    BY <1>1, <1>3, <1>5, <2>1 DEF Untouched, TypeOK
  <2>3. \A w \in writes' : pc'[w.by] \in {"started", "crashed"}
    BY <1>1, <1>3, <1>6 DEF Untouched, TypeOK
  <2>4. \A m \in sent' : pc'[m.from] \notin Before
    BY <1>1, <1>6 DEF Untouched, TypeOK
  <2>5. QED BY <2>2, <2>3, <2>4 DEF Untouched
<1>10. AnswersTellTheTruth' /\ RecordIsLastStored' /\ OneWinnerPerVersion'
  <2>1. AnswersTellTheTruth'
    BY <1>3 DEF AnswersTellTheTruth
  <2>2. \A w \in writes' : w.state # InitialState
    BY <1>3, <1>4 DEF RecordIsLastStored
  <2>3. RecordIsLastStored'
    BY <1>1, <1>7, <2>2 DEF RecordIsLastStored
  <2>4. QED BY <1>7, <2>1, <2>3 DEF OneWinnerPerVersion
<1>11. SeenIsCurrentOrOlder' /\ WritesHaveACause' /\ FirstVersions' /\ CallersHaveReadIt'
  <2>1. /\ SeenIsCurrentOrOlder'
        /\ \A r \in {seen'[g] : g \in Handlers} :
             /\ r.state = InitialState => r.version = 0
             /\ r.state = "WaitingForApproval" => r.version = 1 /\ AskForApproval
        /\ \A w \in writes : w.by \in Handlers /\ w.by # h /\ seen'[w.by] = seen[w.by]
        /\ \A g \in Handlers : rest[g] # "none" => g # h /\ seen'[g] = seen[g]
        /\ seen'[h] = record
    BY <1>1, ReadSeen
  <2>2. WritesHaveACause'
    BY <1>1, <1>3, <2>1 DEF WritesHaveACause
  <2>3. FirstVersions'
    BY <1>1, <1>2, <1>3, <1>4, <1>8, <2>1 DEF FirstVersions
  <2>4. CallersHaveReadIt'
    BY <1>2, <1>4, <1>5, <2>1 DEF CallersHaveReadIt
  <2>5. QED BY <2>1, <2>2, <2>3, <2>4
<1>12. RepliesAreNegative' /\ AnnouncedIsStored' /\ SuccessIsReal'
  <2>1. RepliesAreNegative' /\ SuccessIsReal'
    BY <1>1, <1>5, <1>6 DEF RepliesAreNegative, SuccessIsReal
  <2>2. AnnouncedIsStored'
    BY <1>1, <1>7 DEF AnnouncedIsStored
  <2>3. QED BY <2>1, <2>2
<1>13. AskingStartsTheConversation'
  <2>1. ASSUME NEW g \in Handlers,
               \/ Has(queue'[g], "requestApproval")
               \/ \E m \in sent' : m.from = g /\ m.type = "requestApproval"
        PROVE  rest'[g] = "none" /\ \A w \in writes' : w.by = g => w.base = 0
    <3>1. CASE g = h
      BY <1>1, <1>2, <1>3, <1>4, <1>5, <1>6, <1>8, <2>1, <3>1
    <3>2. CASE g # h
      BY <1>1, <1>3, <1>5, <2>1, <3>2 DEF AskingStartsTheConversation
    <3>3. QED BY <3>1, <3>2
  <2>2. QED BY <2>1 DEF AskingStartsTheConversation
<1>14. QueuedSuccessIsReal' /\ CreationHasACaller'
  <2>1. QueuedSuccessIsReal'
    BY <1>3, <1>4, <1>5 DEF QueuedSuccessIsReal
  <2>2. CreationHasACaller'
    BY <1>3, <1>5, <1>6 DEF CreationHasACaller
  <2>3. QED BY <2>1, <2>2
<1>15. CreationAuthorised'
  <2>1. \A g \in Handlers : seen[g].state = "WaitingForApproval" => seen'[g] = seen[g]
    BY <1>1 DEF Untouched, Before, NoRecord, InitialState, TypeOK
  <2>2. ASSUME AskForApproval, d.to = "CreatingInstance"
        PROVE  input'[h] = "APPROVED_FROM_APPROVER" /\ seen'[h].state = "WaitingForApproval"
    <3>1. RequestEdge.to = "WaitingForApproval"
      BY <2>2 DEF RequestEdge, Edge
    <3>2. seen'[h] = record
      BY <1>1 DEF TypeOK
    <3>3. QED BY <1>1, <1>2, <1>4, <2>2, <3>1, <3>2
  <2>3. QED BY <1>1, <1>5, <2>1, <2>2 DEF CreationAuthorised
<1>16. QED BY <1>9, <1>10, <1>11, <1>12, <1>13, <1>14, <1>15

LEMMA RestSettlesKeeps ==
  ASSUME Inv, TypeOK', NEW h \in Handlers, RestSettles(h)
  PROVE  Inv'
<1> USE DEF Inv, SkillInvariant
<1>1. /\ pc[h] = "started" /\ rest[h] = "pending"
      /\ UNCHANGED <<record, pc, input, seen, sent>>
  BY DEF RestSettles
<1>2. PICK d \in RestEdges :
        /\ rest' = [rest EXCEPT ![h] = d.on]
        /\ Transition(h, d, counter[h], queue[h], FALSE)
  BY DEF RestSettles
<1> DEFINE v == [by |-> h, base |-> counter[h], state |-> d.to, external |-> FALSE,
                 stored |-> FALSE, status |-> "sent"]
<1>3. /\ \A g \in Handlers : g # h => queue'[g] = queue[g]
      /\ \A t : Has(queue'[h], t) => Has(queue[h], t) \/ Has(d.do, t)
      /\ writes' = writes \cup {v}
  <2>1. /\ d \in Edges /\ counter[h] \in Nat /\ queue[h] \in Seq(Messages)
        /\ FALSE \in BOOLEAN
    BY DEF Edges, TypeOK
  <2>2. TypeOK
    OBVIOUS
  <2> HIDE DEF Inv, SkillInvariant
  <2>3. QED BY <1>2, <2>1, <2>2, TransitionEffect
<1>4. /\ d.on \in RestOutcomes
      /\ d.to \in {CreatedEdge.to, "OperationFailed"}
      /\ d.to \notin {InitialState, "WaitingForApproval", "CreatingInstance"}
      /\ ~Has(d.do, "requestApproval")
      /\ Has(d.do, "responseInstance") => d.on = "done"
  BY RestEdgeFacts
<1>5. /\ \A g \in Handlers : g # h => rest'[g] = rest[g]
      /\ rest'[h] = d.on
      /\ d.on # "none"
  BY <1>2, <1>4 DEF TypeOK, RestOutcomes, RestFailures
<1>6. Stored' = Stored
  BY <1>3 DEF Stored
\* Nothing of the handler asked the approver or announced a success before.
<1>7. /\ ~Has(queue[h], "requestApproval") /\ ~Has(queue[h], "responseInstance")
      /\ \A m \in sent : m.from = h => m.type \notin {"requestApproval", "responseInstance"}
  BY <1>1 DEF AskingStartsTheConversation, QueuedSuccessIsReal, SuccessIsReal
<1>8. Untouched'
  <2>1. \A g \in Handlers : pc'[g] \in Before =>
          seen'[g] = NoRecord /\ rest'[g] = "none" /\ queue'[g] = <<>>
    BY <1>1, <1>3, <1>5 DEF Untouched, Before
  <2>2. \A w \in writes' : pc'[w.by] \in {"started", "crashed"}
    BY <1>1, <1>3 DEF Untouched
  <2>3. QED BY <1>1, <2>1, <2>2 DEF Untouched
<1>9. AnswersTellTheTruth' /\ RecordIsLastStored' /\ OneWinnerPerVersion'
  <2>1. AnswersTellTheTruth'
    BY <1>3 DEF AnswersTellTheTruth
  <2>2. \A w \in writes' : w.state # InitialState
    BY <1>3, <1>4 DEF RecordIsLastStored
  <2>3. RecordIsLastStored'
    BY <1>1, <1>6, <2>2 DEF RecordIsLastStored
  <2>4. QED BY <1>6, <2>1, <2>3 DEF OneWinnerPerVersion
<1>10. SeenIsCurrentOrOlder' /\ WritesHaveACause'
  BY <1>1, <1>3, <1>4 DEF SeenIsCurrentOrOlder, WritesHaveACause
<1>11. FirstVersions' /\ CreationHasACaller'
  <2>1. FirstVersions'
    BY <1>1, <1>3, <1>4 DEF FirstVersions
  <2>2. \A w \in writes : w.by \in Handlers
    BY DEF TypeOK, Write
  <2>3. CreationHasACaller'
    BY <1>3, <1>4, <1>5, <2>2 DEF CreationHasACaller
  <2>4. QED BY <2>1, <2>3
<1>12. CallersHaveReadIt' /\ CreationAuthorised'
  BY <1>1, <1>5 DEF CallersHaveReadIt, CreationAuthorised
<1>13. RepliesAreNegative' /\ AnnouncedIsStored'
  BY <1>1, <1>6 DEF RepliesAreNegative, AnnouncedIsStored
<1>14. AskingStartsTheConversation'
  <2>1. ASSUME NEW g \in Handlers,
               \/ Has(queue'[g], "requestApproval")
               \/ \E m \in sent' : m.from = g /\ m.type = "requestApproval"
        PROVE  rest'[g] = "none" /\ \A w \in writes' : w.by = g => w.base = 0
    <3>1. g # h
      BY <1>1, <1>3, <1>4, <1>7, <2>1
    <3>2. QED BY <1>1, <1>3, <1>5, <2>1, <3>1 DEF AskingStartsTheConversation
  <2>2. QED BY <2>1 DEF AskingStartsTheConversation
<1>15. QueuedSuccessIsReal' /\ SuccessIsReal'
  <2>1. QueuedSuccessIsReal'
    BY <1>3, <1>4, <1>5, <1>7 DEF QueuedSuccessIsReal
  <2>2. \A m \in sent : m.from \in Handlers
    BY DEF TypeOK, Sent
  <2>3. SuccessIsReal'
    BY <1>1, <1>5, <1>7, <2>2 DEF SuccessIsReal
  <2>4. QED BY <2>1, <2>3
<1>16. QED BY <1>8, <1>9, <1>10, <1>11, <1>12, <1>13, <1>14, <1>15

LEMMA DbKeeps ==
  ASSUME Inv, TypeOK', NEW w \in writes, DbUpdate(w) \/ DbUpdateFails(w)
  PROVE  Inv'
<1> USE DEF Inv, SkillInvariant
<1>1. PICK status \in {"ok", "error"}, stored \in BOOLEAN :
        /\ Answer(w, status, stored)
        /\ status = "ok" => stored
        /\ stored => /\ Matches(w)
                     /\ record' = [version |-> w.base + 1, state |-> w.state]
        /\ ~stored => record' = record
  BY DbEffect
<1>2. w.status = "sent" /\ UNCHANGED <<pc, input, seen, rest, queue, sent>>
  BY DbEffect
<1>3. PICK v \in Write :
        /\ writes' = (writes \ {w}) \cup {v}
        /\ v.by = w.by /\ v.base = w.base /\ v.state = w.state /\ v.external = w.external
        /\ v.status = status /\ v.stored = stored
  BY <1>1, AnswerEffect
<1>4. /\ ~w.stored /\ w \in Write /\ record \in Record /\ w.state # InitialState
      /\ \A x \in writes : x \in Write
  BY <1>2 DEF AnswersTellTheTruth, RecordIsLastStored, TypeOK
<1>5. /\ stored => Stored' = Stored \cup {v}
      /\ ~stored => Stored' = Stored
  BY <1>3, <1>4 DEF Stored
\* Versions only grow: the filter matches the current one, or there is none.
<1>6. stored => /\ record.version < record'.version
                /\ \A x \in Stored : x.base < v.base
  <2>1. ASSUME stored
        PROVE  record.version < record'.version /\ \A x \in Stored : x.base < v.base
    <3>1. record'.version = w.base + 1 /\ record.version \in {0, w.base}
      BY <1>1, <2>1 DEF Matches
    <3>2. \A x \in Stored : x.base < record.version /\ x.base \in Nat
      BY <1>4 DEF RecordIsLastStored, Stored, Write
    <3>3. QED BY <1>3, <1>4, <3>1, <3>2 DEF Record, Write
  <2>2. QED BY <2>1
<1>7. Untouched' /\ AnswersTellTheTruth'
  BY <1>1, <1>2, <1>3, <1>4 DEF Untouched, AnswersTellTheTruth
<1>8. RecordIsLastStored'
  <2>1. CASE stored
    <3>1. /\ record'.version = v.base + 1 /\ record'.state = v.state
          /\ v.base \in Nat /\ v.state # InitialState
      BY <1>1, <1>3, <1>4, <2>1 DEF Write
    <3>2. \A x \in Stored' : x.base < record'.version
      BY <1>4, <1>5, <1>6, <2>1, <3>1 DEF Stored, Write
    <3>3. v \in Stored'
      BY <1>5, <2>1
    <3>4. \A x \in writes' : x.state # InitialState
      BY <1>3, <3>1 DEF RecordIsLastStored
    <3>5. QED BY <3>1, <3>2, <3>3, <3>4 DEF RecordIsLastStored
  <2>2. CASE ~stored
    <3>1. \A x \in writes' : x.state # InitialState
      BY <1>3, <1>4 DEF RecordIsLastStored
    <3>2. QED BY <1>1, <1>5, <2>2, <3>1 DEF RecordIsLastStored
  <2>3. QED BY <2>1, <2>2
<1>9. SeenIsCurrentOrOlder'
  BY <1>1, <1>2, <1>4, <1>6 DEF SeenIsCurrentOrOlder, TypeOK, Record
<1>10. WritesHaveACause' /\ FirstVersions' /\ CreationHasACaller'
  BY <1>2, <1>3 DEF WritesHaveACause, FirstVersions, CreationHasACaller
<1>11. AskingStartsTheConversation' /\ RepliesAreNegative' /\ QueuedSuccessIsReal'
       /\ CallersHaveReadIt' /\ SuccessIsReal' /\ CreationAuthorised'
  BY <1>2, <1>3 DEF AskingStartsTheConversation, RepliesAreNegative, QueuedSuccessIsReal,
    CallersHaveReadIt, SuccessIsReal, CreationAuthorised
<1>12. OneWinnerPerVersion'
  BY <1>5, <1>6 DEF OneWinnerPerVersion, Stored, Write
<1>13. AnnouncedIsStored'
  BY <1>2, <1>5 DEF AnnouncedIsStored
<1>14. QED BY <1>7, <1>8, <1>9, <1>10, <1>11, <1>12, <1>13

\* Both acknowledgements change one write's status and leave its effect alone.
LEMMA AcknowledgeKeeps ==
  ASSUME Inv, TypeOK', NEW w \in writes, NEW status \in {"done", "failed"},
         Answer(w, status, w.stored), w.status = "ok" \/ status = "failed",
         UNCHANGED <<record, seen>>
  PROVE  /\ AnswersTellTheTruth' /\ RecordIsLastStored' /\ SeenIsCurrentOrOlder'
         /\ WritesHaveACause' /\ FirstVersions' /\ OneWinnerPerVersion'
         /\ \A x \in writes' : \E y \in writes : x.by = y.by /\ x.base = y.base
         /\ \A x \in Stored : \E y \in Stored' : x.by = y.by
         /\ \A x \in writes' : \E y \in writes : x.by = y.by /\ x.state = y.state
<1> USE DEF Inv, SkillInvariant
<1>1. w.stored \in BOOLEAN /\ \A x \in writes : x \in Write
  BY DEF TypeOK, Write
<1>2. PICK v \in Write :
        /\ writes' = (writes \ {w}) \cup {v}
        /\ v.by = w.by /\ v.base = w.base /\ v.state = w.state /\ v.external = w.external
        /\ v.status = status /\ v.stored = w.stored
  BY <1>1, AnswerEffect
<1>3. w.status = "ok" => w.stored
  BY DEF AnswersTellTheTruth
<1>4. AnswersTellTheTruth'
  BY <1>2, <1>3 DEF AnswersTellTheTruth
<1>5. /\ w.stored => Stored' = (Stored \ {w}) \cup {v}
      /\ ~w.stored => Stored' = Stored
  BY <1>1, <1>2 DEF Stored
<1>6. RecordIsLastStored'
  <2>1. \A x \in Stored : \E y \in Stored' : x.base = y.base /\ x.state = y.state
    BY <1>2, <1>5
  <2>2. \A y \in Stored' : \E x \in Stored : x.base = y.base
    BY <1>2, <1>5 DEF Stored
  <2>3. \A x \in writes' : x.state # InitialState
    BY <1>2 DEF RecordIsLastStored
  <2>4. QED BY <2>1, <2>2, <2>3 DEF RecordIsLastStored
<1>7. SeenIsCurrentOrOlder' /\ WritesHaveACause' /\ FirstVersions'
  BY <1>2 DEF SeenIsCurrentOrOlder, WritesHaveACause, FirstVersions
<1>8. OneWinnerPerVersion'
  <2>1. w.stored => \A x \in Stored : x.base = w.base => x = w
    BY DEF OneWinnerPerVersion, Stored
  <2>2. QED BY <1>2, <1>5, <2>1 DEF OneWinnerPerVersion
<1>9. \A x \in Stored : \E y \in Stored' : x.by = y.by
  BY <1>2, <1>5
<1>10. \A x \in writes' : \E y \in writes :
         x.by = y.by /\ x.base = y.base /\ x.state = y.state
  BY <1>2
<1>11. QED BY <1>4, <1>6, <1>7, <1>8, <1>9, <1>10

LEMMA UpdateDoneKeeps ==
  ASSUME Inv, TypeOK', NEW w \in writes, UpdateDone(w)
  PROVE  Inv'
<1>1. /\ w.status = "ok" /\ Commit(w) /\ Answer(w, "done", w.stored)
      /\ pc[w.by] = "started"
      /\ UNCHANGED <<record, pc, input, seen, rest>>
  BY DEF UpdateDone
<1>2. TypeOK
  BY DEF Inv
<1>3. /\ AnswersTellTheTruth' /\ RecordIsLastStored' /\ SeenIsCurrentOrOlder'
      /\ WritesHaveACause' /\ FirstVersions' /\ OneWinnerPerVersion'
      /\ \A x \in writes' : \E y \in writes : x.by = y.by /\ x.base = y.base
      /\ \A x \in Stored : \E y \in Stored' : x.by = y.by
      /\ \A x \in writes' : \E y \in writes : x.by = y.by /\ x.state = y.state
  BY <1>1, AcknowledgeKeeps
<1>4. /\ \A h \in Handlers : \A t : Has(queue'[h], t) => Has(queue[h], t)
      /\ \A h \in Handlers : h # w.by => queue'[h] = queue[h]
      /\ \A m \in sent' \ sent :
           /\ m.from = w.by
           /\ \/ m.via = "commit" /\ Has(queue[w.by], m.type)
              \/ m.via = "reply" /\ m.type = "error"
  BY <1>1, <1>2, CommitEffect
<1>5. w.by \in Handlers /\ w \in Stored
  BY <1>1, <1>2 DEF Inv, SkillInvariant, AnswersTellTheTruth, Stored, TypeOK, Write
<1> USE DEF Inv, SkillInvariant
<1>6. Untouched'
  <2>1. \A h \in Handlers : pc'[h] \in Before =>
          seen'[h] = NoRecord /\ rest'[h] = "none" /\ queue'[h] = <<>>
    BY <1>1, <1>4 DEF Untouched, Before
  <2>2. \A x \in writes' : pc'[x.by] \in {"started", "crashed"}
    BY <1>1, <1>3 DEF Untouched
  <2>3. \A m \in sent' : pc'[m.from] \notin Before
    BY <1>1, <1>4 DEF Untouched, Before
  <2>4. QED BY <2>1, <2>2, <2>3 DEF Untouched
<1>7. AskingStartsTheConversation'
  <2>1. ASSUME NEW h \in Handlers,
               \/ Has(queue'[h], "requestApproval")
               \/ \E m \in sent' : m.from = h /\ m.type = "requestApproval"
        PROVE  rest'[h] = "none" /\ \A x \in writes' : x.by = h => x.base = 0
    <3>1. \/ Has(queue[h], "requestApproval")
          \/ \E m \in sent : m.from = h /\ m.type = "requestApproval"
      BY <1>4, <2>1
    <3>2. rest[h] = "none" /\ \A x \in writes : x.by = h => x.base = 0
      BY <3>1 DEF AskingStartsTheConversation
    <3>3. QED BY <1>1, <1>3, <3>2
  <2>2. QED BY <2>1 DEF AskingStartsTheConversation
<1>8. RepliesAreNegative' /\ QueuedSuccessIsReal'
  BY <1>1, <1>4 DEF RepliesAreNegative, QueuedSuccessIsReal
<1>9. CreationHasACaller' /\ CallersHaveReadIt' /\ CreationAuthorised'
  <2>1. CreationHasACaller'
    BY <1>1, <1>3 DEF CreationHasACaller
  <2>2. CallersHaveReadIt' /\ CreationAuthorised'
    BY <1>1 DEF CallersHaveReadIt, CreationAuthorised
  <2>3. QED BY <2>1, <2>2
<1>10. AnnouncedIsStored'
  <2>1. \A m \in sent' : m.via = "commit" => \E x \in Stored : x.by = m.from
    BY <1>4, <1>5 DEF AnnouncedIsStored
  <2>2. QED BY <1>3, <2>1 DEF AnnouncedIsStored
<1>11. SuccessIsReal'
  BY <1>1, <1>4, <1>5 DEF SuccessIsReal, QueuedSuccessIsReal
<1>12. QED BY <1>3, <1>6, <1>7, <1>8, <1>9, <1>10, <1>11

LEMMA UpdateFailedKeeps ==
  ASSUME Inv, TypeOK', NEW w \in writes, UpdateFailed(w)
  PROVE  Inv'
<1>1. /\ w.status = "error" /\ Answer(w, "failed", w.stored)
      /\ pc[w.by] = "started"
      /\ UNCHANGED <<record, pc, input, seen, rest, queue>>
  BY DEF UpdateFailed
<1>2. TypeOK /\ w.by \in Handlers
  BY DEF Inv, TypeOK, Write
<1>3. /\ AnswersTellTheTruth' /\ RecordIsLastStored' /\ SeenIsCurrentOrOlder'
      /\ WritesHaveACause' /\ FirstVersions' /\ OneWinnerPerVersion'
      /\ \A x \in writes' : \E y \in writes : x.by = y.by /\ x.base = y.base
      /\ \A x \in Stored : \E y \in Stored' : x.by = y.by
      /\ \A x \in writes' : \E y \in writes : x.by = y.by /\ x.state = y.state
  BY <1>1, AcknowledgeKeeps
<1>4. \A m \in sent' \ sent : m.from = w.by /\ m.via = "reply" /\ m.type = "error"
  BY <1>2, ReplyEffect DEF UpdateFailed, Messages
<1> USE DEF Inv, SkillInvariant
<1>5. Untouched'
  <2>1. \A x \in writes' : pc'[x.by] \in {"started", "crashed"}
    BY <1>1, <1>3 DEF Untouched
  <2>2. \A m \in sent' : pc'[m.from] \notin Before
    BY <1>1, <1>4 DEF Untouched, Before
  <2>3. QED BY <1>1, <2>1, <2>2 DEF Untouched
<1>6. AskingStartsTheConversation'
  <2>1. ASSUME NEW h \in Handlers,
               \/ Has(queue'[h], "requestApproval")
               \/ \E m \in sent' : m.from = h /\ m.type = "requestApproval"
        PROVE  rest'[h] = "none" /\ \A x \in writes' : x.by = h => x.base = 0
    <3>1. rest[h] = "none" /\ \A x \in writes : x.by = h => x.base = 0
      BY <1>1, <1>4, <2>1 DEF AskingStartsTheConversation
    <3>2. QED BY <1>1, <1>3, <3>1
  <2>2. QED BY <2>1 DEF AskingStartsTheConversation
<1>7. RepliesAreNegative' /\ QueuedSuccessIsReal' /\ SuccessIsReal'
  BY <1>1, <1>4 DEF RepliesAreNegative, QueuedSuccessIsReal, SuccessIsReal
<1>8. CreationHasACaller' /\ CallersHaveReadIt' /\ CreationAuthorised'
  <2>1. CreationHasACaller'
    BY <1>1, <1>3 DEF CreationHasACaller
  <2>2. CallersHaveReadIt' /\ CreationAuthorised'
    BY <1>1 DEF CallersHaveReadIt, CreationAuthorised
  <2>3. QED BY <2>1, <2>2
<1>9. AnnouncedIsStored'
  <2>1. \A m \in sent' : m.via = "commit" => m \in sent
    BY <1>4
  <2>2. QED BY <1>3, <2>1 DEF AnnouncedIsStored
<1>10. QED BY <1>3, <1>5, <1>6, <1>7, <1>8, <1>9

LEMMA InvStep == Inv /\ [Next]_vars => Inv'
<1> SUFFICES ASSUME Inv, [Next]_vars PROVE Inv'
  OBVIOUS
<1>1. TypeOK /\ TypeOK'
  BY TypeStep DEF Inv
<1>2. CASE \E h \in Handlers :
             \/ ReceiveInvalid(h) \/ Receive(h) \/ Connected(h)
             \/ ConnectFails(h) \/ ReadFails(h)
  BY <1>1, <1>2, QuietSteps, QuietKeeps
<1>3. CASE Crash \/ BrokerDown \/ BrokerUp \/ UNCHANGED vars
  BY <1>1, <1>3, QuietSurroundings, QuietKeeps
<1>4. ASSUME NEW h \in Handlers, ReadClosed(h) PROVE Inv'
  BY <1>1, <1>4, ReadClosedKeeps
<1>5. ASSUME NEW h \in Handlers, ReadAndMove(h) PROVE Inv'
  BY <1>1, <1>5, ReadAndMoveKeeps
<1>6. ASSUME NEW h \in Handlers, ReadAndIgnore(h) PROVE Inv'
  BY <1>1, <1>6, ReadAndIgnoreKeeps
<1>7. ASSUME NEW h \in Handlers, RestSettles(h) PROVE Inv'
  BY <1>1, <1>7, RestSettlesKeeps
<1>8. ASSUME NEW w \in writes, DbUpdate(w) \/ DbUpdateFails(w) PROVE Inv'
  BY <1>1, <1>8, DbKeeps
<1>9. ASSUME NEW w \in writes, UpdateDone(w) PROVE Inv'
  BY <1>1, <1>9, UpdateDoneKeeps
<1>10. ASSUME NEW w \in writes, UpdateFailed(w) PROVE Inv'
  BY <1>1, <1>10, UpdateFailedKeeps
<1>11. QED
  BY <1>2, <1>3, <1>4, <1>5, <1>6, <1>7, <1>8, <1>9, <1>10 DEF Next

LEMMA InitInv == Init => Inv
<1> SUFFICES ASSUME Init PROVE Inv
  OBVIOUS
<1>1. TypeOK
  BY SkillAssumption DEF Init, TypeOK, NoRecord, Record, States, InitialState, Sent, Write
<1>2. writes = {} /\ sent = {} /\ record = NoRecord
      /\ \A h \in Handlers : seen[h] = NoRecord /\ rest[h] = "none" /\ queue[h] = <<>>
  BY DEF Init
<1>3. \A h \in Handlers : \A t : ~Has(queue[h], t)
  BY <1>2, ShortLists
<1>4. Untouched /\ AnswersTellTheTruth /\ RecordIsLastStored /\ SeenIsCurrentOrOlder
      /\ WritesHaveACause
  BY <1>2 DEF Untouched, AnswersTellTheTruth, RecordIsLastStored, SeenIsCurrentOrOlder,
              WritesHaveACause, Stored, NoRecord
<1>5. AskingStartsTheConversation /\ RepliesAreNegative /\ QueuedSuccessIsReal
      /\ CreationHasACaller /\ FirstVersions /\ CallersHaveReadIt
  BY <1>2, <1>3 DEF AskingStartsTheConversation, RepliesAreNegative, QueuedSuccessIsReal,
    CreationHasACaller, FirstVersions, CallersHaveReadIt, NoRecord, InitialState
<1>6. OneWinnerPerVersion /\ AnnouncedIsStored /\ SuccessIsReal /\ CreationAuthorised
  BY <1>2 DEF OneWinnerPerVersion, AnnouncedIsStored, SuccessIsReal, CreationAuthorised, Stored
<1>7. QED BY <1>1, <1>4, <1>5, <1>6 DEF Inv, SkillInvariant

LEMMA Invariance == Spec => []Inv
BY InitInv, InvStep, PTL DEF Spec

------------------------------------------------------------------------------
(***************************************************************************)
(* The theorems.                                                           *)
(***************************************************************************)

\* What the other proofs rest on holds in every reachable state.
THEOREM SkillInvariantHolds == Spec => []SkillInvariant
<1>1. Inv => SkillInvariant
  BY DEF Inv
<1>2. QED BY <1>1, Invariance, PTL

\* Of all handlers racing from one version of the record, one stores its state.
THEOREM OneWriterWins == Spec => []OneWinnerPerVersion
<1>1. Inv => OneWinnerPerVersion
  BY DEF Inv
<1>2. QED BY <1>1, Invariance, PTL

\* A handler none of whose writes is in the database commits no message.
THEOREM LosersAreSilent == Spec => []AnnouncedIsStored
<1>1. Inv => AnnouncedIsStored
  BY DEF Inv
<1>2. QED BY <1>1, Invariance, PTL

\* responseInstance goes out only after a successful createInstance call.
THEOREM SuccessIsTrue == Spec => []SuccessIsReal
<1>1. Inv => SuccessIsReal
  BY DEF Inv
<1>2. QED BY <1>1, Invariance, PTL

\* However many times a request is delivered, the approver is asked once: whoever
\* asks wrote the first version, and one write of it is stored.
THEOREM ApproverIsAskedOnce == Spec => []ApproverAskedOnce
<1>1. Inv => ApproverAskedOnce
  <2> SUFFICES ASSUME Inv,
                      NEW m \in sent, NEW n \in sent,
                      m.type = "requestApproval", n.type = "requestApproval"
               PROVE  m = n
    BY DEF ApproverAskedOnce
  <2> USE DEF Inv, SkillInvariant
  <2>1. m \in Sent /\ n \in Sent
    BY DEF TypeOK
  <2>2. m.via = "commit" /\ n.via = "commit"
    BY <2>1 DEF RepliesAreNegative, Sent
  <2>3. PICK a \in Stored, b \in Stored : a.by = m.from /\ b.by = n.from
    BY <2>2 DEF AnnouncedIsStored
  <2>4. a.base = 0 /\ b.base = 0
    BY <2>1, <2>3 DEF AskingStartsTheConversation, Stored, Sent
  <2>5. a = b
    BY <2>4 DEF OneWinnerPerVersion
  <2>6. QED BY <2>1, <2>2, <2>3, <2>5 DEF Sent
<1>2. QED BY <1>1, Invariance, PTL

\* With askForApproval, createInstance is called only after an approval.
THEOREM CreationIsAuthorised == Spec => []CreationAuthorised
<1>1. Inv => CreationAuthorised
  BY DEF Inv
<1>2. QED BY <1>1, Invariance, PTL

\* createInstance is repeated only by handlers that raced from one version or
\* restored CreatingInstance.
THEOREM RepetitionHasACause == Spec => []CreationRepeatedByRaceOrRestore
<1>1. Inv => CreationRepeatedByRaceOrRestore
  <2> SUFFICES ASSUME Inv, NEW g \in Handlers, NEW h \in Handlers,
                      rest[g] # "none", rest[h] # "none",
                      seen[g].state # "CreatingInstance", seen[h].state # "CreatingInstance"
               PROVE  seen[g].version = seen[h].version
    BY DEF CreationRepeatedByRaceOrRestore
  <2> USE DEF Inv, SkillInvariant
  <2>1. /\ seen[g].state = "WaitingForApproval" \/
             (seen[g].state = InitialState /\ RequestEdge.to = "CreatingInstance")
        /\ seen[h].state = "WaitingForApproval" \/
             (seen[h].state = InitialState /\ RequestEdge.to = "CreatingInstance")
    BY DEF CallersHaveReadIt, RequestEdge, Edge
  <2>2. RequestEdge.to = "CreatingInstance" => ~AskForApproval
    BY DEF RequestEdge, Edge
  <2>3. QED BY <2>1, <2>2 DEF FirstVersions
<1>2. QED BY <1>1, Invariance, PTL

\* Only the write issued when createInstance settles takes the record out of a
\* final state: a write caused by a message is refused, for its handler read a
\* state that was not final, hence an older version.
THEOREM OnlyCreationReopens == Spec => OnlyLateCreationReopens
<1>1. Inv /\ [Next]_vars =>
        [record.state \in FinalStates /\ record' # record =>
          \E w \in Stored' : /\ w.base + 1 = record'.version
                             /\ ~w.external
                             /\ w.state \in {CreatedEdge.to, "OperationFailed"}]_vars
  <2> SUFFICES ASSUME Inv, [Next]_vars, record.state \in FinalStates, record' # record
               PROVE  \E w \in Stored' : /\ w.base + 1 = record'.version
                                         /\ ~w.external
                                         /\ w.state \in {CreatedEdge.to, "OperationFailed"}
    OBVIOUS
  <2>1. TypeOK
    BY DEF Inv
  <2>2. PICK w \in writes : DbUpdate(w) \/ DbUpdateFails(w)
    BY DEF Next, ReceiveInvalid, Receive, Connected, ConnectFails, ReadFails, ReadClosed,
           ReadAndMove, ReadAndIgnore, RestSettles, UpdateDone, UpdateFailed, Crash,
           BrokerDown, BrokerUp, vars
  <2>3. PICK status \in {"ok", "error"}, stored \in BOOLEAN :
          /\ Answer(w, status, stored)
          /\ stored => /\ Matches(w)
                       /\ record' = [version |-> w.base + 1, state |-> w.state]
          /\ ~stored => record' = record
    BY <2>1, <2>2, DbEffect
  <2>4. PICK v \in Write :
          /\ writes' = (writes \ {w}) \cup {v}
          /\ v.base = w.base /\ v.state = w.state /\ v.external = w.external
          /\ v.stored = stored
    BY <2>1, <2>3, AnswerEffect
  <2>5. v \in Stored' /\ v.base + 1 = record'.version
    BY <2>3, <2>4 DEF Stored
  <2>6. record.version = w.base
    BY <2>3 DEF Matches, Inv, SkillInvariant, RecordIsLastStored, NoRecord, InitialState,
                FinalStates
  <2>7. ~w.external
    <3>1. w.by \in Handlers /\ w.external \in BOOLEAN
      BY <2>1 DEF TypeOK, Write
    <3>2. ASSUME w.external PROVE FALSE
      <4>1. w.base = seen[w.by].version /\ seen[w.by].state \notin FinalStates
        BY <3>2 DEF Inv, SkillInvariant, WritesHaveACause
      <4>2. seen[w.by].version = record.version => seen[w.by] = record
        BY <3>1 DEF Inv, SkillInvariant, SeenIsCurrentOrOlder
      <4>3. QED BY <2>6, <4>1, <4>2
    <3>3. QED BY <3>2
  <2>8. w.state \in {CreatedEdge.to, "OperationFailed"}
    BY <2>7 DEF Inv, SkillInvariant, WritesHaveACause
  <2>9. QED BY <2>4, <2>5, <2>7, <2>8
<1>2. QED BY <1>1, Invariance, PTL DEF OnlyLateCreationReopens, Spec

------------------------------------------------------------------------------
(***************************************************************************)
(* The refinement: a performed update is Store, a commit that publishes    *)
(* something is Tell, every other step of the skill stutters.              *)
(***************************************************************************)
Consumed == {[writer |-> w.by, base |-> w.base] : w \in Stored}
Told == {m.from : m \in {x \in sent : x.via = "commit"}}

\* A step that performs no update and commits nothing is a stuttering step.
LEMMA Stutters ==
  ASSUME Stored' = Stored, record' = record, sent \subseteq sent',
         \A m \in sent' \ sent : m.via # "commit"
  PROVE  UNCHANGED <<record.version, Consumed, Told>>
BY DEF Consumed, Told

LEMMA QuietStutters ==
  ASSUME Quiet
  PROVE  UNCHANGED <<record.version, Consumed, Told>>
<1>1. /\ Stored' = Stored /\ record' = record /\ sent \subseteq sent'
      /\ \A m \in sent' \ sent : m.via # "commit"
  BY DEF Quiet, Stored
<1>2. QED BY <1>1, Stutters

LEMMA DbStores ==
  ASSUME Inv, NEW w \in writes, DbUpdate(w) \/ DbUpdateFails(w)
  PROVE  (\E h \in Handlers : Versioned!Store(h))
         \/ UNCHANGED <<record.version, Consumed, Told>>
<1>1. TypeOK /\ w \in Write
  BY DEF Inv, TypeOK
<1>2. PICK status \in {"ok", "error"}, stored \in BOOLEAN :
        /\ Answer(w, status, stored)
        /\ stored => /\ Matches(w)
                     /\ record' = [version |-> w.base + 1, state |-> w.state]
        /\ ~stored => record' = record
  BY <1>1, DbEffect
<1>3. w.status = "sent" /\ sent' = sent
  BY <1>1, DbEffect
<1>4. PICK v \in Write :
        /\ writes' = (writes \ {w}) \cup {v}
        /\ v.by = w.by /\ v.base = w.base /\ v.stored = stored
  BY <1>1, <1>2, AnswerEffect
<1>5. ~w.stored
  BY <1>3 DEF Inv, SkillInvariant, AnswersTellTheTruth
<1>6. CASE stored
  <2>1. Stored' = Stored \cup {v}
    BY <1>4, <1>5, <1>6 DEF Stored
  <2>2. Consumed' = Consumed \cup {[writer |-> w.by, base |-> w.base]}
    BY <1>4, <2>1 DEF Consumed
  <2>3. /\ record'.version - 1 = w.base /\ w.base \in Nat
        /\ record.version \in {0, w.base}
    BY <1>1, <1>2, <1>6 DEF Matches, Write
  <2>4. \A x \in Stored : x.base < record.version /\ x.base \in Nat
    BY <1>1 DEF Inv, SkillInvariant, RecordIsLastStored, Stored, TypeOK, Write
  <2>5. \A s \in Consumed : s.base < w.base
    BY <2>3, <2>4 DEF Consumed
  <2>6. Told' = Told /\ w.by \in Handlers
    BY <1>1, <1>3 DEF Told, Write
  <2>7. Versioned!Store(w.by)
    BY <2>2, <2>3, <2>5, <2>6 DEF Versioned!Store, Consumed, Told
  <2>8. QED BY <2>6, <2>7
<1>7. CASE ~stored
  <2>1. Stored' = Stored
    BY <1>4, <1>5, <1>7 DEF Stored
  <2>2. QED BY <1>2, <1>3, <1>7, <2>1, Stutters
<1>8. QED BY <1>6, <1>7

\* Acknowledging a write changes what is known of it, not what was consumed.
LEMMA AcknowledgeStutters ==
  ASSUME Inv, NEW w \in writes, NEW status \in {"done", "failed"},
         Answer(w, status, w.stored), record' = record
  PROVE  Consumed' = Consumed /\ record'.version = record.version
<1>1. TypeOK /\ w.stored \in BOOLEAN
  BY DEF Inv, TypeOK, Write
<1>2. PICK v \in Write :
        /\ writes' = (writes \ {w}) \cup {v}
        /\ v.by = w.by /\ v.base = w.base /\ v.stored = w.stored
  BY <1>1, AnswerEffect
<1>3. /\ \A x \in Stored : \E y \in Stored' : x.by = y.by /\ x.base = y.base
      /\ \A y \in Stored' : \E x \in Stored : x.by = y.by /\ x.base = y.base
  BY <1>2 DEF Stored
<1>4. QED BY <1>3 DEF Consumed

LEMMA DoneTells ==
  ASSUME Inv, NEW w \in writes, UpdateDone(w)
  PROVE  (\E h \in Handlers : Versioned!Tell(h))
         \/ UNCHANGED <<record.version, Consumed, Told>>
<1>1. TypeOK /\ w \in Write /\ w.by \in Handlers
  BY DEF Inv, TypeOK, Write
<1>2. /\ w.status = "ok" /\ Commit(w) /\ Answer(w, "done", w.stored)
      /\ record' = record
  BY DEF UpdateDone
<1>3. Consumed' = Consumed /\ record'.version = record.version
  BY <1>2, AcknowledgeStutters
<1>4. sent \subseteq sent' /\ \A m \in sent' \ sent : m.from = w.by
  BY <1>1, <1>2, CommitEffect
<1>5. Told' = Told \/ Told' = Told \cup {w.by}
  BY <1>4 DEF Told
<1>6. [writer |-> w.by, base |-> w.base] \in Consumed
  BY <1>2 DEF Inv, SkillInvariant, AnswersTellTheTruth, Stored, Consumed
<1>7. CASE Told' = Told \cup {w.by}
  <2>1. Versioned!Tell(w.by)
    BY <1>3, <1>6, <1>7 DEF Versioned!Tell, Consumed, Told
  <2>2. QED BY <1>1, <2>1
<1>8. QED BY <1>3, <1>5, <1>7

\* Skill implements VersionedRecord: the record's versions are consumed in order,
\* one update each, and only writers who stored something announce anything.
THEOREM Refinement == Spec => ImplementsVersionedRecord
<1>1. Init => Versioned!Init
  BY DEF Init, Versioned!Init, NoRecord, Stored
<1>2. Inv /\ [Next]_vars => [Versioned!Next]_(Versioned!vars)
  <2> SUFFICES ASSUME Inv, [Next]_vars PROVE [Versioned!Next]_(Versioned!vars)
    OBVIOUS
  <2> DEFINE Still == UNCHANGED <<record.version, Consumed, Told>>
  <2>1. TypeOK
    BY DEF Inv
  <2>2. CASE \E h \in Handlers :
               \/ ReceiveInvalid(h) \/ Receive(h) \/ Connected(h)
               \/ ConnectFails(h) \/ ReadFails(h)
    <3>1. Quiet
      BY <2>1, <2>2, QuietSteps
    <3>2. QED BY <3>1, QuietStutters DEF Versioned!vars, Consumed, Told
  <2>3. CASE Crash \/ BrokerDown \/ BrokerUp \/ UNCHANGED vars
    <3>1. Quiet
      BY <2>1, <2>3, QuietSurroundings
    <3>2. QED BY <3>1, QuietStutters DEF Versioned!vars, Consumed, Told
  <2>4. ASSUME NEW h \in Handlers, ReadClosed(h) \/ ReadAndIgnore(h)
        PROVE  Still
    <3>1. /\ sent \subseteq sent' /\ \A m \in sent' \ sent : m.via # "commit"
          /\ UNCHANGED <<record, writes>>
      BY <2>1, <2>4, ReplyEffect DEF ReadClosed, ReadAndIgnore, Messages
    <3>2. Stored' = Stored
      BY <3>1 DEF Stored
    <3>3. QED BY <3>1, <3>2, Stutters
  <2>5. ASSUME NEW h \in Handlers, ReadAndMove(h) \/ RestSettles(h)
        PROVE  Still
    <3>1. \E w : writes' = writes \cup {w} /\ w.stored = FALSE
      <4>1. ASSUME NEW d, NEW base, NEW commands, NEW external,
                   Transition(h, d, base, commands, external)
            PROVE  \E w : writes' = writes \cup {w} /\ w.stored = FALSE
        <5> DEFINE w == [by |-> h, base |-> base, state |-> d.to, external |-> external,
                         stored |-> FALSE, status |-> "sent"]
        <5>1. writes' = writes \cup {w} /\ w.stored = FALSE
          BY <4>1 DEF Transition
        <5>2. QED BY <5>1
      <4>2. QED BY <2>5, <4>1 DEF ReadAndMove, RestSettles
    <3>2. UNCHANGED <<record, sent>> /\ Stored' = Stored
      BY <2>5, <3>1 DEF ReadAndMove, RestSettles, Stored
    <3>3. QED BY <3>2, Stutters
  <2>6. ASSUME NEW w \in writes, UpdateFailed(w)
        PROVE  Still
    <3>1. /\ Answer(w, "failed", w.stored) /\ record' = record
          /\ w.by \in Handlers
      BY <2>1, <2>6 DEF UpdateFailed, TypeOK, Write
    <3>2. Consumed' = Consumed
      BY <3>1, AcknowledgeStutters
    <3>3. sent \subseteq sent' /\ \A m \in sent' \ sent : m.via # "commit"
      BY <2>1, <2>6, <3>1, ReplyEffect DEF UpdateFailed, Messages
    <3>4. QED BY <3>1, <3>2, <3>3 DEF Told
  <2>7. ASSUME NEW w \in writes, DbUpdate(w) \/ DbUpdateFails(w)
        PROVE  Still \/ Versioned!Next
    BY <2>7, DbStores DEF Versioned!Next
  <2>8. ASSUME NEW w \in writes, UpdateDone(w)
        PROVE  Still \/ Versioned!Next
    BY <2>8, DoneTells DEF Versioned!Next
  <2>9. Still => UNCHANGED Versioned!vars
    BY DEF Versioned!vars, Consumed, Told
  <2>10. QED
    BY <2>2, <2>3, <2>4, <2>5, <2>6, <2>7, <2>8, <2>9 DEF Next
<1>3. QED
  BY <1>1, <1>2, Invariance, PTL DEF ImplementsVersionedRecord, Versioned!Spec, Spec
------------------------------------------------------------------------------
(***************************************************************************)
(* Who entered CreatingInstance reports: this is what CreationReported     *)
(* rests on besides fairness.  A failure excuses from it; the parts below  *)
(* that do not speak of one hold with failures too.                        *)
(***************************************************************************)
NothingFailed == crashes = 0 /\ faults = 0

\* What the operator may be told at the end of createInstance, and has been.
Outcomes == {"responseInstance", "requestRefused", "notUnderstood", "error"}
Reported == \E m \in sent : m.via = "commit" /\ m.type \in Outcomes

\* The next commit of this queue tells the operator how createInstance ended.
Ready(q) == q # <<>> /\ q[1] \in Outcomes

\* Nobody crashed, the broker is there, and every performed update is told so.
AllIsWell ==
  NothingFailed =>
    /\ broker = "up"
    /\ \A h \in Handlers : pc[h] # "crashed"
    /\ \A w \in Stored : w.status \in {"ok", "done"}

\* A handler whose createInstance call runs has written at most the state in
\* which it was called, and has nothing to say yet.
CallersAreFresh ==
  \A h \in Handlers : rest[h] = "pending" =>
    /\ queue[h] = <<>>
    /\ machine[h] = "CreatingInstance"
    /\ pc[h] \in {"started", "crashed"}
    /\ \A w \in writes : w.by = h => w.external /\ w.base + 1 = counter[h]

\* The write that follows the end of the call exists as soon as it has ended, and
\* names the version after that of the write which caused the call.
CreationIsSecond ==
  /\ \A h \in Handlers : rest[h] \in RestOutcomes =>
       \E w \in writes : w.by = h /\ ~w.external
  /\ \A w \in writes : ~w.external => rest[w.by] \in RestOutcomes
  /\ \A w, x \in writes : w.by = x.by /\ ~w.external /\ x.external => w.base = x.base + 1
  /\ \A w \in writes : w.external => seen[w.by].state # "CreatingInstance"

\* How the call ended waits in the queue until somebody has reported an outcome.
OutcomesWait ==
  NothingFailed => \A h \in Handlers : rest[h] \in RestOutcomes => Ready(queue[h]) \/ Reported

\* Once the first write is acknowledged, the second is refused only because the
\* version has moved on, unless an outcome is reported.
RefusalsHaveACause ==
  NothingFailed => \A w, x \in writes :
    w.by = x.by /\ ~w.external /\ x.external /\ w.status \in {"error", "failed"} /\ x.status = "done"
      => Reported \/ record.version > w.base

\* The acknowledgement of a second write has reported an outcome.
SecondsReport == NothingFailed => \A w \in writes : ~w.external /\ w.status = "done" => Reported

\* Only the end of a call takes the record out of CreatingInstance.
OnlyCreationMovesOn ==
  (\E w \in Stored : w.state = "CreatingInstance") =>
    record.state = "CreatingInstance" \/ \E x \in Stored : ~x.external

CreationInv ==
  /\ AllIsWell
  /\ CallersAreFresh
  /\ CreationIsSecond
  /\ OutcomesWait
  /\ RefusalsHaveACause
  /\ SecondsReport
  /\ OnlyCreationMovesOn

\* The handler has an outcome to report, or will have one when its call ends; and an
\* update of its is performed, or will be when the database gets to it.
Owes(h) ==
  /\ pc[h] = "started"
  /\ \/ rest[h] = "pending"
     \/ /\ Ready(queue[h])
        /\ \E w \in writes : /\ w.by = h
                             /\ \/ w.status = "ok"
                                \/ w.status = "sent" /\ w.base = record.version

\* While nothing failed, a conversation that entered CreatingInstance has reported an
\* outcome, or there is a handler that is about to.
CreationIsOwed ==
  NothingFailed /\ (\E w \in Stored : w.state = "CreatingInstance") =>
    Reported \/ \E h \in Handlers : Owes(h)

\* A message enters CreatingInstance silently; the end of createInstance is always told.
LEMMA EdgesOfCreation ==
  /\ \A d \in MessageEdges : d.to = "CreatingInstance" => d.do = <<>>
  /\ \A d \in RestEdges : d.do \in Seq(Messages) /\ Ready(d.do)
<1>1. ASSUME NEW d \in MessageEdges, d.to = "CreatingInstance"
      PROVE  d.do = <<>>
  BY <1>1 DEF MessageEdges, RequestEdge, ApprovalEdges, TypeEdges, Edge
<1>2. ASSUME NEW d \in RestEdges
      PROVE  Ready(d.do)
  <2>1. CASE d = CreatedEdge
    <3>1. d.do = <<"responseInstance", "requestType">> \/ d.do = <<"responseInstance">>
      BY <2>1 DEF CreatedEdge, Edge
    <3>2. CASE d.do = <<"responseInstance", "requestType">>
      BY <3>2 DEF Ready, Outcomes
    <3>3. CASE d.do = <<"responseInstance">>
      BY <3>3 DEF Ready, Outcomes
    <3> QED
      BY <3>1, <3>2, <3>3
  <2>2. CASE d \in CreationErrorEdges
    <3>1. PICK e \in RestFailures : d.do = <<CreationError(e)>>
      BY <2>2 DEF CreationErrorEdges, Edge
    <3>2. CreationError(e) \in Outcomes
      BY DEF CreationError, Outcomes
    <3> QED
      BY <3>1, <3>2 DEF Ready
  <2> QED
    BY <1>2, <2>1, <2>2 DEF RestEdges
<1> QED
  BY <1>1, <1>2, RestEdgeFacts

\* With the broker there, a commit of a queue that is ready reports.
LEMMA CommitReports ==
  ASSUME TypeOK, NEW w \in writes, Commit(w), broker = "up", Ready(queue[w.by])
  PROVE  Reported'
<1> DEFINE h == w.by
           q == queue[h]
<1>1. q \in Seq(Messages) /\ q # <<>> /\ q[1] \in Outcomes
  BY DEF TypeOK, Write, Ready
<1>2. Len(q) \in Nat \ {0}
  BY <1>1, EmptySeq
<1>3. PICK n \in 0 .. Len(q) :
        /\ n < Len(q) => ~Publishable(q[n + 1])
        /\ {[from |-> h, type |-> q[i], via |-> "commit"] : i \in 1 .. n} \subseteq sent'
  BY DEF Commit
<1>4. Publishable(q[1])
  BY <1>1 DEF Publishable, Outcomes
<1>5. n # 0
  BY <1>2, <1>3, <1>4
<1>6. [from |-> h, type |-> q[1], via |-> "commit"] \in sent'
  <2>1. 1 \in 1 .. n
    BY <1>2, <1>3, <1>5
  <2> QED
    BY <1>3, <2>1
<1> QED
  BY <1>1, <1>6 DEF Reported

\* What is empty stays empty.
LEMMA CommitOfNothing ==
  ASSUME TypeOK, NEW w \in writes, Commit(w), NEW g \in Handlers, queue[g] = <<>>
  PROVE  queue'[g] = <<>>
<1>1. CASE g # w.by
  BY <1>1, CommitEffect
<1>2. CASE g = w.by
  <2>1. Len(queue[g]) = 0
    BY EmptySeq
  <2>2. PICK n \in 0 .. 0 : queue' = [queue EXCEPT ![g] = SubSeq(queue[g], n + 2, 0)]
    BY <1>2, <2>1 DEF Commit
  <2>3. SubSeq(queue[g], n + 2, 0) = <<>>
    <3>1. n + 2 \in Int /\ 0 \in Int /\ 0 < n + 2
      BY <2>2
    <3> QED
      BY <3>1, SubSeqEmpty
  <2> QED
    BY <2>2, <2>3 DEF TypeOK
<1> QED
  BY <1>1, <1>2

\* A step that is not a failure finds that nothing has failed before it.
LEMMA QuietIsWell ==
  ASSUME TypeOK,
         \/ \E h \in Handlers : \/ ReceiveInvalid(h) \/ Receive(h) \/ Connected(h)
                                \/ ConnectFails(h) \/ ReadFails(h)
         \/ Crash \/ BrokerDown \/ BrokerUp \/ UNCHANGED vars
  PROVE  /\ UNCHANGED <<machine, counter>>
         /\ NothingFailed' => /\ NothingFailed
                              /\ broker' \in {broker, "up"}
                              /\ \A g \in Handlers : pc'[g] = "crashed" => pc[g] = "crashed"
<1>1. faults \in Nat /\ crashes \in Nat
  BY DEF TypeOK
<1>2. CASE Crash \/ BrokerDown
  <2>1. faults' = faults + 1 \/ crashes' = crashes + 1
    BY <1>2 DEF Crash, BrokerDown, Fault
  <2>2. ~NothingFailed'
    BY <1>1, <2>1 DEF NothingFailed
  <2> QED
    BY <1>2, <2>2 DEF Crash, BrokerDown
<1>3. CASE BrokerUp \/ UNCHANGED vars
  BY <1>3 DEF BrokerUp, vars, NothingFailed
<1>4. ASSUME NEW h \in Handlers, ConnectFails(h) \/ ReadFails(h)
      PROVE  ~NothingFailed' /\ UNCHANGED <<machine, counter>>
  BY <1>1, <1>4 DEF ConnectFails, ReadFails, Fault, NothingFailed
<1>5. ASSUME NEW h \in Handlers, ReceiveInvalid(h) \/ Receive(h) \/ Connected(h)
      PROVE  /\ UNCHANGED <<machine, counter, broker, crashes, faults>>
             /\ \A g \in Handlers : pc'[g] = "crashed" => pc[g] = "crashed"
  <2>1. UNCHANGED <<machine, counter, broker, crashes, faults>>
    BY <1>5 DEF ReceiveInvalid, Receive, Connected
  <2>2. PICK label \in {"connecting", "reading", "closed"} : pc' = [pc EXCEPT ![h] = label]
    BY <1>5 DEF ReceiveInvalid, Receive, Connected, Goto
  <2> QED
    BY <2>1, <2>2 DEF TypeOK
<1> QED
  BY <1>2, <1>3, <1>4, <1>5 DEF NothingFailed

LEMMA CreationQuiet ==
  ASSUME Inv, CreationInv,
         \/ \E h \in Handlers : \/ ReceiveInvalid(h) \/ Receive(h) \/ Connected(h)
                                \/ ConnectFails(h) \/ ReadFails(h)
         \/ Crash \/ BrokerDown \/ BrokerUp \/ UNCHANGED vars
  PROVE  CreationInv'
<1>1. TypeOK
  BY DEF Inv
<1>2. Quiet
  BY <1>1, QuietSteps, QuietSurroundings
<1>3. /\ UNCHANGED <<record, seen, rest, queue, writes, machine, counter>>
      /\ sent \subseteq sent'
      /\ \A h \in Handlers : pc[h] \in {"started", "crashed"} => pc'[h] \in {"started", "crashed"}
      /\ NothingFailed' => /\ NothingFailed
                           /\ broker' \in {broker, "up"}
                           /\ \A g \in Handlers : pc'[g] = "crashed" => pc[g] = "crashed"
  BY <1>1, <1>2, QuietIsWell DEF Quiet
<1>4. Stored' = Stored /\ (Reported => Reported')
  BY <1>3 DEF Stored, Reported
<1>5. AllIsWell'
  BY <1>3, <1>4 DEF CreationInv, AllIsWell
<1>6. CallersAreFresh' /\ CreationIsSecond'
  BY <1>3 DEF CreationInv, CallersAreFresh, CreationIsSecond
<1>7. OutcomesWait' /\ RefusalsHaveACause' /\ SecondsReport'
  BY <1>3, <1>4 DEF CreationInv, OutcomesWait, RefusalsHaveACause, SecondsReport
<1>8. OnlyCreationMovesOn'
  BY <1>3, <1>4 DEF CreationInv, OnlyCreationMovesOn
<1> QED
  BY <1>5, <1>6, <1>7, <1>8 DEF CreationInv

\* The message of h has been read: a call may run now, from the state that h has
\* entered or restored; others are not touched.
Reads(h, new) ==
  /\ pc[h] = "reading"
  /\ pc'[h] \in {"started", "closed"}
  /\ rest'[h] \in {"none", "pending"}
  /\ rest'[h] = "pending" =>
       pc'[h] = "started" /\ queue'[h] = <<>> /\ machine'[h] = "CreatingInstance"
  /\ \A g \in Handlers \ {h} : /\ pc'[g] = pc[g] /\ rest'[g] = rest[g]
                               /\ queue'[g] = queue[g] /\ machine'[g] = machine[g]
                               /\ counter'[g] = counter[g] /\ seen'[g] = seen[g]
  /\ writes' = writes \cup new
  /\ \A v \in new : /\ v.by = h /\ v.external /\ ~v.stored /\ v.status = "sent"
                    /\ seen'[h].state # "CreatingInstance"
                    /\ v.base + 1 = counter'[h]
  /\ sent \subseteq sent'
  /\ UNCHANGED <<broker, record, crashes, faults>>

LEMMA ReadClosedReads ==
  ASSUME Inv, NEW h \in Handlers, ReadClosed(h)
  PROVE  Reads(h, {})
<1>1. TypeOK
  BY DEF Inv
<1>2. /\ pc[h] = "reading" /\ pc' = [pc EXCEPT ![h] = "closed"]
      /\ seen' = [seen EXCEPT ![h] = record]
      /\ UNCHANGED <<broker, record, machine, counter, rest, queue, writes, crashes, faults>>
  BY DEF ReadClosed, Goto
<1>3. sent \subseteq sent'
  BY <1>1, ReplyEffect DEF ReadClosed, Messages
<1>4. rest[h] = "none"
  BY <1>2 DEF Inv, SkillInvariant, Untouched, Before
<1> QED
  BY <1>1, <1>2, <1>3, <1>4 DEF Reads, TypeOK

LEMMA ReadAndIgnoreReads ==
  ASSUME Inv, NEW h \in Handlers, ReadAndIgnore(h)
  PROVE  Reads(h, {})
<1>1. TypeOK
  BY DEF Inv
<1>2. /\ pc[h] = "reading" /\ pc' = [pc EXCEPT ![h] = "started"]
      /\ seen' = [seen EXCEPT ![h] = record]
      /\ machine' = [machine EXCEPT ![h] = record.state]
      /\ counter' = [counter EXCEPT ![h] = record.version]
      /\ Invoke(h, record.state)
      /\ UNCHANGED <<broker, record, queue, writes, crashes, faults>>
  BY DEF ReadAndIgnore, Goto
<1>3. sent \subseteq sent'
  BY <1>1, ReplyEffect DEF ReadAndIgnore, Messages
<1>4. rest[h] = "none" /\ queue[h] = <<>>
  BY <1>2 DEF Inv, SkillInvariant, Untouched, Before
<1>5. /\ rest'[h] \in {"none", "pending"}
      /\ rest'[h] = "pending" => record.state = "CreatingInstance"
      /\ \A g \in Handlers \ {h} : rest'[g] = rest[g]
  BY <1>1, <1>2, <1>4 DEF Invoke, TypeOK
<1> QED
  BY <1>1, <1>2, <1>3, <1>4, <1>5 DEF Reads, TypeOK

LEMMA ReadAndMoveReads ==
  ASSUME Inv, NEW h \in Handlers, ReadAndMove(h)
  PROVE  \E new : Reads(h, new)
<1>1. TypeOK
  BY DEF Inv
<1>2. /\ pc[h] = "reading" /\ pc' = [pc EXCEPT ![h] = "started"]
      /\ seen' = [seen EXCEPT ![h] = record]
      /\ UNCHANGED <<broker, record, sent, crashes, faults>>
  BY DEF ReadAndMove, Goto
<1>3. PICK d \in MessageEdges :
        /\ d.from = record.state
        /\ Transition(h, d, record.version, RestoredCommands(record.state), TRUE)
        /\ Invoke(h, d.to)
  BY DEF ReadAndMove
<1> DEFINE v == [by |-> h, base |-> record.version, state |-> d.to, external |-> TRUE,
                 stored |-> FALSE, status |-> "sent"]
<1>4. /\ machine' = [machine EXCEPT ![h] = d.to]
      /\ queue' = [queue EXCEPT ![h] = <<>> \o d.do]
      /\ counter' = [counter EXCEPT ![h] = record.version + 1]
      /\ writes' = writes \cup {v}
  BY <1>3 DEF Transition, RestoredCommands
<1>5. rest[h] = "none"
  BY <1>2 DEF Inv, SkillInvariant, Untouched, Before
<1>6. /\ rest'[h] \in {"none", "pending"}
      /\ rest'[h] = "pending" => d.to = "CreatingInstance"
      /\ \A g \in Handlers \ {h} : rest'[g] = rest[g]
  BY <1>1, <1>3, <1>5 DEF Invoke, TypeOK
<1>7. d.to = "CreatingInstance" => <<>> \o d.do = <<>>
  <2>1. d.do \in Seq(Messages) /\ (d.to = "CreatingInstance" => d.do = <<>>)
    BY EdgesOfCreation, MessageEdgeFacts
  <2>2. <<>> \o d.do = d.do
    BY <2>1, ConcatEmptySeq
  <2> QED
    BY <2>1, <2>2
<1>8. record.state # "CreatingInstance"
  BY <1>3, MessageEdgeFacts DEF InitialState
<1>9. /\ pc'[h] = "started" /\ seen'[h] = record /\ machine'[h] = d.to
      /\ queue'[h] = <<>> \o d.do /\ counter'[h] = record.version + 1
      /\ \A g \in Handlers \ {h} : /\ pc'[g] = pc[g] /\ queue'[g] = queue[g]
                                   /\ machine'[g] = machine[g] /\ counter'[g] = counter[g]
                                   /\ seen'[g] = seen[g]
  BY <1>1, <1>2, <1>4 DEF TypeOK
<1>10. v.by = h /\ v.external /\ ~v.stored /\ v.status = "sent" /\ v.base + 1 = counter'[h]
  BY <1>9
<1> HIDE DEF v
<1>11. Reads(h, {v})
  BY <1>2, <1>4, <1>6, <1>7, <1>8, <1>9, <1>10 DEF Reads
<1> QED
  BY <1>11

LEMMA CreationReads ==
  ASSUME Inv, TypeOK', CreationInv, NEW h \in Handlers, NEW new, Reads(h, new)
  PROVE  CreationInv'
<1>1. \A w \in writes : w.by \in Handlers \ {h}
  <2>1. \A w \in writes : w.by \in Handlers
    BY DEF Inv, TypeOK, Write
  <2>2. pc[h] = "reading" /\ \A w \in writes : pc[w.by] \in {"started", "crashed"}
    BY DEF Inv, SkillInvariant, Untouched, Reads
  <2> QED
    BY <2>1, <2>2
<1>2. Stored' = Stored /\ (Reported => Reported') /\ (NothingFailed' <=> NothingFailed)
  BY DEF Reads, Stored, Reported, NothingFailed
<1>3. \A g \in Handlers : rest'[g] \in RestOutcomes => g # h
  BY DEF Reads, RestOutcomes, RestFailures
<1>4. AllIsWell'
  BY <1>2 DEF CreationInv, AllIsWell, Reads
<1>5. CallersAreFresh'
  <2>1. ASSUME NEW g \in Handlers, rest'[g] = "pending"
        PROVE  /\ queue'[g] = <<>>
               /\ machine'[g] = "CreatingInstance"
               /\ pc'[g] \in {"started", "crashed"}
               /\ \A w \in writes' : w.by = g => w.external /\ w.base + 1 = counter'[g]
    <3>1. CASE g = h
      BY <1>1, <2>1, <3>1 DEF Reads
    <3>2. CASE g # h
      BY <2>1, <3>2 DEF Reads, CreationInv, CallersAreFresh
    <3> QED
      BY <3>1, <3>2
  <2> QED
    BY <2>1 DEF CallersAreFresh
<1>6. CreationIsSecond'
  <2>1. \A g \in Handlers : rest'[g] \in RestOutcomes =>
          \E w \in writes' : w.by = g /\ ~w.external
    BY <1>3 DEF Reads, CreationInv, CreationIsSecond
  <2>2. \A w \in writes' : ~w.external => w \in writes
    BY DEF Reads
  <2>3. \A w \in writes' : ~w.external => rest'[w.by] \in RestOutcomes
    BY <1>1, <2>2 DEF Reads, CreationInv, CreationIsSecond
  <2>4. \A w, x \in writes' : w.by = x.by /\ ~w.external /\ x.external => w.base = x.base + 1
    BY <1>1, <2>2 DEF Reads, CreationInv, CreationIsSecond
  <2>5. \A w \in writes' : w.external => seen'[w.by].state # "CreatingInstance"
    BY <1>1 DEF Reads, CreationInv, CreationIsSecond
  <2> QED
    BY <2>1, <2>3, <2>4, <2>5 DEF CreationIsSecond
<1>7. OutcomesWait'
  BY <1>2, <1>3 DEF OutcomesWait, CreationInv, Reads
<1>8. RefusalsHaveACause' /\ SecondsReport'
  BY <1>2 DEF RefusalsHaveACause, SecondsReport, CreationInv, Reads
<1>9. OnlyCreationMovesOn'
  BY <1>2 DEF OnlyCreationMovesOn, CreationInv, Reads
<1> QED
  BY <1>4, <1>5, <1>6, <1>7, <1>8, <1>9 DEF CreationInv

LEMMA CreationSettles ==
  ASSUME Inv, CreationInv, NEW h \in Handlers, RestSettles(h)
  PROVE  CreationInv'
<1>1. TypeOK
  BY DEF Inv
<1>2. pc[h] = "started" /\ rest[h] = "pending"
      /\ UNCHANGED <<broker, record, pc, seen, sent, crashes, faults>>
  BY DEF RestSettles
<1>3. PICK d \in RestEdges :
        /\ rest' = [rest EXCEPT ![h] = d.on]
        /\ Transition(h, d, counter[h], queue[h], FALSE)
  BY DEF RestSettles
<1>4. d.on \in RestOutcomes /\ d.do \in Seq(Messages) /\ Ready(d.do)
  BY RestEdgeFacts, EdgesOfCreation
<1> DEFINE v == [by |-> h, base |-> counter[h], state |-> d.to, external |-> FALSE,
                 stored |-> FALSE, status |-> "sent"]
<1>5. /\ v.by = h /\ v.base = counter[h] /\ ~v.external /\ ~v.stored /\ v.status = "sent"
      /\ writes' = writes \cup {v}
  BY <1>3 DEF Transition
<1> HIDE DEF v
<1>6. /\ queue[h] = <<>>
      /\ \A w \in writes : w.by = h => w.external /\ w.base + 1 = counter[h]
  BY <1>2 DEF CreationInv, CallersAreFresh
<1>7. /\ queue'[h] = d.do /\ rest'[h] = d.on
      /\ \A g \in Handlers \ {h} : /\ queue'[g] = queue[g] /\ rest'[g] = rest[g]
                                   /\ machine'[g] = machine[g] /\ counter'[g] = counter[g]
  <2>1. <<>> \o d.do = d.do
    BY <1>4, ConcatEmptySeq
  <2> QED
    BY <1>1, <1>3, <1>6, <2>1 DEF Transition, TypeOK
<1>8. Stored' = Stored /\ (Reported' <=> Reported) /\ (NothingFailed' <=> NothingFailed)
  BY <1>2, <1>5 DEF Stored, Reported, NothingFailed
<1>9. \A w \in writes : w.by \in Handlers
  BY <1>1 DEF TypeOK, Write
<1>10. "pending" \notin RestOutcomes
  BY DEF RestOutcomes, RestFailures
<1>11. AllIsWell'
  BY <1>2, <1>8 DEF CreationInv, AllIsWell
<1>12. CallersAreFresh'
  <2>1. ASSUME NEW g \in Handlers, rest'[g] = "pending"
        PROVE  /\ queue'[g] = <<>>
               /\ machine'[g] = "CreatingInstance"
               /\ pc'[g] \in {"started", "crashed"}
               /\ \A w \in writes' : w.by = g => w.external /\ w.base + 1 = counter'[g]
    <3>1. g # h
      BY <1>4, <1>7, <1>10, <2>1
    <3> QED
      BY <1>2, <1>5, <1>7, <2>1, <3>1 DEF CreationInv, CallersAreFresh
  <2> QED
    BY <2>1 DEF CallersAreFresh
<1>13. CreationIsSecond'
  <2>1. ASSUME NEW g \in Handlers, rest'[g] \in RestOutcomes
        PROVE  \E w \in writes' : w.by = g /\ ~w.external
    <3>1. CASE g = h
      BY <1>5, <3>1
    <3>2. CASE g # h
      BY <1>5, <1>7, <2>1, <3>2 DEF CreationInv, CreationIsSecond
    <3> QED
      BY <3>1, <3>2
  <2>2. \A w \in writes' : ~w.external => rest'[w.by] \in RestOutcomes
    BY <1>4, <1>5, <1>6, <1>7, <1>9 DEF CreationInv, CreationIsSecond
  <2>3. ASSUME NEW w \in writes', NEW x \in writes', w.by = x.by, ~w.external, x.external
        PROVE  w.base = x.base + 1
    <3>1. x \in writes
      BY <1>5, <2>3
    <3>2. CASE w = v
      BY <1>5, <1>6, <2>3, <3>1, <3>2
    <3>3. CASE w \in writes
      BY <2>3, <3>1, <3>3 DEF CreationInv, CreationIsSecond
    <3> QED
      BY <1>5, <3>2, <3>3
  <2>4. \A w \in writes' : w.external => seen'[w.by].state # "CreatingInstance"
    BY <1>2, <1>5 DEF CreationInv, CreationIsSecond
  <2> QED
    BY <2>1, <2>2, <2>3, <2>4 DEF CreationIsSecond
<1>14. OutcomesWait'
  <2>1. ASSUME NothingFailed', NEW g \in Handlers, rest'[g] \in RestOutcomes
        PROVE  Ready(queue'[g]) \/ Reported'
    <3>1. CASE g = h
      BY <1>4, <1>7, <3>1
    <3>2. CASE g # h
      BY <1>7, <1>8, <2>1, <3>2 DEF CreationInv, OutcomesWait
    <3> QED
      BY <3>1, <3>2
  <2> QED
    BY <2>1 DEF OutcomesWait
<1>15. RefusalsHaveACause' /\ SecondsReport'
  <2>1. \A w \in writes' : w.external \/ w.status # "sent" => w \in writes
    BY <1>5
  <2> QED
    BY <1>2, <1>8, <2>1 DEF RefusalsHaveACause, SecondsReport, CreationInv
<1>16. OnlyCreationMovesOn'
  BY <1>2, <1>8 DEF OnlyCreationMovesOn, CreationInv
<1> QED
  BY <1>11, <1>12, <1>13, <1>14, <1>15, <1>16 DEF CreationInv

\* w has been answered: the status and whether it is performed are all that is new.
Answers(w, v) ==
  /\ writes' = (writes \ {w}) \cup {v}
  /\ v.by = w.by /\ v.base = w.base /\ v.state = w.state /\ v.external = w.external

\* Whose call runs, and whose has ended, does not depend on the answers.
LEMMA CallersStay ==
  ASSUME CreationInv, NEW w \in writes, NEW v, Answers(w, v),
         UNCHANGED <<rest, seen, machine, counter, pc>>,
         \A g \in Handlers : queue[g] = <<>> => queue'[g] = <<>>
  PROVE  CallersAreFresh' /\ CreationIsSecond'
<1>1. \A x \in writes' : \E y \in writes :
        x.by = y.by /\ x.base = y.base /\ (x.external <=> y.external)
  BY DEF Answers
<1>2. \A y \in writes : \E x \in writes' : x.by = y.by /\ x.external = y.external
  BY DEF Answers
<1>3. CallersAreFresh'
  BY <1>1 DEF CreationInv, CallersAreFresh
<1>4. \A h \in Handlers : rest'[h] \in RestOutcomes =>
        \E x \in writes' : x.by = h /\ ~x.external
  BY <1>2 DEF CreationInv, CreationIsSecond
<1>5. \A x, z \in writes' : x.by = z.by /\ ~x.external /\ z.external => x.base = z.base + 1
  <2>1. ASSUME NEW x \in writes', NEW z \in writes', x.by = z.by, ~x.external, z.external
        PROVE  x.base = z.base + 1
    <3>1. PICK y \in writes : x.by = y.by /\ x.base = y.base /\ (x.external <=> y.external)
      BY <1>1
    <3>2. PICK u \in writes : z.by = u.by /\ z.base = u.base /\ (z.external <=> u.external)
      BY <1>1
    <3>3. y.by = u.by /\ ~y.external /\ u.external
      BY <2>1, <3>1, <3>2
    <3>4. y.base = u.base + 1
      BY <3>3 DEF CreationInv, CreationIsSecond
    <3> QED
      BY <3>1, <3>2, <3>4
  <2> QED
    BY <2>1
<1>6. /\ \A x \in writes' : ~x.external => rest'[x.by] \in RestOutcomes
      /\ \A x \in writes' : x.external => seen'[x.by].state # "CreatingInstance"
  BY <1>1 DEF CreationInv, CreationIsSecond
<1> QED
  BY <1>3, <1>4, <1>5, <1>6 DEF CreationIsSecond

LEMMA CreationDb ==
  ASSUME Inv, CreationInv, NEW w \in writes, DbUpdate(w) \/ DbUpdateFails(w)
  PROVE  CreationInv'
<1>1. TypeOK /\ w \in Write
  BY DEF Inv, TypeOK
<1>2. PICK status \in {"ok", "error"}, stored \in BOOLEAN :
        /\ Answer(w, status, stored)
        /\ stored => Matches(w) /\ record' = [version |-> w.base + 1, state |-> w.state]
        /\ ~stored => record' = record
        /\ NothingFailed' => /\ NothingFailed
                             /\ stored => status = "ok"
                             /\ ~stored => ~Matches(w)
  <2>1. CASE DbUpdate(w)
    <3>1. UNCHANGED <<crashes, faults>>
      BY <2>1 DEF DbUpdate
    <3> QED
      BY <2>1, <3>1 DEF DbUpdate, NothingFailed
  <2>2. CASE DbUpdateFails(w)
    <3>1. ~NothingFailed'
      BY <1>1, <2>2 DEF DbUpdateFails, Fault, NothingFailed, TypeOK
    <3> QED
      BY <2>2, <3>1 DEF DbUpdateFails
  <2> QED
    BY <2>1, <2>2
<1>3. w.status = "sent" /\ UNCHANGED <<broker, pc, seen, machine, counter, rest, queue, sent>>
  BY <1>1, DbEffect
<1>4. PICK v \in Write : Answers(w, v) /\ v.status = status /\ v.stored = stored
  BY <1>1, <1>2, AnswerEffect DEF Answers
<1>5. ~w.stored
  BY <1>3 DEF Inv, SkillInvariant, AnswersTellTheTruth
<1>6. Stored' = IF stored THEN Stored \cup {v} ELSE Stored
  BY <1>4, <1>5 DEF Stored, Answers
<1>7. Reported' <=> Reported
  BY <1>3 DEF Reported
<1>8. AllIsWell'
  BY <1>2, <1>3, <1>4, <1>6 DEF CreationInv, AllIsWell
<1>9. CallersAreFresh' /\ CreationIsSecond'
  BY <1>3, <1>4, CallersStay
<1>10. OutcomesWait'
  BY <1>2, <1>3, <1>7 DEF CreationInv, OutcomesWait
<1>11. RefusalsHaveACause'
  <2>1. ASSUME NothingFailed', NEW y \in writes', NEW x \in writes', y.by = x.by, ~y.external, x.external,
               y.status \in {"error", "failed"}, x.status = "done"
        PROVE  Reported \/ record'.version > y.base
    <3>1. x \in writes /\ x.by = y.by
      BY <1>4, <2>1 DEF Answers
    <3>2. x.stored /\ x.base \in Nat /\ record.version \in Nat /\ x.base < record.version
      BY <1>1, <2>1, <3>1 DEF Inv, SkillInvariant, AnswersTellTheTruth, RecordIsLastStored, Stored, TypeOK,
         Write, Record
    <3>3. CASE y = v
      <4>1. ~Matches(w) /\ record' = record
        BY <1>2, <1>4, <2>1, <3>3
      <4>2. y.base = w.base /\ w.base = x.base + 1
        BY <1>4, <2>1, <3>1, <3>3 DEF Answers, CreationInv, CreationIsSecond
      <4>3. record.version > w.base
        BY <3>2, <4>1, <4>2 DEF Matches
      <4> QED
        BY <4>1, <4>2, <4>3
    <3>4. CASE y \in writes
      <4>1. y.base \in Nat /\ w.base \in Nat
        BY <1>1, <3>4 DEF TypeOK, Write
      <4>2. Reported \/ record.version > y.base
        BY <1>2, <2>1, <3>1, <3>4 DEF CreationInv, RefusalsHaveACause
      <4>3. stored => record'.version = w.base + 1 /\ record.version \in {0, w.base}
        BY <1>2 DEF Matches
      <4>4. CASE stored
        BY <3>2, <4>1, <4>2, <4>3, <4>4
      <4>5. CASE ~stored
        BY <1>2, <4>2, <4>5
      <4> QED
        BY <4>4, <4>5
    <3> QED
      BY <1>4, <3>3, <3>4 DEF Answers
  <2> QED
    BY <1>7, <2>1 DEF RefusalsHaveACause
<1>12. SecondsReport'
  BY <1>2, <1>4, <1>7 DEF CreationInv, SecondsReport, Answers
<1>13. OnlyCreationMovesOn'
  <2>1. CASE ~stored
    BY <1>2, <1>6, <2>1 DEF CreationInv, OnlyCreationMovesOn
  <2>2. CASE stored /\ v.state = "CreatingInstance"
    BY <1>2, <1>4, <2>2 DEF Answers, OnlyCreationMovesOn
  <2>3. CASE stored /\ ~v.external
    BY <1>6, <2>3 DEF OnlyCreationMovesOn
  <2>4. CASE stored /\ v.external /\ v.state # "CreatingInstance"
    <3>1. record.state # "CreatingInstance"
      <4>1. SUFFICES ASSUME record.state = "CreatingInstance"
                     PROVE  FALSE
        OBVIOUS
      <4>2. record.version # 0
        BY <4>1 DEF Inv, SkillInvariant, RecordIsLastStored, NoRecord, InitialState
      <4>3. record.version = w.base /\ w.external
        BY <1>2, <1>4, <2>4, <4>2 DEF Matches, Answers
      <4>4. seen[w.by] = record
        BY <1>1, <4>3 DEF Inv, SkillInvariant, WritesHaveACause, SeenIsCurrentOrOlder, Write
      <4> QED
        BY <4>1, <4>3, <4>4 DEF CreationInv, CreationIsSecond
    <3>2. (\E x \in Stored : x.state = "CreatingInstance") => \E x \in Stored : ~x.external
      BY <3>1 DEF CreationInv, OnlyCreationMovesOn
    <3> QED
      BY <1>6, <2>4, <3>2 DEF OnlyCreationMovesOn
  <2> QED
    BY <2>1, <2>2, <2>3, <2>4
<1> QED
  BY <1>8, <1>9, <1>10, <1>11, <1>12, <1>13 DEF CreationInv

LEMMA CreationDone ==
  ASSUME Inv, CreationInv, NEW w \in writes, UpdateDone(w)
  PROVE  CreationInv'
<1>1. TypeOK /\ w \in Write
  BY DEF Inv, TypeOK
<1>2. /\ w.status = "ok" /\ Commit(w) /\ Answer(w, "done", w.stored)
      /\ UNCHANGED <<broker, record, pc, seen, machine, counter, rest, crashes, faults>>
  BY DEF UpdateDone
<1>3. PICK v \in Write : Answers(w, v) /\ v.status = "done" /\ v.stored = w.stored
  BY <1>1, <1>2, AnswerEffect DEF Answers, Write
<1>4. w.stored /\ Stored' = (Stored \ {w}) \cup {v}
  BY <1>2, <1>3 DEF Inv, SkillInvariant, AnswersTellTheTruth, Stored, Answers
<1>5. /\ sent \subseteq sent'
      /\ \A h \in Handlers : h # w.by => queue'[h] = queue[h]
  BY <1>1, <1>2, CommitEffect
<1>6. (Reported => Reported') /\ (NothingFailed' <=> NothingFailed)
  BY <1>2, <1>5 DEF Reported, NothingFailed
\* An outcome that waited is reported.
<1>7. NothingFailed /\ rest[w.by] \in RestOutcomes => Reported'
  <2>1. ASSUME NothingFailed, Ready(queue[w.by])
        PROVE  Reported'
    <3>1. broker = "up"
      BY <2>1 DEF CreationInv, AllIsWell
    <3> QED
      BY <1>1, <1>2, <2>1, <3>1, CommitReports
  <2> QED
    BY <1>1, <1>6, <2>1 DEF CreationInv, OutcomesWait, Write
<1>8. AllIsWell'
  BY <1>2, <1>3, <1>4, <1>6 DEF CreationInv, AllIsWell
<1>9. CallersAreFresh' /\ CreationIsSecond'
  <2>1. \A g \in Handlers : queue[g] = <<>> => queue'[g] = <<>>
    BY <1>1, <1>2, CommitOfNothing
  <2> QED
    BY <1>2, <1>3, <2>1, CallersStay
<1>10. OutcomesWait'
  <2>1. ASSUME NothingFailed, NEW h \in Handlers, rest[h] \in RestOutcomes
        PROVE  Ready(queue'[h]) \/ Reported'
    <3>1. CASE h = w.by
      BY <1>7, <2>1, <3>1
    <3>2. CASE h # w.by
      BY <1>5, <1>6, <2>1, <3>2 DEF CreationInv, OutcomesWait
    <3> QED
      BY <3>1, <3>2
  <2> QED
    BY <1>2, <1>6, <2>1 DEF OutcomesWait
<1>11. RefusalsHaveACause'
  <2>1. ASSUME NothingFailed, NEW y \in writes', NEW x \in writes', y.by = x.by, ~y.external, x.external,
               y.status \in {"error", "failed"}, x.status = "done"
        PROVE  Reported' \/ record.version > y.base
    <3>1. y \in writes
      BY <1>3, <2>1 DEF Answers
    <3>2. CASE x = v
      <4>1. w.by = y.by
        BY <1>3, <2>1, <3>2 DEF Answers
      <4>2. rest[w.by] \in RestOutcomes
        BY <2>1, <3>1, <4>1 DEF CreationInv, CreationIsSecond
      <4> QED
        BY <1>7, <2>1, <4>2
    <3>3. CASE x \in writes
      BY <1>6, <2>1, <3>1, <3>3 DEF CreationInv, RefusalsHaveACause
    <3> QED
      BY <1>3, <3>2, <3>3 DEF Answers
  <2> QED
    BY <1>2, <1>6, <2>1 DEF RefusalsHaveACause
<1>12. SecondsReport'
  <2>1. ASSUME NothingFailed, NEW x \in writes', ~x.external, x.status = "done"
        PROVE  Reported'
    <3>1. CASE x = v
      <4>1. rest[w.by] \in RestOutcomes
        BY <1>3, <2>1, <3>1 DEF CreationInv, CreationIsSecond, Answers
      <4> QED
        BY <1>7, <2>1, <4>1
    <3>2. CASE x \in writes
      BY <1>6, <2>1, <3>2 DEF CreationInv, SecondsReport
    <3> QED
      BY <1>3, <3>1, <3>2 DEF Answers
  <2> QED
    BY <1>6, <2>1 DEF SecondsReport
<1>13. OnlyCreationMovesOn'
  BY <1>2, <1>3, <1>4 DEF CreationInv, OnlyCreationMovesOn, Answers, Stored
<1> QED
  BY <1>8, <1>9, <1>10, <1>11, <1>12, <1>13 DEF CreationInv

LEMMA CreationRefused ==
  ASSUME Inv, CreationInv, NEW w \in writes, UpdateFailed(w)
  PROVE  CreationInv'
<1>1. TypeOK /\ w \in Write
  BY DEF Inv, TypeOK
<1>2. /\ w.status = "error" /\ Answer(w, "failed", w.stored)
      /\ UNCHANGED <<broker, record, pc, seen, machine, counter, rest, queue, crashes, faults>>
  BY DEF UpdateFailed
<1>3. PICK v \in Write : Answers(w, v) /\ v.status = "failed" /\ v.stored = w.stored
  BY <1>1, <1>2, AnswerEffect DEF Answers, Write
<1>4. Stored' = IF w.stored THEN (Stored \ {w}) \cup {v} ELSE Stored
  BY <1>1, <1>3 DEF Stored, Answers, Write
<1>5. sent \subseteq sent'
  BY <1>1, ReplyEffect DEF UpdateFailed, Messages, Write
<1>6. (Reported => Reported') /\ (NothingFailed' <=> NothingFailed)
  BY <1>2, <1>5 DEF Reported, NothingFailed
<1>7. AllIsWell'
  <2>1. NothingFailed => ~w.stored
    BY <1>2 DEF CreationInv, AllIsWell, Stored
  <2> QED
    BY <1>2, <1>4, <1>6, <2>1 DEF CreationInv, AllIsWell
<1>8. CallersAreFresh' /\ CreationIsSecond'
  BY <1>2, <1>3, CallersStay
<1>9. OutcomesWait'
  BY <1>2, <1>6 DEF CreationInv, OutcomesWait
<1>10. RefusalsHaveACause'
  <2>1. ASSUME NothingFailed, NEW y \in writes', NEW x \in writes', y.by = x.by, ~y.external, x.external,
               y.status \in {"error", "failed"}, x.status = "done"
        PROVE  Reported \/ record.version > y.base
    <3>1. x \in writes
      BY <1>3, <2>1 DEF Answers
    <3>2. PICK u \in writes : /\ u.by = y.by /\ u.base = y.base /\ u.external = y.external
                              /\ u.status \in {"error", "failed"}
      BY <1>2, <1>3, <2>1 DEF Answers
    <3> QED
      BY <2>1, <3>1, <3>2 DEF CreationInv, RefusalsHaveACause
  <2> QED
    BY <1>2, <1>6, <2>1 DEF RefusalsHaveACause
<1>11. SecondsReport'
  BY <1>3, <1>6 DEF CreationInv, SecondsReport, Answers
<1>12. OnlyCreationMovesOn'
  BY <1>2, <1>3, <1>4 DEF CreationInv, OnlyCreationMovesOn, Answers, Stored
<1> QED
  BY <1>7, <1>8, <1>9, <1>10, <1>11, <1>12 DEF CreationInv

LEMMA CreationStep == Inv /\ Inv' /\ CreationInv /\ [Next]_vars => CreationInv'
<1> SUFFICES ASSUME Inv, Inv', CreationInv, [Next]_vars
             PROVE  CreationInv'
  OBVIOUS
<1>1. CASE \/ \E h \in Handlers : \/ ReceiveInvalid(h) \/ Receive(h) \/ Connected(h)
                                  \/ ConnectFails(h) \/ ReadFails(h)
           \/ Crash \/ BrokerDown \/ BrokerUp \/ UNCHANGED vars
  BY <1>1, CreationQuiet
<1>2. ASSUME NEW h \in Handlers, ReadClosed(h) \/ ReadAndMove(h) \/ ReadAndIgnore(h)
      PROVE  CreationInv'
  <2>1. \E new : Reads(h, new)
    BY <1>2, ReadClosedReads, ReadAndMoveReads, ReadAndIgnoreReads
  <2>2. TypeOK'
    BY DEF Inv
  <2> QED
    BY <2>1, <2>2, CreationReads
<1>3. ASSUME NEW h \in Handlers, RestSettles(h)
      PROVE  CreationInv'
  BY <1>3, CreationSettles
<1>4. ASSUME NEW w \in writes, DbUpdate(w) \/ DbUpdateFails(w) \/ UpdateDone(w) \/ UpdateFailed(w)
      PROVE  CreationInv'
  BY <1>4, CreationDb, CreationDone, CreationRefused
<1> QED
  BY <1>1, <1>2, <1>3, <1>4 DEF Next

LEMMA CreationInitially == Init => CreationInv
<1> SUFFICES ASSUME Init
             PROVE  CreationInv
  OBVIOUS
<1>1. /\ writes = {} /\ sent = {} /\ broker = "up"
      /\ \A h \in Handlers : rest[h] = "none" /\ pc[h] = "idle"
  BY DEF Init
<1>2. AllIsWell /\ CallersAreFresh /\ CreationIsSecond
  BY <1>1 DEF AllIsWell, CallersAreFresh, CreationIsSecond, Stored, RestOutcomes, RestFailures
<1>3. OutcomesWait /\ RefusalsHaveACause /\ SecondsReport /\ OnlyCreationMovesOn
  BY <1>1 DEF OutcomesWait, RefusalsHaveACause, SecondsReport, OnlyCreationMovesOn, Stored, RestOutcomes,
     RestFailures
<1> QED
  BY <1>2, <1>3 DEF CreationInv

\* The last performed update is the one that entered CreatingInstance.
LEMMA OwedInCreation ==
  ASSUME Inv, CreationInv, NothingFailed, record.state = "CreatingInstance"
  PROVE  Reported \/ \E h \in Handlers : Owes(h)
<1>1. TypeOK
  BY DEF Inv
<1>2. PICK w \in Stored : w.base + 1 = record.version /\ w.state = "CreatingInstance"
  <2>1. record.version # 0
    BY DEF Inv, SkillInvariant, RecordIsLastStored, NoRecord, InitialState
  <2> QED
    BY <2>1 DEF Inv, SkillInvariant, RecordIsLastStored
<1>3. w \in writes /\ w \in Write
  BY <1>1 DEF Stored, TypeOK
<1>4. w.external
  <2>1. CreatedEdge.to # "CreatingInstance"
    BY RestEdgeFacts DEF RestEdges
  <2> QED
    BY <1>2, <1>3, <2>1 DEF Inv, SkillInvariant, WritesHaveACause
<1>5. PICK h \in Handlers : h = w.by
  BY <1>3 DEF Write
<1>6. rest[h] \in RestOutcomes \cup {"pending"} /\ pc[h] = "started"
  <2>1. rest[h] # "none" /\ pc[h] \in {"started", "crashed"}
    BY <1>2, <1>3, <1>5 DEF Inv, SkillInvariant, CreationHasACaller, Untouched
  <2>2. pc[h] # "crashed"
    BY DEF CreationInv, AllIsWell
  <2> QED
    BY <1>1, <2>1, <2>2 DEF TypeOK
<1>7. CASE rest[h] = "pending"
  BY <1>6, <1>7 DEF Owes
<1>8. CASE rest[h] \in RestOutcomes /\ ~Reported
  <2>1. Ready(queue[h])
    BY <1>8 DEF CreationInv, OutcomesWait
  <2>2. CASE w.status = "ok"
    BY <1>3, <1>5, <1>6, <2>1, <2>2 DEF Owes
  <2>3. CASE w.status = "done"
    <3>1. PICK v \in writes : v.by = h /\ ~v.external
      BY <1>8 DEF CreationInv, CreationIsSecond
    <3>2. v.base = record.version
      BY <1>2, <1>3, <1>4, <1>5, <3>1 DEF CreationInv, CreationIsSecond
    <3>3. v.status \notin {"ok", "done"}
      <4>1. ~v.stored
        BY <1>1, <3>2 DEF Inv, SkillInvariant, RecordIsLastStored, Stored, TypeOK, Record
      <4> QED
        BY <4>1 DEF Inv, SkillInvariant, AnswersTellTheTruth
    <3>4. v.status \notin {"error", "failed"}
      <4>1. ~(record.version > v.base)
        BY <1>1, <3>2 DEF TypeOK, Record
      <4> QED
        BY <1>3, <1>4, <1>5, <1>8, <2>3, <3>1, <4>1 DEF CreationInv, RefusalsHaveACause
    <3>5. v.status = "sent"
      BY <1>1, <3>3, <3>4 DEF TypeOK, Write
    <3> QED
      BY <1>6, <2>1, <3>1, <3>2, <3>5 DEF Owes
  <2> QED
    BY <1>2, <2>2, <2>3 DEF CreationInv, AllIsWell
<1> QED
  BY <1>6, <1>7, <1>8

\* The record has left CreatingInstance by the update that follows the end of a call.
LEMMA OwedAfterCreation ==
  ASSUME Inv, CreationInv, NothingFailed, NEW w \in Stored, ~w.external
  PROVE  Reported \/ \E h \in Handlers : Owes(h)
<1>1. w \in writes /\ w \in Write
  BY DEF Inv, TypeOK, Stored
<1>2. PICK h \in Handlers : h = w.by
  BY <1>1 DEF Write
<1>3. rest[h] \in RestOutcomes /\ pc[h] = "started"
  <2>1. rest[h] \in RestOutcomes
    BY <1>1, <1>2 DEF CreationInv, CreationIsSecond
  <2> QED
    BY <1>1, <1>2, <2>1 DEF Inv, SkillInvariant, Untouched, CreationInv, AllIsWell
<1>4. CASE w.status = "ok"
  BY <1>1, <1>2, <1>3, <1>4 DEF CreationInv, OutcomesWait, Owes
<1>5. CASE w.status = "done"
  BY <1>1, <1>5 DEF CreationInv, SecondsReport
<1> QED
  BY <1>4, <1>5 DEF CreationInv, AllIsWell

\* Whatever is duplicated and whoever wins the race: while nothing failed, a
\* conversation that entered CreatingInstance has told the operator an outcome, or a
\* handler lives that has one, or is getting one, and whose update is performed or
\* can still be.  Fairness then is all that CreationReported needs.
THEOREM CreationIsOwedHolds == Spec => []CreationIsOwed
<1>1. Inv /\ CreationInv => CreationIsOwed
  BY OwedInCreation, OwedAfterCreation DEF CreationIsOwed, CreationInv, OnlyCreationMovesOn
<1>2. Inv /\ Inv' /\ CreationInv /\ [Next]_vars => CreationInv'
  BY CreationStep
<1> QED
  BY <1>1, <1>2, CreationInitially, Invariance, PTL DEF Spec
=============================================================================
