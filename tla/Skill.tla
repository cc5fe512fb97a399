-------------------------------- MODULE Skill --------------------------------
(***************************************************************************)
(* The onboarding skill handling the messages of one conversation.  Every  *)
(* received message starts one asynchronous applyEvent, here a "handler";  *)
(* handlers interleave at every await.  A handler reads the conversation's *)
(* record, runs a private copy of the statechart from the state it read,   *)
(* and for each transition writes the record back under the version it     *)
(* expects.  Messages wait in the handler's command queue until one of its *)
(* own writes is acknowledged.  The REST call of CreatingInstance starts   *)
(* as the state is entered, before that write is even sent.                *)
(*                                                                         *)
(* Conversations share only the database connection, so one suffices.      *)
(***************************************************************************)
EXTENDS OnboardingMachine, Integers

CONSTANTS
  Handlers,    \* received messages, one applyEvent each
  Inputs,      \* what a message can be
  MaxCrashes,  \* bound on process crashes
  MaxFaults    \* bound on database errors and broker outages together

\* Messages that do not reach applyEvent: without sender id and role, without
\* type or conversation id, without a role object.
Defects == {"NOSENDER", "INCOMPLETE", "ROLELESS"}

ASSUME SkillAssumption ==
  /\ Inputs \subseteq MachineEvents \cup {"UNKNOWN"} \cup Defects
  /\ MaxCrashes \in Nat
  /\ MaxFaults \in Nat

VARIABLES
  broker,   \* "up" or "down": whether publish throws
  conn,     \* SimpleMongoDbClient: none, connecting, open, failed
  record,   \* the conversation's document; version 0 while there is none
  pc,       \* per handler: where its applyEvent is
  input,    \* per handler: the message it handles
  seen,     \* per handler: the record it read
  machine,  \* per handler: state of its copy of the statechart
  counter,  \* per handler: versionCounter
  rest,     \* per handler: its createInstance call
  queue,    \* per handler: commands of the deferred dispatcher
  writes,   \* updates sent to the database
  sent,     \* messages published
  crashes,
  faults

vars == <<broker, conn, record, pc, input, seen, machine, counter, rest, queue,
          writes, sent, crashes, faults>>

Record == [version : Nat, state : States]
NoRecord == [version |-> 0, state |-> InitialState]

\* external: the write belongs to the transition the message itself caused.
\* stored: the database performed it.  status: sent, then answered ok or error,
\* then done or failed once the listener has run.
Write == [by : Handlers, base : Nat, state : States, external : BOOLEAN,
          stored : BOOLEAN, status : {"sent", "ok", "error", "done", "failed"}]

Sent == [from : Handlers, type : Messages, via : {"commit", "reply"}]

Stored == {w \in writes : w.stored}

TypeOK ==
  /\ broker \in {"up", "down"}
  /\ conn \in {"none", "connecting", "open", "failed"}
  /\ record \in Record
  /\ pc \in [Handlers -> {"idle", "connecting", "reading", "started", "closed", "crashed"}]
  /\ input \in [Handlers -> Inputs \cup {"none"}]
  /\ seen \in [Handlers -> Record]
  /\ machine \in [Handlers -> States]
  /\ counter \in [Handlers -> Nat]
  /\ rest \in [Handlers -> RestOutcomes \cup {"none", "pending"}]
  /\ queue \in [Handlers -> Seq(Messages)]
  /\ writes \subseteq Write
  /\ sent \subseteq Sent
  /\ crashes \in Nat
  /\ faults \in Nat

Init ==
  /\ broker = "up"
  /\ conn = "none"
  /\ record = NoRecord
  /\ pc = [h \in Handlers |-> "idle"]
  /\ input = [h \in Handlers |-> "none"]
  /\ seen = [h \in Handlers |-> NoRecord]
  /\ machine = [h \in Handlers |-> InitialState]
  /\ counter = [h \in Handlers |-> 0]
  /\ rest = [h \in Handlers |-> "none"]
  /\ queue = [h \in Handlers |-> <<>>]
  /\ writes = {}
  /\ sent = {}
  /\ crashes = 0
  /\ faults = 0

------------------------------------------------------------------------------
Goto(h, label) == pc' = [pc EXCEPT ![h] = label]

Fault == faults < MaxFaults /\ faults' = faults + 1

\* A direct answer to whoever sent h's message.  With the connection closed
\* publish throws and nobody retries.
Reply(h, type) ==
  sent' = IF broker = "up"
          THEN sent \cup {[from |-> h, type |-> type, via |-> "reply"]}
          ELSE sent

\* MessageInterpreter answers or drops what it cannot turn into an event.
ReceiveInvalid(h) ==
  \E m \in Inputs \cap Defects :
    /\ pc[h] = "idle" /\ broker = "up"
    /\ input' = [input EXCEPT ![h] = m]
    /\ Goto(h, "closed")
    /\ CASE m = "NOSENDER"   -> UNCHANGED sent
         [] m = "INCOMPLETE" -> Reply(h, "notUnderstood")
         [] m = "ROLELESS"   -> Reply(h, "error")
    /\ UNCHANGED <<broker, conn, record, seen, machine, counter, rest, queue, writes,
                   crashes, faults>>

\* applyEvent up to its first await.  connect() sets its flag before it awaits
\* the driver, so until the first caller is connected every other one goes on
\* to a database that is not there yet, and answers with an error.
Receive(h) ==
  \E m \in Inputs \ Defects :
    /\ pc[h] = "idle" /\ broker = "up"
    /\ input' = [input EXCEPT ![h] = m]
    /\ \/ /\ conn = "none"
          /\ conn' = "connecting"
          /\ Goto(h, "connecting")
          /\ UNCHANGED sent
       \/ /\ conn = "open"
          /\ Goto(h, "reading")
          /\ UNCHANGED <<conn, sent>>
       \/ /\ conn \in {"connecting", "failed"}
          /\ Goto(h, "closed")
          /\ Reply(h, "error")
          /\ UNCHANGED conn
    /\ UNCHANGED <<broker, record, seen, machine, counter, rest, queue, writes,
                   crashes, faults>>

Connected(h) ==
  /\ pc[h] = "connecting"
  /\ conn' = "open"
  /\ Goto(h, "reading")
  /\ UNCHANGED <<broker, record, input, seen, machine, counter, rest, queue, writes,
                 sent, crashes, faults>>

\* The flag stays set: nobody connects again before the process restarts.
ConnectFails(h) ==
  /\ pc[h] = "connecting"
  /\ Fault
  /\ conn' = "failed"
  /\ Goto(h, "closed")
  /\ Reply(h, "error")
  /\ UNCHANGED <<broker, record, input, seen, machine, counter, rest, queue, writes,
                 crashes>>

ReadFails(h) ==
  /\ pc[h] = "reading"
  /\ Fault
  /\ Goto(h, "closed")
  /\ Reply(h, "error")
  /\ UNCHANGED <<broker, conn, record, input, seen, machine, counter, rest, queue,
                 writes, crashes>>

------------------------------------------------------------------------------
\* A bug that repeats the actions stored with the state when it is restored:
\* WaitingForApproval asks the approver again.
RestoredCommandsRepeated(s) ==
  IF s = "WaitingForApproval" THEN <<"requestApproval">> ELSE <<>>

\* Starting a restored machine runs the persisted actions again, but functions
\* do not survive JSON: of them only the invocation of createInstance is left.
RestoredCommands(s) == <<>>

\* A bug that forgets to advance versionCounter.
TransitionSameVersion(h, d, base, commands, external) ==
  /\ machine' = [machine EXCEPT ![h] = d.to]
  /\ queue' = [queue EXCEPT ![h] = commands \o d.do]
  /\ counter' = [counter EXCEPT ![h] = base]
  /\ writes' = writes \cup
       {[by |-> h, base |-> base, state |-> d.to, external |-> external,
         stored |-> FALSE, status |-> "sent"]}

\* onTransition's listener as far as its await: the queue has the edge's
\* commands already, and the update goes out under the next expected version.
\* The queue is given, for a listener may run on a freshly restored machine.
Transition(h, d, base, commands, external) ==
  /\ machine' = [machine EXCEPT ![h] = d.to]
  /\ queue' = [queue EXCEPT ![h] = commands \o d.do]
  /\ counter' = [counter EXCEPT ![h] = base + 1]
  /\ writes' = writes \cup
       {[by |-> h, base |-> base, state |-> d.to, external |-> external,
         stored |-> FALSE, status |-> "sent"]}

\* A restored final state stops the service at once: a closed conversation.
Closed == record.state \in FinalStates

ReadClosed(h) ==
  /\ pc[h] = "reading"
  /\ Closed
  /\ seen' = [seen EXCEPT ![h] = record]
  /\ Goto(h, "closed")
  /\ Reply(h, "notUnderstood")
  /\ UNCHANGED <<broker, conn, record, input, machine, counter, rest, queue, writes,
                 crashes, faults>>

\* A bug that calls createInstance before the approver has answered, too.
InvokeEarly(h, state) ==
  rest' = IF state \in {"WaitingForApproval", "CreatingInstance"}
          THEN [rest EXCEPT ![h] = "pending"] ELSE rest

\* Entering CreatingInstance calls createInstance; so does restoring it.
Invoke(h, state) ==
  rest' = IF state = "CreatingInstance" THEN [rest EXCEPT ![h] = "pending"] ELSE rest

\* The message moves the machine that was just started.
ReadAndMove(h) ==
  /\ pc[h] = "reading"
  /\ ~Closed
  /\ seen' = [seen EXCEPT ![h] = record]
  /\ Goto(h, "started")
  /\ \E d \in MessageEdges :
       /\ d.from = record.state /\ d.on = input[h]
       /\ Transition(h, d, record.version, RestoredCommands(record.state), TRUE)
       /\ Invoke(h, d.to)
  /\ UNCHANGED <<broker, conn, record, input, sent, crashes, faults>>

\* It does not: a strict machine throws for an event no state of it mentions
\* and ignores one that only other states mention.
ReadAndIgnore(h) ==
  /\ pc[h] = "reading"
  /\ ~Closed
  /\ ~Accepts(record.state, input[h])
  /\ seen' = [seen EXCEPT ![h] = record]
  /\ Goto(h, "started")
  /\ machine' = [machine EXCEPT ![h] = record.state]
  /\ counter' = [counter EXCEPT ![h] = record.version]
  /\ Invoke(h, record.state)
  /\ IF input[h] \in MachineEvents THEN UNCHANGED sent ELSE Reply(h, "notUnderstood")
  /\ UNCHANGED <<broker, conn, record, input, queue, writes, crashes, faults>>

\* createInstance settles; its done or error event is one more transition.
RestSettles(h) ==
  /\ pc[h] = "started" /\ rest[h] = "pending"
  /\ \E d \in RestEdges :
       /\ d.from = machine[h]
       /\ rest' = [rest EXCEPT ![h] = d.on]
       /\ Transition(h, d, counter[h], queue[h], FALSE)
  /\ UNCHANGED <<broker, conn, record, pc, input, seen, sent, crashes, faults>>

------------------------------------------------------------------------------
Answer(w, status, stored) ==
  writes' = (writes \ {w}) \cup {[w EXCEPT !.status = status, !.stored = stored]}

\* A bug that leaves the version out of the filter.
MatchesAny(w) == TRUE

\* The filter finds the document, or there is none and the upsert inserts one
\* from the filter; otherwise the upsert collides with the existing _id.
Matches(w) == record.version \in {0, w.base}

\* Updates in flight use several connections of a pool, so in any order.
DbUpdate(w) ==
  /\ w.status = "sent"
  /\ \/ /\ Matches(w)
        /\ record' = [version |-> w.base + 1, state |-> w.state]
        /\ Answer(w, "ok", TRUE)
     \/ /\ ~Matches(w)
        /\ Answer(w, "error", FALSE)
        /\ UNCHANGED record
  /\ UNCHANGED <<broker, conn, pc, input, seen, machine, counter, rest, queue, sent,
                 crashes, faults>>

\* The update ends in an error, performed or not.
DbUpdateFails(w) ==
  /\ w.status = "sent"
  /\ Fault
  /\ \/ /\ Matches(w)
        /\ record' = [version |-> w.base + 1, state |-> w.state]
        /\ Answer(w, "error", TRUE)
     \/ /\ Answer(w, "error", FALSE)
        /\ UNCHANGED record
  /\ UNCHANGED <<broker, conn, pc, input, seen, machine, counter, rest, queue, sent,
                 crashes>>

Publishable(type) == broker = "up" /\ type # "requestType"

\* commit() publishes the queue up to the first command that throws; that
\* command is gone too.  The listener catches it like a failed update.
Commit(w) ==
  LET h == w.by
      q == queue[h]
  IN \E n \in 0 .. Len(q) :
       /\ \A i \in 1 .. n : Publishable(q[i])
       /\ n < Len(q) => ~Publishable(q[n + 1])
       /\ queue' = [queue EXCEPT ![h] = SubSeq(q, n + 2, Len(q))]
       /\ sent' = sent
            \cup {[from |-> h, type |-> q[i], via |-> "commit"] : i \in 1 .. n}
            \cup (IF n < Len(q) /\ w.external /\ broker = "up"
                  THEN {[from |-> h, type |-> "error", via |-> "reply"]} ELSE {})

\* The awaited update is acknowledged.
UpdateDone(w) ==
  /\ w.status = "ok" /\ pc[w.by] = "started"
  /\ Commit(w)
  /\ Answer(w, "done", w.stored)
  /\ UNCHANGED <<broker, conn, record, pc, input, seen, machine, counter, rest, crashes,
                 faults>>

\* A bug that commits the queue although the update was refused.
UpdateFailedCommits(w) ==
  /\ w.status = "error" /\ pc[w.by] = "started"
  /\ Commit(w)
  /\ Answer(w, "failed", w.stored)
  /\ UNCHANGED <<broker, conn, record, pc, input, seen, machine, counter, rest, crashes,
                 faults>>

\* The awaited update failed: only an external transition is answered.
UpdateFailed(w) ==
  /\ w.status = "error" /\ pc[w.by] = "started"
  /\ IF w.external THEN Reply(w.by, "error") ELSE UNCHANGED sent
  /\ Answer(w, "failed", w.stored)
  /\ UNCHANGED <<broker, conn, record, pc, input, seen, machine, counter, rest, queue,
                 crashes, faults>>

------------------------------------------------------------------------------
\* The process dies with everything its handlers hold; the broker does not
\* deliver their messages again.  Updates on their way may still be performed.
Crash ==
  /\ crashes < MaxCrashes
  /\ crashes' = crashes + 1
  /\ conn' = "none"
  /\ pc' = [h \in Handlers |->
              IF pc[h] \in {"idle", "closed"} THEN pc[h] ELSE "crashed"]
  /\ UNCHANGED <<broker, record, input, seen, machine, counter, rest, queue, writes,
                 sent, faults>>

BrokerDown ==
  /\ broker = "up"
  /\ Fault
  /\ broker' = "down"
  /\ UNCHANGED <<conn, record, pc, input, seen, machine, counter, rest, queue, writes,
                 sent, crashes>>

BrokerUp ==
  /\ broker = "down"
  /\ broker' = "up"
  /\ UNCHANGED <<conn, record, pc, input, seen, machine, counter, rest, queue, writes,
                 sent, crashes, faults>>

Next ==
  \/ \E h \in Handlers :
       \/ ReceiveInvalid(h) \/ Receive(h) \/ Connected(h) \/ ConnectFails(h)
       \/ ReadFails(h) \/ ReadClosed(h) \/ ReadAndMove(h) \/ ReadAndIgnore(h)
       \/ RestSettles(h)
  \/ \E w \in writes :
       DbUpdate(w) \/ DbUpdateFails(w) \/ UpdateDone(w) \/ UpdateFailed(w)
  \/ Crash \/ BrokerDown \/ BrokerUp

Spec == Init /\ [][Next]_vars

(***************************************************************************)
(* Fairness: awaits settle.  The driver answers or loses the connection,   *)
(* axios calls createInstance to an end, the event loop runs every ready   *)
(* callback, and amqplib's reconnection loop never gives up.               *)
(***************************************************************************)
Fairness ==
  /\ \A h \in Handlers :
       /\ WF_vars(Connected(h))
       /\ WF_vars(ReadClosed(h) \/ ReadAndMove(h) \/ ReadAndIgnore(h))
       /\ WF_vars(RestSettles(h))
       /\ WF_vars(\E w \in writes :
                    w.by = h /\ (DbUpdate(w) \/ UpdateDone(w) \/ UpdateFailed(w)))
  /\ WF_vars(BrokerUp)

FairSpec == Spec /\ Fairness

------------------------------------------------------------------------------
(***************************************************************************)
(* Properties.                                                             *)
(***************************************************************************)

\* Of all handlers that read the same version, one stores its transition:
\* update's filter on { _id, version } admits one write per base version,
\* whatever the handlers' counters have run on to.
OneWinnerPerVersion ==
  \A a, b \in Stored : a.base = b.base => a = b

\* Nothing leaves the deferred dispatcher of a handler none of whose
\* transitions is in the database: a handler that lost the race is silent
\* towards the operator and the approver.
AnnouncedIsStored ==
  \A m \in sent : m.via = "commit" => \E w \in Stored : w.by = m.from

\* One conversation asks the approver at most once, however often the request
\* is delivered, however many handlers restore WaitingForApproval.
ApproverAskedOnce ==
  \A m, n \in sent : m.type = "requestApproval" /\ n.type = "requestApproval" => m = n

\* A handler that sends responseInstance has seen its own createInstance call
\* succeed.
SuccessIsReal ==
  \A m \in sent : m.type = "responseInstance" => rest[m.from] = "done"

\* With askForApproval no handler calls createInstance unless some message of
\* the approver, read when the conversation was waiting for it, approved.
CreationAuthorised ==
  AskForApproval =>
    \A h \in Handlers : rest[h] # "none" =>
      \E g \in Handlers : /\ input[g] = "APPROVED_FROM_APPROVER"
                          /\ seen[g].state = "WaitingForApproval"

\* createInstance is called again for a conversation only by handlers that read
\* the same version, before either wrote, and by handlers that found
\* CreatingInstance recorded and restored it.
CreationRepeatedByRaceOrRestore ==
  \A g, h \in Handlers : rest[g] # "none" /\ rest[h] # "none" =>
    \/ "CreatingInstance" \in {seen[g].state, seen[h].state}
    \/ seen[g].version = seen[h].version

\* The race that reopens a closed conversation has one shape: the record
\* leaves a final state only by the write a handler issues when its
\* createInstance call settles; no incoming message ever does it.
OnlyLateCreationReopens ==
  [][record.state \in FinalStates /\ record' # record =>
       \E w \in Stored' : /\ w.base + 1 = record'.version
                          /\ ~w.external
                          /\ w.state \in {CreatedEdge.to, "OperationFailed"}]_vars

\* While nothing fails, a conversation that entered CreatingInstance reports
\* an outcome to the operator: some handler commits one.
CreationReported ==
  record.state = "CreatingInstance" ~>
    \E m \in sent : /\ m.via = "commit"
                    /\ m.type \in {"responseInstance", "requestRefused", "notUnderstood",
                                   "error"}

\* The skill's handlers are writers of an optimistically versioned document who
\* announce only what they stored: the versions of the record are consumed in
\* order, one update each, whatever happens to the answers of the database.
Versioned == INSTANCE VersionedRecord WITH
  Writers <- Handlers,
  version <- record.version,
  stored <- {[writer |-> w.by, base |-> w.base] : w \in Stored},
  told <- {m.from : m \in {x \in sent : x.via = "commit"}}

ImplementsVersionedRecord == Versioned!Spec

------------------------------------------------------------------------------
(***************************************************************************)
(* The inductive invariant behind the safety properties: what module       *)
(* SkillProofs shows to be preserved by every step.                        *)
(***************************************************************************)

Before == {"idle", "connecting", "reading"}

Has(s, type) == \E i \in 1 .. Len(s) : s[i] = type

\* A handler that has not read the record yet has done nothing; one that did
\* not move has no writes.
Untouched ==
  /\ \A h \in Handlers : pc[h] \in Before =>
       seen[h] = NoRecord /\ rest[h] = "none" /\ queue[h] = <<>>
  /\ \A w \in writes : pc[w.by] \in {"started", "crashed"}
  /\ \A m \in sent : pc[m.from] \notin Before

\* The driver's answer says whether the update was performed, except that an
\* error may hide one that was.
AnswersTellTheTruth ==
  \A w \in writes : /\ w.status = "sent" => ~w.stored
                    /\ w.status \in {"ok", "done"} => w.stored

\* The record is the last stored write, and the one of the highest version.
RecordIsLastStored ==
  /\ record.version = 0 => record = NoRecord
  /\ record.version # 0 =>
       \E w \in Stored : w.base + 1 = record.version /\ w.state = record.state
  /\ \A w \in Stored : w.base < record.version
  /\ \A w \in writes : w.state # InitialState

\* What a handler read is the record still, or older.
SeenIsCurrentOrOlder ==
  \A h \in Handlers : /\ seen[h].version <= record.version
                      /\ seen[h].version = record.version => seen[h] = record

\* Where a write comes from: the message moved the machine from the state read,
\* or createInstance settled.
WritesHaveACause ==
  \A w \in writes :
    IF w.external
    THEN w.base = seen[w.by].version /\ seen[w.by].state \notin FinalStates
    ELSE w.state \in {CreatedEdge.to, "OperationFailed"}

\* A handler that asks the approver has one write, which creates the record.
AskingStartsTheConversation ==
  \A h \in Handlers :
    Has(queue[h], "requestApproval") \/ (\E m \in sent : m.from = h /\ m.type = "requestApproval")
      => rest[h] = "none" /\ \A w \in writes : w.by = h => w.base = 0

RepliesAreNegative ==
  \A m \in sent : m.via = "reply" => m.type \in {"notUnderstood", "error"}

QueuedSuccessIsReal ==
  \A h \in Handlers : Has(queue[h], "responseInstance") => rest[h] = "done"

\* CreatingInstance is written only by a handler that calls createInstance.
CreationHasACaller ==
  \A w \in writes : w.state = "CreatingInstance" => rest[w.by] # "none"

\* The first two states of a conversation belong to one version each.
FirstVersions ==
  /\ \A w \in writes : w.state = "WaitingForApproval" => w.base = 0 /\ AskForApproval
  /\ \A r \in {seen[h] : h \in Handlers} :
       /\ r.state = InitialState => r.version = 0
       /\ r.state = "WaitingForApproval" => r.version = 1 /\ AskForApproval

\* createInstance is called from CreatingInstance, read or entered.
CallersHaveReadIt ==
  \A h \in Handlers : rest[h] # "none" =>
    \/ seen[h].state = "CreatingInstance"
    \/ seen[h].state = RequestEdge.from /\ RequestEdge.to = "CreatingInstance"
    \/ seen[h].state = "WaitingForApproval"

SkillInvariant ==
  /\ Untouched
  /\ AnswersTellTheTruth
  /\ RecordIsLastStored
  /\ SeenIsCurrentOrOlder
  /\ WritesHaveACause
  /\ AskingStartsTheConversation
  /\ RepliesAreNegative
  /\ QueuedSuccessIsReal
  /\ CreationHasACaller
  /\ FirstVersions
  /\ CallersHaveReadIt

------------------------------------------------------------------------------
(***************************************************************************)
(* What the repository says and the code does not keep.                    *)
(***************************************************************************)

\* type: 'final' of the statechart, and Skill's answer to a closed
\* conversation: once final, the recorded state stays.
FinalStatesAreFinal ==
  [][record.state \in FinalStates => record'.state = record.state]_record

\* The unit test's title: no responseInstance is sent out if there was an error
\* in writing to the database after entering InstancePublished.
NoResponseAfterFailedWrite ==
  \A w \in writes : w.status = "failed" /\ w.state = "InstancePublished" =>
    \A m \in sent : m.from = w.by => m.type # "responseInstance"
=============================================================================
