# A verification project for i40-aas

TLA+ models of the parts of i40-aas whose correctness depends on the order in
which things happen, the TLC runs that check them on small instances, and the
proofs that carry the main results to instances of any size.

Contents: [the system](#the-system), [inventory](#inventory), [plan](#plan),
the models ([skill](#the-onboarding-skill), [resolver](#the-endpoint-resolver),
[HTTPS endpoints](#the-typescript-amqp-client-and-the-https-endpoints),
[gRPC endpoints](#the-grpc-endpoints), [registry](#the-endpoint-registry),
[submodels](#submodels), [pages](#the-registrys-user-interface)), [runs](#runs),
[what the runs found](#what-the-runs-found), [proofs](#proofs),
[what is not modelled](#what-is-not-modelled).

## The system

An *interaction message* enters through an ingress (HTTPS or gRPC), is put on
the topic exchange of a RabbitMQ broker, and reaches the *skill* subscribed to
its semantic protocol.  The skill loads the state of the conversation from
MongoDB, moves a statechart, calls REST services, stores the state, and sends
messages to other parties.  These go back to the broker; the *endpoint
resolver* asks the *endpoint registry* where the receiver lives and hands one
copy per endpoint to the egress for its protocol, which delivers it to the
ingress of another AAS.  REST calls of a skill go to the *data manager*, which
asks the *adapter registry* for a *storage adapter* and posts the submodel
there.  People edit the endpoint registry through a *user interface*.

    sender --HTTPS/gRPC--> ingress --> broker --> onboarding skill --REST--> data manager
                                         |  ^         |    |                  |       |
                                         |  |         |    v                  v       v
                                         |  +---------+  MongoDB       adapter    storage
                                         v                             registry   adapter --> MongoDB
                                  endpoint resolver --REST--> endpoint registry --> PostgreSQL
                                         |                          ^
                                  egress.grpc / egress.http         +--REST-- user interface
                                         |
                                       egress --HTTPS/gRPC--> receiver

The TypeScript services are single-threaded and interleave at every `await`;
the Go services run goroutines.  All of them reach the broker through one of
two client libraries (one per language) that reconnect on their own.

## Inventory

Paths are below `src/src`.

**Onboarding skill** (`ts/cmd/onboarding-skill`).
State: the document of a conversation in MongoDB (`_id`, `version`, serialized
statechart), per received message a private statechart, a version counter and a
queue of deferred messages.  Operations: receive and check a message, read the
record, restore and start the machine, transition, write the record under the
version expected, commit the queue, answer directly.  Calls: `createInstance`
(REST), publish.  Hard: every received message runs concurrently with all
others of its conversation; side effects start before the write that would
detect a race; several writes of one handler are in flight at once; messages are
consumed without acknowledgement.  Correct if: one transition per version is
stored; losers of a race are silent; the approver is asked once; success is
reported only when it happened; no instance is created without approval; a
conversation in which an instance is being created ends with an answer.

**Go AMQP client** (`go/pkg/amqpclient`).
State: connection, channel, whether it should reconnect.  Operations: `Connect`
and the goroutine that waits for the end of the connection, `Listen`,
`Publish`, `Close`.  Hard: the connection is replaced while others use it, its
end is noticed by each side in its own time, publishing gives no confirmation.

**Endpoint resolver** (`go/cmd/endpoint-resolver`).
State: the delivery being processed and the channel it came from.  Operations:
consume, resolve (REST), publish a copy per endpoint, ack or nack.  Hard: copies
and acknowledgement may travel on different connections; redelivery; the loop
over endpoints ends early.  Correct if: acknowledged means forwarded; nothing is
lost or repeated while no connection breaks; every message is settled.

**TypeScript AMQP client** (`ts/pkg/AMQP-Client`).
State: connection, closed flag, publication channel, subscription.  Operations:
`connect` with retry, `doSubscription`, `setupPublishing`, `publish`, the close
handler, the handler of SIGINT.  Hard: two callers may connect at once; each
connection has a close handler that reconnects; the publication channel outlives
its connection.  Correct if: there is one connection or one attempt to get one,
a stale publication channel is about to be replaced, and in the end the client
is usable again.

**HTTPS ingress and egress** (`ts/cmd/https-endpoint-ingress`, `-egress`).
No state of their own.  The ingress publishes and answers 200; the egress
consumes without acknowledgement and posts to the receiver.  Hard: what the
sender is told when the broker is away; a failed POST loses the message; every
start of the skill declares a queue of its own; the resolver between skill and
egress publishes a copy again when its connection broke before it acknowledged.
Correct if: nobody receives a message twice, except once more per break of the
resolver; what was accepted while all worked arrives unless something breaks; and
a sender that was told of a failure may post again.

**gRPC ingress and egress** (`go/cmd/grpc-endpoint-*`).
State: ingress, a queue of messages with their status; egress, a pool of
clients.  Hard: an RPC polls for a status that another goroutine sets (or never
sets); retries repeat a message that has arrived; some deliveries are never
answered; the client for a receiver keeps the certificate it was made with.
Correct if: a message reported as sent is published, repeated only as often as
something broke, and every delivery and every RPC is answered.

**Endpoint registry** (`ts/cmd/endpoint-registry`).
State: tables of assets, AAS descriptors, endpoints, semantic protocols and
roles in PostgreSQL.  Hard: a request is several statements without a
transaction, so requests interleave: check-then-save, roles deleted and saved
again, read-modify-write of a role's AAS ids, a salt that is replaced alone.
Correct if: a definition is written whole, failures leave no traces but the
known ones, rows refer to rows that exist, an update overwrites only what
changed while it ran.

**Data manager, adapter registry** (`ts/cmd/data-manager`,
`ts/cmd/adapter-registry`).
State: none; a local key-value store of files.  Operations: route each submodel
of a request to the adapter registered for it.  Hard: `Promise.all` gives up at
the first failure while the others go on; the handler of a GET catches nothing;
a file is emptied before it is written.

**Storage adapter** (`ts/cmd/storage-adapter-mongodb`).
State: one versioned document per submodel.  Operations: post (read version,
then conditional update), get, delete.  Hard: two posts read the same version.
Correct if: it implements the same promise as the skill's record, between two
deletions.

**Endpoint registry UI** (`ts/cmd/endpoint-registry-ui`).
State: the model of the page shown, the requests under way.  Hard: a page sends
the whole copy it loaded, so what others did meanwhile is undone; buttons stay
active until the answer comes.  Correct if: a role comes or goes only for a
reason the user gave, and a page nobody interfered with shows what is stored.

**Initializer, echo skill, logging, deployment**: see
[what is not modelled](#what-is-not-modelled).

The hazards of this code, each at its line and with the properties that watch
it, are listed in PROJECT.json.  Where the code lets a hazard happen and the
properties allow for it, bounding what follows, a note says so.

## Plan

1. `OnboardingMachine`, `Skill`: the core of the system; abstract
   specification `VersionedRecord`.  *Done; proved in `SkillProofs`.*
2. `AmqpGo`, `EndpointResolver`: the one place where messages are acknowledged.
   *Done; proved in `AmqpGoProofs` and `EndpointResolverProofs`.*
3. `EndpointRegistry`: requests as sequences of statements on shared tables.
   *Done; proved in `EndpointRegistryProofs`.*
4. `AmqpTs`, `HttpsEndpoints`: the TypeScript client in its three services, and
   the way of a message through them.  *Done; proved in
   `HttpsEndpointsProofs`.*
5. `Submodels`: data manager, adapter registry and storage adapter; abstract
   specification `DeletableRecord`.  *Done; proved in `SubmodelsProofs`.*
6. `GrpcHop`: gRPC egress, on `AmqpGo`, and ingress.  *Done; proved in
   `GrpcHopProofs`.*
7. `RegistryPages`: the user interface on semantic protocols.  *Done; proved in
   `RegistryPagesProofs`.*

Every safety property, action property and refinement that a run checks has a
theorem, and so have the invariants behind the liveness properties: a message, a
call or a request that is not settled has somebody who is able to take it further,
unless one of the excuses the property names has occurred.  Worth modelling next:
the UI's form and page of an AAS descriptor.

Conventions.  One module per component with its state as variables and one
action per handler or per stretch of code between two awaits; the modules hold
the properties too.  `MC*` modules give the constants and symmetries for TLC,
`*Proofs` modules the theorems.  Definitions that begin with "A bug that"
(`MatchesAny`, `SettleEarly`, ...) stand before the definition they would
replace and say what a plausible mistake in that code would be; no specification
uses them.

## The onboarding skill

`OnboardingMachine` is the statechart of
`MySkillStateMachineSpecification.ts` and `MySkillActionMap.ts`'s conditional edges as a
set of records (from, on, to, messages queued).  `AskForApproval` and `AskForType` are the two
configuration switches.

`Skill` runs it for the messages of one conversation.  Conversations share
nothing but the database connection, so one is enough.

| module | code |
| --- | --- |
| `ReceiveInvalid`, `Receive` | `MessageInterpreter.receive`, `Skill.applyEvent` up to the first await |
| `conn`, `Connected`, `ConnectFails` | `SimpleMongoDbClient.connect`: the flag is set before the await |
| `ReadClosed`, `ReadAndMove`, `ReadAndIgnore`, `ReadFails` | `applyEvent` after the read: restore, start, send the event |
| `Transition` | the `onTransition` listener up to its await: `versionCounter++`, the update is sent |
| `Invoke`, `RestSettles` | the invoked service `createInstance` and its done or error transition |
| `DbUpdate`, `DbUpdateFails` | `SimpleMongoDbClient.update`: filter on id and version, upsert |
| `UpdateDone`, `UpdateFailed`, `Commit` | the listener after its await; `MessageDispatcherDeferredWrapper.commit` |
| `Crash`, `BrokerDown`, `BrokerUp` | the process ends; the AMQP connection closes and comes back |

Decisions about xstate, read off the version the service depends on:

- Restoring a state from JSON does not repeat its named actions, since only
  their names are left, but starts the activities of the state: a handler that
  reads `CreatingInstance` calls `createInstance` again.
- Restoring a final state stops the service at once, and the handler answers
  `notUnderstood`.
- A strict machine throws for an event that no state mentions (the handler
  answers `notUnderstood`); an event known to other states only leaves the state
  unchanged and is ignored in silence, although the documentation of the skill
  promises `notUnderstood` for it.
- Actions and the REST call run before the write of the transition is sent.
- An upsert whose filter names version k on a collection without the document
  inserts one of version k + 1, whatever k is.

Data left out: the contents of frames (a message is a type, its sender and the
way it was sent), the error texts, environment parsing.  `RestFailures` keeps
one status per branch of `sendCreationErrorToOperator`.

`VersionedRecord` is the promise: updates of the document are ordered by the
versions they name, each version is consumed once, and a writer announces
something only after an update of its own was stored.  `Skill` implements it
with the mapping at `Versioned`.

## The endpoint resolver

`AmqpGo` is the client: `dialer` is the place of `Connect` and of its goroutine,
`conn`, `up` and `channel` what other goroutines read.  Each dialled connection
has a session at the broker and a FIFO sequence of frames on the way to it.
Client and broker notice the end of a connection in either order.  What was
written to a lost connection may or may not have been processed, and `Publish`
does not learn which.

`EndpointResolver` adds the consuming goroutine (`pc`, `source`, `inbox`,
`current`, `todo`), the broker's queue with redelivery, and the egress
applications as far as the exchange needs them (whether a queue is bound).

| module | code |
| --- | --- |
| `Dial`, `OpenChannel`, `Watch`, `Reconnect` | `AMQPClient.Connect` |
| `Usable`, `Send` | `AMQPClient.Publish` |
| `Listen`, `Take`, `DeliveriesClosed` | `AMQPClient.Listen`, the loop of `EndpointResolver.Init` |
| `Resolve`, `ResolveFails` | the request to the registry and every way to reject a message before a copy is published |
| `Skip`, `Forward`, `Unsupported` | the loop over descriptors and endpoints in `processGenericEgressMsg` |
| `Settle`, `Answer` | `processDelivery`: `d.Ack`, `d.Nack(false, false)` |
| `Deliver`, `Arrive`, `SessionEnds`, `BrokerRestarts` | RabbitMQ, as the client's options use it (manual acknowledgement, transient messages, durable queues, not mandatory) |
| `Restart` | the process stops and is started again |

An answer of the registry is the list of endpoints in the order in which the
loops visit them, with "incomplete" for a descriptor that is passed over.  The
connection number identifies the channel of a delivery.  `plan` records the
endpoints of a message's last resolution and exists for the properties only.

## The TypeScript AMQP client and the HTTPS endpoints

`AmqpTs` has one record per process: the fields of its `AmqpClient`
(`closed` is `connectionClosed`, `pub` the connection `pubChannel` belongs to),
the open connections, and the callbacks handed to amqplib that have not run
(`dialing`, `opening`, `declaring`).  The methods are functions of this record;
a callback is a step.  Two things end a process: the end of a connection that is
reported as `error`, to which nobody listens, and the end of a connection a
callback waits for, because the callback throws.  A process that ended is
started again by its container.

`HttpsEndpoints` puts the client into three services and adds the frames.

| module | code |
| --- | --- |
| `Boot`, `SetupPublishing`, `StartListening`, `ConnectAndDoSubscription` | `server.ts` of each service, the methods of `AmqpClient` |
| `Connect`, `ChannelOpened`, `QueueDeclared`, `Closed`, `Cleanup` | the callbacks in `connect`, `setupPublishing` and `doSubscription`, the handlers of `close` and SIGINT |
| `PostRefused`, `PostUnsent`, `PostThrows`, `PostPublished` | the four outcomes of POST /interaction |
| `Receive`, `Reply` | the consumer's callback; the skill's reply (its logic is module `Skill`) |
| `ResolverListens`, `Take`, `Resolve`, `Acknowledge`, `Unresolved` | the endpoint resolver, as `Listen`, `processDelivery` and `processGenericEgressMsg` order its steps |
| `ResolverBreaks` | the broker takes back what the resolver has not settled |
| `Forward`, `ForwardFails` | `BrokerMessageInterpreter.receive` of the egress, `WebClient.postRequest` |
| `Route`, `Deliver`, `Disconnect`, `Crash`, `BrokerRestarts` | RabbitMQ and amqplib, as the clients' options use them (no acknowledgements but the resolver's, durable queues, transient messages) |

A connection's number is reused once it has ended and `pub` has forgotten it.
The queue of the skill is numbered by its starts, for `server.ts` draws a random
name each time: queues of earlier starts stay bound and nobody reads them.
`safe` is a history: messages accepted while all clients were usable and the
resolver listened, and nothing has broken since.

The resolver stands between the skill and the egress, with as much of it as the
way of a message needs: it listens or not, has replies in hand, and has replies it
has not settled.  When it breaks, or its connection does, the unsettled ones wait
in its queue again as further parcels, whether a copy of them was published or
not, and one in hand may still be published on the next connection.  A parcel is
a message and how often the resolver was given it again, so a reply that is
received twice is two parcels.  That several endpoints get a copy each, and what
the two sides of a connection know of its end, is in `EndpointResolver`.

## The gRPC endpoints

`GrpcHop` goes from the queue of one installation's egress to the ingress of the
next.  The egress stands on `AmqpGo` and takes one delivery at a time; a call
fails or is repeated after a pause (`maxAttempts` repetitions, up to eleven calls
in all), and what the ingress had taken from it stays in the ingress' queue.  An
RPC hands its message to the one goroutine that publishes and polls until there
is a status.

What a message can be, `kind`, decides its fate: *silent* ones are never
answered by the egress (unparsable, no client, target other than cloud); a
*roleless* one makes the ingress' goroutine dereference a missing role, which
ends the process; an *empty* one cannot be converted, is skipped without a
status, and its RPC waits for ever.  The client of the receiver is kept in a
pool by URL, with the certificate it was made with.  There is no deadline and no
keepalive: `rpc = "hung"` is a receiver that vanished without closing.

## The endpoint registry

`EndpointRegistry` has the tables with their keys, unique and foreign
constraints, and per request the statement it awaits (`pc`), what it has read,
and its answer.  TypeORM's `save()` is two steps, reading the rows the entity is
about and writing the difference in a transaction, as the calls of
`Registry.ts` use it.  A generated role id is named after the request that
inserted the role; the value of a credential after the request whose salt it is
encrypted with.  `Seeds` are the tables the initializer can have left.

| module | code |
| --- | --- |
| the pc `asset`, `find`, `save`, `write` of AAS requests | `createAASDescriptor`, `upsertAASDescriptor`, `updateAasDescriptorByAasId` |
| `deleteRoles`, `save`, `write` of protocols | `createSemanticProtocol`, `upsertSemanticProtocol`, `updateSemanticProtocolById` |
| `findRole`, `findAas`, `save`, `write` of roles | `updateAASDescriptorsToRole`, `deleteAASIdFromRole` |
| `delete`, `read`, `list` | the `delete...`, `read...` and `listAll...` methods |
| `connect`, `connection` | the connection the first request opens, `RegistryFactory.ts` |

## Submodels

In `Submodels` a task is one submodel of one request; the tasks of a request run
at once (`Promise.all`), and those of a POST go on after it was answered.  A
task looks its adapter up by id, then by semantic id, in files that
`node-persist` reads in an order of its own and that are empty for a moment
while they are written; an entry without the id that is asked for matches one
without it (`undefined === undefined`), so a submodel can be led to the adapter
of another.  The handler of a GET catches nothing, but the router of Express 5
(`data-manager/yarn.lock`) hands the rejection of its promise to the error
handlers, so that it is answered with an error like that of a POST and the
process goes on.

`DeletableRecord` is `VersionedRecord` with a deletion that starts over.  Every
document of every adapter implements it.

## The registry's user interface

`RegistryPages` is the list, the form and the page of a semantic protocol in
several browsers.  A page keeps the copy it loaded; adding or deleting a role
sends the whole of it, adding a descriptor the list of the role.  A request to
the registry is one step here, because what happens inside one is module
`EndpointRegistry`.  What a user typed or selected is compared with the roles when
it is typed or selected, not when the button is pressed.  `unchecked` holds the
names that can be in the input field without having been compared, because they
were typed while the page loaded; `carried` the AASs that can be selected so at a
position of the roles, because they were selected while the page loaded, or when
another role was shown there that has been deleted.  The role shown in detail is
any role.  In a role's list of members, `again` says that one of them is named
again.  `intent` and `disturbed` are histories.

What the pages do to each other, and the properties allow for by name:

- Adding a role twice before the answer comes sends it twice.  The registry
  deletes the protocol's roles and then refuses the new ones; a protocol without
  roles reads as `{}`, and the pages can neither open nor delete it.  A copy
  with an AAS that was deleted meanwhile does the same.
- An AAS that is carried is pushed to the members a second time.  The registry
  refuses the list, the copy keeps it, and the next role added or deleted sends
  it along: the roles are deleted and the new ones refused.
- A copy of a protocol that was deleted brings it back; a copy of one that was
  edited undoes the edit.
- The index of a role is one character of its binding path.  With `Radix` 10 the
  eleventh role would have to exist; the run has `Radix` 2, where the third one
  has two digits.

## Runs

| run | instance | what it shows |
| --- | --- | --- |
| `skill` | 3 handlers, 1 crash, 1 fault, approval and type asked | all safety properties of the skill and its refinement of `VersionedRecord` |
| `skill_live` | 3 handlers, no crash, no fault | `CreationReported` |
| `skill_final`, `skill_late_write` | 3 handlers | two disagreements, below |
| `resolver` | 1 message, 4 endpoints, 2 losses, 1 restart, with fairness | all properties of the resolver |
| `resolver_served` | 1 message | a disagreement, below |
| `registry` | 3 requests out of 20, 2 AASs, 1 protocol, empty and filled tables | all properties of the registry |
| `registry_credentials` | 2 requests | a disagreement, below |
| `https` | 3 services, 1 message, 2 faults, with fairness | all properties of the TypeScript client and the HTTPS endpoints |
| `submodels` | 3 of 4 requests on 2 submodels and 2 adapters, 1 fault, with fairness | all properties of submodels, and the refinement of `DeletableRecord` |
| `grpc_hop` | 2 messages and 1 call, 1 loss, 1 restart and 1 trouble at most, with fairness | all properties of the gRPC endpoints |
| `registry_pages` | 2 browsers, 3 role names, 2 presses, 1 loss | all properties of the pages |

*Properties of `skill`.*  `OneWinnerPerVersion`: of the handlers that read one
version, one stores its transition.  `AnnouncedIsStored`: who lost is silent.
`ApproverAskedOnce`, `SuccessIsReal`, `CreationAuthorised`: what the other
parties rely on, under duplication and restart.
`CreationRepeatedByRaceOrRestore`: the two ways in which `createInstance` is
called twice, and no third.  `OnlyLateCreationReopens`: a closed conversation is
reopened only by the write after a `createInstance` call.

*Properties of `resolver`.*  `OnePlace`: a message waits, is with one
connection, or is settled.  `AckedIsForwarded`: acknowledged means that the
broker has had a copy for every endpoint, though nobody confirms a publication
and copies may travel on another connection.  `CopiesAreBounded`: one copy, and
one more per lost connection or restart.  `LateCopiesNeedTwoLosses`: a copy that
arrives after its message was settled takes two losses.
`EveryMessageSettled` has one way out, `Abandoned`: `Connect` asks for
`NotifyClose` in a goroutine started after the connection is in use.  If the
connection has closed by then, the driver closes the listener, the goroutine
takes it for a regular close and ends, and the client never reconnects, while
`Publish` and `Listen` retry on the dead connection.

*Properties of `https`.*  `OneConnection`: reconnections neither pile up nor die
out.  `StaleChannelIsReplaced`: when `publish` finds a channel of a past
connection, which no flag tells, another one is on its way.  `AtMostOnce`: a
reply is received once, and once more only where the resolver broke between
getting it and acknowledging it; to post again what was answered with an error is
safe.  `AcceptedArrives` and `ClientsRecover`: what the missing
acknowledgements cost is bounded to messages under way when something breaks.

*Properties of `grpc_hop`.*  `HopKeeps`: sent means published, at most once more
per break, and a message is rejected for its certificate only through a client
made with another one.  `EverybodyAnswered`: every delivery the egress can read
is answered, and every call, unless the client abandons the broker or a call
hangs.

*Properties of `registry`.*  `WholeWrites`, `TracesOfFailure`, `ReferencesHold`:
what is left of transactions when every statement stands alone.
`ReplacedRolesStayAway`: an update that loaded a role does not bring it back
after it was replaced.  `UpdatesRespectWhatStayed`: two updates of a role
overwrite each other only where something changed while they ran.
`StaleSaltNeedsPartialWrite`: credentials become unreadable in one way only.

*Properties of `submodels`.*  `AnswerMeansStored`: 200 means that every submodel
is stored and stays so until deleted, whatever late tasks of other requests do.
`ReadsBack`: POST and GET are led to the same adapter.
`ImplementsDeletableRecord`, `EveryRequestAnswered`.

*Properties of `registry_pages`.*  `RolesChangeOnPurpose`: a role goes because it
was pressed, because the page did not know it, or because the replacement could
not be saved, for which there are three causes: a name put in twice, a member put
in twice, both on the page that sent it, or a member that is no longer
registered.  A role comes because it was added or known.  `PageInStep`: a page shows what is
stored unless somebody or something interfered.

*Bounds.*  Three handlers are a conversation's request, its approval and one
duplicate or contrary answer: the smallest number with a race after the first
version, and the one at which every disagreement shows.  One fault may be a
failed connect, read or update, an update whose answer is lost, or a broker
outage; with a crash besides, an update may be performed after its handler died.
The inputs of `skill` have one member of each class that the code tells apart.
Handlers are interchangeable; symmetry is used for safety only.

For the resolver, two losses and one restart give four connections, enough for a
message to be delivered on each of them and for a copy to arrive late; the second
loss can hit the new connection before the client watches it.  Messages do not
interact but in the driver's buffer, which the proofs cover for any number of
them.  The answers of the registry have a skipped descriptor, both protocols, and
an unsupported type in the middle.

Two faults in `https` let a fault hit the recovery from another, and the start
counts as a recovery; three connection numbers are one in use, one `pubChannel`
still names and one free.  In `registry`, three requests are two that race and one that reads or removes
what they race for; the twenty inputs have every route, and every shape of
definition (a role kept, added, emptied, with an AAS that may be gone).  In
`submodels` two submodels make a fan-out of which one part fails (one of them is
registered nowhere at first), two adapters a wrong one.  `MaxAttempts` is 1 in
`grpc_hop`, where the program has ten: a repetition is a repetition.  In
`registry_pages` two presses are a request and another one, of the same browser
or another, on a copy from before it; simulations with four presses and two losses
showed nothing else.  With its one AAS the form cannot have a role with a repeated
member, which takes three; no replacement follows from that, and the proofs cover
it.

Every system may stop (all messages handled, no faults left), so deadlock is not
an error in these runs.

*Fairness.*  `Skill`: awaits settle.  The database driver answers or gives up,
axios ends every call, the event loop runs ready callbacks, the AMQP client
retries for ever.  Nothing makes messages arrive.  `EndpointResolver` and
`GrpcHop`: goroutines run, dialling succeeds in the end, the registry answers or
fails, the broker delivers, processes frames, and ends the sessions of clients
that are gone (heartbeats); a client whose session has ended finds out.
Connections are not fair to break.  `Publish` retries for ever, which is why its
step is fair only while the connection can be used.  A handler's own updates are
fair together: the database does not starve one handler.  In `HttpsEndpoints` the
resolver need not come back after a break (its client may miss it).
`HttpsEndpoints` and `Submodels`: some step of progress happens whenever one can;
that is enough, and weaker than fairness for each callback, because between two
calls or faults there are only finitely many steps to make.

## What the runs found

- `skill_final` (`FinalStatesAreFinal`).  `versionCounter` runs on after a
  refused write, so a handler that lost with the write of `CreatingInstance` may
  win with the next one: a refusal closes the conversation and the approval that
  was processed at the same time reopens it.
- `skill_late_write` (`NoResponseAfterFailedWrite`).  A handler has one queue;
  the acknowledged write of one transition publishes what a later transition
  queued whose write fails.  A unit test says that this does not happen.
- `resolver_served` (`EachEndpointIsServed`).  An endpoint of an unsupported type
  ends the loop: those listed after it get no copy, and the message is rejected
  for good.
- `registry_credentials` (`CredentialsReadBack`).  A request with a password and
  no user stores a new salt; the user stays encrypted with the old one and is
  read back with it in front.

## Proofs

`SkillProofs` assumes `SkillAssumption` and `ConfigurationAssumption`: the
inputs are messages, the switches are Booleans, the bounds are naturals.
Handlers are any set.  The inductive invariant is `TypeOK`, `SkillInvariant` and
the properties `OneWinnerPerVersion`, `AnnouncedIsStored`, `SuccessIsReal` and
`CreationAuthorised`; one lemma per kind of step shows that it is kept. Why the
parts are needed:

- `OneWinnerPerVersion` is not inductive: that the next update consumes a fresh
  version needs `RecordIsLastStored` (all stored bases are below the record's
  version).
- `ApproverAskedOnce` follows from it: who asks has one write, which names
  version 0 (`AskingStartsTheConversation`), and a message is committed only by
  a handler with a stored write.
- `SuccessIsReal` needs the queue as well as what was sent
  (`QueuedSuccessIsReal`); replies are never successes (`RepliesAreNegative`).
- `CreationAuthorised` and `CreationRepeatedByRaceOrRestore` need to know where
  a handler that calls `createInstance` was when it read the record
  (`CallersHaveReadIt`) and that only a caller writes `CreatingInstance`
  (`CreationHasACaller`).
- `OnlyLateCreationReopens` needs that an external write names the version its
  handler read, that this state was not final (`WritesHaveACause`), and that a
  handler that read the current version read the current state
  (`SeenIsCurrentOrOlder`).

`CreationReported` rests on `CreationIsOwed` besides fairness: while nothing
failed, a conversation that entered `CreatingInstance` has told the operator an
outcome, or a handler lives that has one or is getting one, and an update of that
handler is performed or can still be (`Owes`).  The update that entered the state
may be acknowledged before the call ends, and then the second update must not
lose; or after, and then its commit carries the outcome.  `CreationIsSecond` says
that the second update names the version after the first, and
`RefusalsHaveACause` that once the first is acknowledged the second is refused
only if the record has moved on.  By `OnlyCreationMovesOn` the record leaves
`CreatingInstance` only with such a second update, perhaps of another handler
that restored the state: then that one has the outcome to report.

Theorems: `TypeCorrect`, `SkillInvariantHolds`, `OneWriterWins`,
`LosersAreSilent`, `SuccessIsTrue`, `ApproverIsAskedOnce`,
`CreationIsAuthorised`, `RepetitionHasACause`, `OnlyCreationReopens`,
`CreationIsOwedHolds`, and `Refinement`: initial states map to initial states of `VersionedRecord`, and
every step to a step of it or a stutter.

`EndpointResolverProofs` assumes `AmqpAssumption` and `ResolverAssumption`.
Messages and endpoints are any sets, answers any sequences.  The invariant is
`TypeOK`, `OnePlace`, `ResolverInvariant` and `AckedIsForwarded`.  The argument:

- When a verdict is written, the goroutine holds a message that its live
  connection has not settled (`HeldIsUnacked`), all copies are done or ahead on
  that connection (`ForwardingIsComplete`), since while the delivery's
  connection lives `Publish` uses no other.
- So an acknowledgement on its way has its copies ahead of it
  (`AcksFollowCopies`), and frames of a connection are processed in order.
- A later resolution must not change what was promised: no verdict is on its way
  for a message that is held (`VerdictsAreFinal`), and none was processed
  (`SettledIsReleased`).  Both rest on `OnePlace`: what is delivered was
  waiting, so nobody has it and nobody decided on it.

Most steps only need `PrivateStep`; steps that write use `SendKeeps`, and
`ArrivePreserves` shows the one interesting step.

How often and how late copies arrive is counted (`CopiesHaveCauses`,
`LateCopies`).  `AmqpGoProofs` shows of the client, in any service, that the
connections dialled are the first `Top` ones and that `Top` is at most one more
than losses and restarts (`Numbered`, `Spare`).  Then what has arrived of a
copy, what is on its way and what the loop still has to write (`Tries`), and one
each for a delivery that is not resolved yet and for a last connection that may
still deliver the message (`Hopes`), are together at most `Top`: only dialling
adds one, and it raises `Top`.  A copy that arrives late was written to a later
connection than the message came from, and the verdict ahead of it to one after
that (`LateCopies`): three connections, so two were lost.
`CopiesAreBoundedHolds` has the hypothesis `AnswersListOnce`, no endpoint is
listed twice in an answer; "incomplete" may repeat.  An endpoint is one of a
descriptor's, and the registry keeps those, and the descriptors of a role, as
rows of join tables, each at most once; a registry that listed one twice would be
sent two copies on purpose.  `LateCopiesHold` and the others have no such
hypothesis.

`UnsettledIsAttended` is what `EveryMessageSettled` rests on besides fairness.  A
message that is not settled and does not wait in the queue is with a connection
the client has left, which the broker will end, or with the one it has; and there
the goroutine has it, or its verdict is on the way (`NoDeliveryForgotten`).  This
needs `Attentive`: the goroutine ranges over the deliveries of the connection the
client has exactly if that has a consumer, whichever side noticed the loss of the
earlier one first.

Theorems: `TypeCorrect`, `ResolverInvariantHolds`, `MessagesAreInOnePlace`,
`AcknowledgedIsForwarded`, `CopiesAreBoundedHolds`, `LateCopiesHold`,
`AttentiveHolds`, `UnsettledIsAttendedHolds`.

`HttpsEndpointsProofs` assumes `AmqpTsAssumption` and `HttpsAssumption`: three
services in their roles, any set of messages, any number of connections and
faults.  Two invariants, one about clients and one about messages:

- `ClientsInv`: a process that is up is `Seeking` (no connection, one dial,
  nothing pending), `Connected` (one connection, no dial, callbacks for this
  connection only), or `Silent` (shut down, with nothing pending).  There is a lemma per method and
  callback (`ConnectIsSafe`, `ChannelOpenedIsSafe`, `ClosedIsSafe`, ...).  What
  makes the close handler safe is that a connection with a callback pending does
  not end quietly: the process ends with it.  `SubscribedFirst` is what
  `OneConnection` does not say and `StaleChannelIsReplaced` needs: who dialled
  in order to listen has subscribed, so the new connection gets a channel at
  once.
- `FlowInv`: the places where a parcel is (`Places`) are at most one, and none
  after its POST (`InOnePlace`).  While a parcel is on its way to the resolver, or
  not settled by it, there is no later one of the same message; there are no more
  than the breaks, and none without a positive answer (`InOrder`).  So what the
  resolver is given again is always a parcel that has not been anywhere, and each
  break adds one.  A queue of the skill has a number that is at most the number of
  starts (`NumberedQueues`), so a skill that starts again reads a queue in which
  nothing waits: this is why old copies, of which there may be many, are never
  sent.

What `AcceptedArrives` rests on besides fairness is `AcceptedIsKept`: until
something breaks, what the ingress accepted while the services were usable has
been posted, or it is on a channel, in the queue of a listener or of the resolver,
or in its hands, and every service is still usable and the resolver listens.  It
needs that a service which does not listen never subscribes, whatever reconnects
(`PublishersInv`), and that who consumes has bound its queue (`ConsumersInv`,
`ResolverInv`).

What `ClientsRecover` rests on is `NoClientIsStuck`: a process that is up and was
not told to end is usable, or dials, or has a callback ahead on a connection that
is open.  For a publisher this follows from `ClientsInv`; a listener could also be
connected, with nothing pending, and not consume.  `ListenersInv` excludes it:
who is to listen has subscribed or still has the callback of its publishing
ahead, and who has subscribed and is connected consumes on that connection or
has asked for it.

Theorems: `TypesHold` (which bounds the starts of the skill by the faults before
them, `StartsInv`), `OneConnectionHolds`, `StaleChannelIsReplacedHolds`,
`AtMostOnceHolds`, `AcceptedIsKeptHolds`, `NoClientIsStuckHolds`.

`EndpointRegistryProofs` assumes `RegistryAssumption` and `SeedsAssumption`: the
inputs are inputs, no row is none of the values, and what the initializer has
left obeys the constraints of the tables.  Requests, AASs, protocols and roles
are any sets.  An action changes its own request and the tables in one of five
ways. The invariant is about what a request may rely on while others write:

- `Control`: a statement belongs to an operation that has it, and only requests
  that write in two steps are ever halfway (for `TracesOfFailure`).
- `Origins`: a role, in its table or remembered by a request, was inserted by a
  request that is over, and belongs to the protocol of that request or to none.
  Since an id is never inserted again, a save can neither revive nor move a role
  (`ReplacedRolesStayAway`).
- `SnapshotsWhole`: of the roles one request inserted that are still with the
  protocol, a save has seen all or none.  This is what makes `WholeWrites`,
  which speaks of the tables only, inductive: a save removes what it has seen.
- `Steadiness`: what stayed in a role since a request arrived is in what that
  request read (for `UpdatesRespectWhatStayed`).

Theorems: `InvHolds`, `TypesHold`, `WholeWritesHold`, `TracesOfFailureHold`,
`ReferencesAlwaysHold`, `StaleSaltNeedsPartialWriteHolds`,
`ReplacedRolesStayAwayHolds`, `UpdatesRespectWhatStayedHolds`.

`SubmodelsProofs` assumes `SubmodelsAssumption`: files are a sequence, entries
are valid, a GET has one submodel, a DELETE goes to an adapter.  `Tasked`
follows every task: it keeps the adapter it was led to, and the version it
replaced is below the document's until a deletion, which gives
`AnswerMeansStored`.  `ReadsBack` compares two lookups made at different times
by different tasks; `Calm` says instead what an undisturbed task knows of the
registry as it is now: it has, or will find, the adapter that is responsible for
its submodel (`Responsible`: the last file that names its id, or else its
semantic id).  `DocumentsAreRecords` maps every document of every adapter to
`DeletableRecord`.  `NobodyWaitsInVain` is what `EveryRequestAnswered` rests on:
an open request has all its tasks at work or at an end (`Attended`), an adapter
marked as connected too early has one task that connects (`Connecting`), and a
connection is reset only after trouble, never by a request that failed
(`ResetsHaveCauses`).
Theorems: `InvHolds`, `TypesHold`, `AnswerMeansStoredHolds`, `ReadsBackHolds`,
`DocumentsAreRecords`, `NobodyWaitsInVainHolds`.

`GrpcHopProofs` assumes `AmqpAssumption` and `HopAssumption`: the calls of
others are finitely many, for they are counted.  Parts of the invariant, besides
those it shares with the resolver (`OnePlace`, `HeldIsUnacked`,
`VerdictsAreFinal`):

- `LastCall`: at most one call has somebody waiting, it is about the egress'
  message, and no message of the egress is behind it in the ingress' queue.  So
  a status that arrives is about this message, and what is reported as sent has
  been published (`SentIsPublished`).  `OthersWait` says the like of others'
  calls.
- `CopiesHaveCauses`: how often a message was published or is with the ingress
  (`Tries`) and how often the egress may still hand it over (`Hopes`) are
  together at most the connections dialled, the faults, and the calls of others
  that made the ingress panic or were lost when it did.
- `GivesUpForReason`: while nothing broke, the egress gives up only on an
  ingress that serves another certificate than the pooled client has.

What `EverybodyAnswered` rests on is `UnsettledIsAttended`, as in the resolver,
but that a message of the silent kind stays in the hands of nobody, and
`WaitingIsAttended`: a call of others waits only while the ingress has it, or if
it is of the kind it never answers.  The two name the same excuses as the
property.

Theorems: `InvHolds`, `TypesHold`, `OnePlaceHolds`, `HopKeepsHolds`,
`UnsettledIsAttendedHolds`, `WaitingIsAttendedHolds`.

`RegistryPagesProofs` assumes `PagesAssumption`: role names are finitely many,
what the registry holds at first is a protocol or none, the value for none is no
other value, and the radix is at least two.  Browsers, AASs, presses and losses
are arbitrary.  Parts of the invariant:

- `Models`, `Letters`: models are sequences of roles, and a request carries the
  roles and the intent of its page.
- `Knows`: of the names a copy lacks, each was absent when it was loaded or was
  pressed; of those it has, each was there or was added; and if nothing was put
  in twice, its roles have different names and no member is listed twice
  (`Distinct`).  Requests inherit it.  A PUT makes the stored names those of its
  roles or none, and none only if the roles are not `Distinct` or a member is
  unknown, so `RolesChangeOnPurpose` follows.
- `InStep`: an undisturbed page has at most one request under way, or its
  answer, and its copy had arrived before it sent one; a deletion of a role carries
  the very copy the page shows, and all else makes the page load again
  (`AsItShould`).  With nothing under way this is `PageInStep`.

Behind it are lemmas on sequences of roles (`RoleAdded`, `RoleRemoved`,
`MemberPutIn`, `RoleChanged`, `DistinctNames`, `RolesListed`: a protocol read in any order of its roles is
the protocol) and on the recursive function `FirstDigit`, whose existence and
bound (`FirstDigitDef`, `FirstDigitBelow`) make the role removed one of the
roles. Theorems: `InvHolds`, `TypesHold`, `PageInStepHolds`,
`RolesChangeOnPurposeHolds`.

The library's induction principles take an operator as a parameter and cannot be
instantiated.  Where induction over numbers is needed (`LastPosition` in
`SubmodelsProofs`, `DigitsAgree`, `DigitsUpTo`, `FirstDigitBelow`), the least
counterexample is refuted instead, by `LeastNumber`, from the well-foundedness
of the naturals.  The strengthened invariants were checked by TLC on the
instances of the runs before they were proved.

Model-checked only: `CreationReported`, `EveryMessageSettled`,
`AcceptedArrives`, `ClientsRecover`, `EveryRequestAnswered` and
`EverybodyAnswered` (liveness under fairness is beyond the prover), and the four
disagreements, which are counterexamples.  Of the liveness properties, what holds
at every moment is proved: `CreationIsOwed`, `UnsettledIsAttended`,
`AcceptedIsKept`, `NoClientIsStuck`, `NobodyWaitsInVain` and `WaitingIsAttended`
say that somebody is at work on what is still open; that those who are at work
get on is left to TLC.

## What is not modelled

- *Libraries in the user interface*: `webapp/lib/aasForBrowser.js` is a generated
  bundle of third-party code and two thirds of all lines of the repository's
  implementation.
- *The UI's form and page of an AAS descriptor*: the page shows what it loads, the
  form sends one PUT.  Reading the form (`CreateDescriptor.controller.js`) showed
  what a model of it should look at: the index of an endpoint is one character of
  its path there too (line 105); an id is compared, when typed, with a list that
  is loaded when the form is first shown or was last sent or cancelled, and the
  PUT replaces whatever has that id; the mark of an empty address is taken away
  by the comparison with the other addresses that follows it.
- *Start-up, configuration and validation code*: environment parsing,
  health routes, TLS and basic authentication, swagger documents.  A request that
  is refused is one input or one outcome (`Invalid`, `PostRefused`, ...).
- *Go interaction messages*: conversions without state; which of them fail is
  `kind` in `GrpcHop` and an outcome of `ResolveFails`.  `interaction.pb.go` is
  generated.
- *Initializer*: a script that posts sample data once; the registry's `Seeds` are
  what it can have left.  *Echo skill*: a demonstration flow of a third-party
  runtime whose custom nodes build one JSON message.  *Logging*: formatting.
  *Compose, helm*: configuration, used to learn that a process which exits is
  started again.
- *Faults of PostgreSQL* once connected, and *MQTT bindings* of the TypeScript
  client, which no service uses.
