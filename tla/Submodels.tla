------------------------------ MODULE Submodels ------------------------------
(***************************************************************************)
(* Submodels on their way to storage: the data manager asks the adapter    *)
(* registry which storage adapter is responsible for each submodel of a    *)
(* request, and posts it there; the adapter keeps one versioned document   *)
(* per submodel in MongoDB.  A task is one submodel of one request; tasks  *)
(* interleave at every await, also those of one request, and those of a    *)
(* POST go on after it has been answered.                                  *)
(*                                                                         *)
(* The handler of a GET catches nothing; the promise it returns hands its  *)
(* rejection to the error handlers all the same (Express 5).               *)
(***************************************************************************)
EXTENDS FiniteSetsExt, Integers, Sequences

CONSTANTS
  Adapters,    \* storage adapters, by their url
  Ids, Semantics,
  None,        \* undefined; no entry
  Files,       \* adapter ids, in the order node-persist reads their files
  Stored,      \* what is registered in the beginning
  Offers,      \* what may be registered later
  Requests,    \* those the middleware lets pass
  Asked,       \* per request: its kind, its submodels, the adapter of a DELETE
  MaxAsked,    \* bound on requests made
  MaxTroubles  \* bound on faults and changes of the registry together

Submodel == [id : Ids \cup {None}, semantic : Semantics \cup {None}]

\* ICreateAdapter; the url is not validated.
Entry == [url : Adapters \cup {None}, id : Ids \cup {None}, semantic : Semantics \cup {None}]
Positions == 1 .. Len(Files)
Valid(e) == e.id # None \/ e.semantic # None

ASSUME SubmodelsAssumption ==
  /\ Len(Files) \in Nat
  /\ None \notin Adapters \cup Ids \cup Semantics \cup Entry
  /\ Stored \in [Positions -> {e \in Entry : Valid(e)} \cup {None}]
  /\ Offers \subseteq Positions \X {e \in Entry : Valid(e)}
  /\ \A r \in Requests :
       /\ Asked[r].kind \in {"post", "get", "delete"}
       /\ Asked[r].submodels \subseteq {m \in Submodel : m.id # None \/ m.semantic # None}
       /\ Asked[r].kind # "post" => Cardinality(Asked[r].submodels) = 1
       /\ Asked[r].kind # "get" => \A m \in Asked[r].submodels : m.id # None
       /\ Asked[r].kind = "delete" => Asked[r].at \in Adapters
  /\ MaxAsked \in Nat /\ MaxTroubles \in Nat

Tasks == UNION {{r} \X Asked[r].submodels : r \in Requests}
Kind(t) == Asked[t[1]].kind
TasksOf(r) == {t \in Tasks : t[1] = r}

VARIABLES
  registry,    \* per file: what is registered
  torn,        \* files that are being written
  up,          \* the data manager runs
  answer,      \* per request
  step,        \* per task
  via,         \* per task: the adapter it goes to
  base,        \* per task: the version it read
  connection,  \* per adapter: to MongoDB
  version,     \* per adapter and id: version of the document, 0 without one
  updated,     \* tasks whose update the database performed (history)
  gone,        \* those of them a deletion followed (history)
  calm,        \* tasks since whose start nothing disturbed (history)
  before,      \* per GET: POSTs answered with ok before it (history)
  troubles

managerVars == <<up, answer, before>>
adapterVars == <<base, connection, version, updated, gone>>
registryVars == <<registry, torn>>
vars == <<managerVars, adapterVars, registryVars, step, via, calm, troubles>>

Lookups == {"byId", "bySemantic"}
AtAdapter == {"connect", "read", "write"}

TypeOK ==
  /\ registry \in [Positions -> {e \in Entry : Valid(e)} \cup {None}]
  /\ torn \subseteq Positions
  /\ up \in BOOLEAN
  /\ answer \in [Requests -> {"unasked", "open", "ok", "error", "reset"}]
  /\ step \in [Tasks -> Lookups \cup AtAdapter \cup {"idle", "sent", "done", "failed"}]
  /\ via \in [Tasks -> Adapters \cup {None}]
  /\ base \in [Tasks -> Nat]
  /\ connection \in [Adapters -> {"none", "connecting", "open", "failed"}]
  /\ version \in [Adapters \X Ids -> Nat]
  /\ gone \subseteq updated /\ updated \subseteq Tasks
  /\ calm \subseteq Tasks
  /\ before \in [Requests -> SUBSET Requests]
  /\ troubles \in 0 .. MaxTroubles

Init ==
  /\ registry = Stored
  /\ torn = {}
  /\ up = TRUE
  /\ answer = [r \in Requests |-> "unasked"]
  /\ step = [t \in Tasks |-> "idle"]
  /\ via = [t \in Tasks |-> None]
  /\ base = [t \in Tasks |-> 0]
  /\ connection = [a \in Adapters |-> "none"]
  /\ version = [d \in Adapters \X Ids |-> 0]
  /\ updated = {} /\ gone = {} /\ calm = {}
  /\ before = [r \in Requests |-> {}]
  /\ troubles = 0

Goes(t, s) == step' = [step EXCEPT ![t] = s]

Trouble ==
  /\ troubles < MaxTroubles
  /\ troubles' = troubles + 1
  /\ calm' = {}

------------------------------------------------------------------------------
(* The data manager *)

Asks(r) ==
  /\ answer[r] = "unasked"
  /\ Cardinality({q \in Requests : answer[q] # "unasked"}) < MaxAsked
  /\ before' = [before EXCEPT ![r] = IF Asked[r].kind = "get"
                  THEN {p \in Requests : Asked[p].kind = "post" /\ answer[p] = "ok"}
                  ELSE {}]
  /\ UNCHANGED <<up, adapterVars, registryVars, troubles>>

Starts(r, s) == step' = [t \in Tasks |-> IF t[1] = r THEN s ELSE step[t]]

\* A bug that passes only the semantic id of a GET on to the registry.
AskSemanticOnly(r) ==
  /\ up /\ Asked[r].kind # "delete"
  /\ Asks(r)
  /\ answer' = [answer EXCEPT ![r] = "open"]
  /\ Starts(r, IF Asked[r].kind = "get" THEN "bySemantic" ELSE "byId")
  /\ calm' = IF torn = {} THEN calm \cup TasksOf(r) ELSE calm
  /\ UNCHANGED via

\* All lookups of a request are sent at once.
Ask(r) ==
  /\ up /\ Asked[r].kind # "delete"
  /\ Asks(r)
  /\ answer' = [answer EXCEPT ![r] = "open"]
  /\ Starts(r, "byId")
  /\ calm' = IF torn = {} THEN calm \cup TasksOf(r) ELSE calm
  /\ UNCHANGED via

\* A bug that answers as soon as one submodel is stored.
AnyStored(r) ==
  /\ Asked[r].kind # "delete" => up
  /\ answer[r] = "open"
  /\ \E t \in TasksOf(r) : step[t] = "done"
  /\ answer' = [answer EXCEPT ![r] = "ok"]
  /\ UNCHANGED <<up, before, adapterVars, registryVars, step, via, calm, troubles>>

\* Promise.all waits for all; a DELETE is answered by the adapter itself.
AnswerOk(r) ==
  /\ Asked[r].kind # "delete" => up
  /\ answer[r] = "open"
  /\ \A t \in TasksOf(r) : step[t] = "done"
  /\ answer' = [answer EXCEPT ![r] = "ok"]
  /\ UNCHANGED <<up, before, adapterVars, registryVars, step, via, calm, troubles>>

\* A bug that logs the failure and does not call next().
ErrorLogged(r) ==
  /\ Asked[r].kind # "delete" => up
  /\ answer[r] = "open"
  /\ \E t \in TasksOf(r) : step[t] = "failed"
  /\ UNCHANGED vars

\* The first failure is the answer, whatever becomes of the other submodels.
AnswerError(r) ==
  /\ Asked[r].kind # "delete" => up
  /\ answer[r] = "open"
  /\ \E t \in TasksOf(r) : step[t] = "failed"
  /\ answer' = [answer EXCEPT ![r] = "error"]
  /\ UNCHANGED <<up, before, adapterVars, registryVars, step, via, calm, troubles>>

\* The process ends.  Who waits for it sees the connection reset; what has been
\* sent to an adapter goes on there.
Ends ==
  /\ up' = FALSE
  /\ answer' = [r \in Requests |->
       IF answer[r] = "open" /\ Asked[r].kind # "delete" THEN "reset" ELSE answer[r]]
  /\ step' = [t \in Tasks |-> IF step[t] \in Lookups THEN "failed" ELSE step[t]]
  /\ UNCHANGED <<before, adapterVars, registryVars, via>>

Crash ==
  /\ up
  /\ Ends
  /\ Trouble

Restart ==
  /\ ~up
  /\ up' = TRUE
  /\ UNCHANGED <<answer, before, adapterVars, registryVars, step, via, calm, troubles>>

------------------------------------------------------------------------------
(* The adapter registry *)

\* A file under write is empty: it is passed over, or the lookup fails.
Hits(field, value) ==
  {n \in Positions \ torn : registry[n] # None /\ registry[n][field] = value}

\* The last file that fits is taken; undefined fits undefined.
Lookup(t, field, otherwise) ==
  LET hits == Hits(field, t[2][field])
  IN /\ \/ /\ hits # {}
           /\ via' = [via EXCEPT ![t] = registry[Max(hits)].url]
           /\ Goes(t, IF registry[Max(hits)].url = None THEN "failed" ELSE "sent")
        \/ /\ hits = {} \/ torn # {}
           /\ Goes(t, otherwise)
           /\ UNCHANGED via
     /\ UNCHANGED <<managerVars, adapterVars, registryVars, calm, troubles>>

ById(t) ==
  /\ step[t] = "byId"
  /\ Lookup(t, "id", "bySemantic")

BySemantic(t) ==
  /\ step[t] = "bySemantic"
  /\ Lookup(t, "semantic", "failed")

Change ==
  /\ Trouble
  /\ UNCHANGED <<managerVars, adapterVars, step, via>>

\* setItem empties the file, then writes it.
Register(n, e) ==
  /\ Change
  /\ n \notin torn
  /\ registry' = [registry EXCEPT ![n] = e]
  /\ torn' = torn \cup {n}

Written(n) ==
  /\ n \in torn
  /\ torn' = torn \ {n}
  /\ calm' = {}
  /\ UNCHANGED <<managerVars, adapterVars, registry, step, via, troubles>>

\* DELETE /deleteall removes one file after the other.
Remove(n) ==
  /\ Change
  /\ n \notin torn /\ registry[n] # None
  /\ registry' = [registry EXCEPT ![n] = None]
  /\ UNCHANGED torn

------------------------------------------------------------------------------
(* The storage adapters *)

\* DELETE /submodels/:id goes to an adapter directly.
AskDelete(r) ==
  /\ Asked[r].kind = "delete"
  /\ Asks(r)
  /\ answer' = [answer EXCEPT ![r] = "open"]
  /\ Starts(r, "sent")
  /\ via' = [t \in Tasks |-> IF t[1] = r THEN Asked[r].at ELSE via[t]]
  /\ UNCHANGED calm

\* connect() marks the client as connected before it is, and for good.
Connect(t) ==
  /\ step[t] = "sent" /\ connection[via[t]] = "none"
  /\ connection' = [connection EXCEPT ![via[t]] = "connecting"]
  /\ Goes(t, "connect")
  /\ UNCHANGED <<managerVars, registryVars, via, base, version, updated, gone, calm, troubles>>

\* Who arrives meanwhile, or after the attempt failed, finds no database.
NoDatabase(t) ==
  /\ step[t] = "sent" /\ connection[via[t]] \in {"connecting", "failed"}
  /\ Goes(t, "failed")
  /\ UNCHANGED <<managerVars, registryVars, adapterVars, via, calm, troubles>>

Connected(t) ==
  /\ step[t] = "connect"
  /\ connection' = [connection EXCEPT ![via[t]] = "open"]
  /\ Goes(t, "read")
  /\ UNCHANGED <<managerVars, registryVars, via, base, version, updated, gone, calm, troubles>>

ConnectFails(t) ==
  /\ step[t] = "connect"
  /\ connection' = [connection EXCEPT ![via[t]] = "failed"]
  /\ Goes(t, "failed")
  /\ Trouble
  /\ UNCHANGED <<managerVars, registryVars, via, base, version, updated, gone>>

\* The database is asked by the task that connected or on arrival.
Served(t) ==
  \/ step[t] = "read"
  \/ step[t] = "sent" /\ connection[via[t]] = "open"

Document(t) == <<via[t], t[2].id>>

\* A bug that remembers the version before the one it read.
ReadVersionBefore(t) ==
  /\ Served(t) /\ Kind(t) = "post"
  /\ base' = [base EXCEPT ![t] = version[Document(t)] - 1]
  /\ Goes(t, "write")
  /\ UNCHANGED <<managerVars, registryVars, via, connection, version, updated, gone, calm, troubles>>

ReadVersion(t) ==
  /\ Served(t) /\ Kind(t) = "post"
  /\ base' = [base EXCEPT ![t] = version[Document(t)]]
  /\ Goes(t, "write")
  /\ UNCHANGED <<managerVars, registryVars, via, connection, version, updated, gone, calm, troubles>>

\* A bug that updates by id alone.
UpdateUnversioned(t, s) ==
  /\ step[t] = "write"
  /\ version' = [version EXCEPT ![Document(t)] = @ + 1]
  /\ updated' = updated \cup {t}
  /\ Goes(t, s)
  /\ UNCHANGED <<managerVars, registryVars, via, base, connection, gone>>

\* Matched by id and version; without a document the upsert inserts one that
\* counts on from the version named.
Update(t, s) ==
  /\ step[t] = "write"
  /\ version[Document(t)] \in {0, base[t]}
  /\ version' = [version EXCEPT ![Document(t)] = base[t] + 1]
  /\ updated' = updated \cup {t}
  /\ Goes(t, s)
  /\ UNCHANGED <<managerVars, registryVars, via, base, connection, gone>>

Store(t) == Update(t, "done") /\ UNCHANGED <<calm, troubles>>

\* Stored, but the answer is lost.
StoreUnanswered(t) == Update(t, "failed") /\ Trouble

\* A bug that takes the duplicate key for a document stored before.
ConflictIgnored(t) ==
  /\ step[t] = "write"
  /\ version[Document(t)] \notin {0, base[t]}
  /\ Goes(t, "done")
  /\ UNCHANGED <<managerVars, registryVars, adapterVars, via, calm, troubles>>

\* The upsert inserts the _id again: duplicate key.
Conflict(t) ==
  /\ step[t] = "write"
  /\ version[Document(t)] \notin {0, base[t]}
  /\ Goes(t, "failed")
  /\ UNCHANGED <<managerVars, registryVars, adapterVars, via, calm, troubles>>

\* Without an id all submodels are read.
Fetch(t) ==
  /\ Served(t) /\ Kind(t) = "get"
  /\ Goes(t, IF t[2].id = None \/ version[Document(t)] > 0 THEN "done" ELSE "failed")
  /\ UNCHANGED <<managerVars, registryVars, adapterVars, via, calm, troubles>>

DeleteOne(t) ==
  /\ Served(t) /\ Kind(t) = "delete"
  /\ IF version[Document(t)] > 0
     THEN /\ version' = [version EXCEPT ![Document(t)] = 0]
          /\ gone' = gone \cup {u \in updated : Document(u) = Document(t)}
          /\ calm' = {}
          /\ Goes(t, "done")
     ELSE Goes(t, "failed") /\ UNCHANGED <<version, gone, calm>>
  /\ UNCHANGED <<managerVars, registryVars, via, base, connection, updated, troubles>>

\* A call of the registry, the adapter or the database fails, or the submodel
\* has no productinstanceuri.
TaskFails(t) ==
  /\ step[t] \in Lookups \cup {"sent", "read", "write"}
  /\ Goes(t, "failed")
  /\ Trouble
  /\ UNCHANGED <<managerVars, registryVars, adapterVars, via>>

AdapterRestarts(a) ==
  /\ connection[a] # "none"
  /\ connection' = [connection EXCEPT ![a] = "none"]
  /\ step' = [t \in Tasks |->
       IF via[t] = a /\ step[t] \in AtAdapter THEN "failed" ELSE step[t]]
  /\ Trouble
  /\ UNCHANGED <<managerVars, registryVars, via, base, version, updated, gone>>

------------------------------------------------------------------------------
Progress ==
  \/ Restart
  \/ \E r \in Requests : AnswerOk(r) \/ AnswerError(r)
  \/ \E n \in Positions : Written(n)
  \/ \E t \in Tasks :
       \/ ById(t) \/ BySemantic(t)
       \/ Connect(t) \/ NoDatabase(t) \/ Connected(t) \/ ReadVersion(t)
       \/ Store(t) \/ Conflict(t) \/ Fetch(t) \/ DeleteOne(t)

Faults ==
  \/ Crash
  \/ \E t \in Tasks : ConnectFails(t) \/ StoreUnanswered(t) \/ TaskFails(t)
  \/ \E a \in Adapters : AdapterRestarts(a)

Callers ==
  \/ \E r \in Requests : Ask(r) \/ AskDelete(r)
  \/ \E o \in Offers : Register(o[1], o[2])
  \/ \E n \in Positions : Remove(n)

Next == Progress \/ Faults \/ Callers

Spec == Init /\ [][Next]_vars

\* Event loops run, calls return or fail, a process that ended is started again.
FairSpec == Spec /\ WF_vars(Progress)

------------------------------------------------------------------------------
(* Properties *)

\* A POST answered with 200 has updated a document for every one of its
\* submodels, and each stays beyond the version it replaced until it is deleted,
\* whatever other requests, late tasks and restarts did.
AnswerMeansStored ==
  \A t \in Tasks :
    Kind(t) = "post" /\ answer[t[1]] = "ok" =>
      /\ t \in updated
      /\ t \in gone \/ version[Document(t)] > base[t]

\* What a POST answered with 200 stored, a later GET naming the same ids finds:
\* as long as the registry does not change, both are led to one adapter, although
\* lookups take two steps and several entries may fit.
ReadsBack ==
  \A g, p \in calm :
    /\ Kind(g) = "get" /\ p[1] \in before[g[1]]
    /\ g[2] = p[2]
    => step[g] # "failed"

\* Between two deletions each version of a document is replaced by one update,
\* also when tasks of requests long answered still write.
Record(a, i) == INSTANCE DeletableRecord WITH
  Writers <- Tasks,
  version <- version[<<a, i>>],
  stored <- {[writer |-> t, base |-> base[t]] :
               t \in {u \in updated \ gone : Document(u) = <<a, i>>}},
  told <- {}

ImplementsDeletableRecord ==
  /\ \A a \in Adapters, i \in Ids : Record(a, i)!Init
  /\ [][\A a \in Adapters, i \in Ids :
          Record(a, i)!DeletableNext \/ UNCHANGED Record(a, i)!vars]_vars

\* Every request is answered, whatever its tasks came to and although its handler
\* may catch nothing; its connection is reset only if the data manager ended, which
\* the failure of a request does not make it do.
EveryRequestAnswered ==
  []<>\A r \in Requests :
        \/ answer[r] \in {"unasked", "ok", "error"}
        \/ answer[r] = "reset" /\ troubles > 0

==============================================================================
