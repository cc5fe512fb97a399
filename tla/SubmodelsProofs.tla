---------------------------- MODULE SubmodelsProofs ----------------------------
(***************************************************************************)
(* Proofs about module Submodels, for any number of requests, adapters and *)
(* troubles.  A task keeps its adapter once it has one, so that a document *)
(* and those who store it can be followed; the tasks that nothing disturbs *)
(* are all led to the adapter the registry names for their submodel now.   *)
(***************************************************************************)
EXTENDS Submodels, WellFoundedInduction, TLAPS

\* Steps of a task that has an adapter.
Placed == AtAdapter \cup {"sent", "done"}

\* Where a task is.
TaskOf(t) ==
  /\ step[t] \in Placed => via[t] \in Adapters
  /\ step[t] = "write" => Kind(t) = "post"
  /\ step[t] \in Lookups => Kind(t) # "delete"
  /\ step[t] # "idle" => answer[t[1]] # "unasked"
  /\ answer[t[1]] = "ok" => step[t] = "done"
  /\ Kind(t) = "post" /\ step[t] = "done" => t \in updated
  /\ t \in updated => Kind(t) = "post" /\ step[t] \in {"done", "failed"} /\ via[t] \in Adapters

\* Every update that no deletion followed is older than what the document is now.
Newer(t) == t \in updated \ gone => version[Document(t)] > base[t]

Tasked == \A t \in Tasks : TaskOf(t) /\ Newer(t)

\* The adapter that is responsible for a submodel, or None.
Responsible(m) ==
  IF Hits("id", m.id) # {} THEN registry[Max(Hits("id", m.id))].url
  ELSE IF Hits("semantic", m.semantic) # {} THEN registry[Max(Hits("semantic", m.semantic))].url
  ELSE None

\* A task that nothing has disturbed.
CalmOf(t) ==
  /\ torn = {} /\ t \notin gone
  /\ step[t] # "idle" /\ Kind(t) # "delete"
  /\ step[t] = "bySemantic" => Hits("id", t[2].id) = {}
  /\ step[t] \in Placed => via[t] = Responsible(t[2])
  /\ step[t] \in {"read", "write", "done"} => connection[via[t]] = "open"

Calm == \A t \in calm : CalmOf(t)

\* A GET knows POSTs that were answered.
Order ==
  \A r \in Requests : \A p \in before[r] : Asked[p].kind = "post" /\ answer[p] = "ok"

Inv == TypeOK /\ Tasked /\ Calm /\ Order /\ ReadsBack

------------------------------------------------------------------------------
(* Numbers, files and tasks *)

\* Every set of natural numbers has a least element.
LEMMA LeastNumber ==
  ASSUME NEW T \in SUBSET Nat, T # {}
  PROVE  \E x \in T : \A y \in T : x <= y
<1> DEFINE R == {ss \in Nat \X Nat : ss[1] < ss[2]}
<1>1. IsWellFoundedOn(R, Nat)
  BY NatLessThanWellFounded DEF OpToRel
<1>2. PICK x \in T : \A y \in T : ~ (<<y, x>> \in R)
  <2> HIDE DEF R
  <2> QED
    BY <1>1, WFMin
<1>3. ASSUME NEW y \in T
      PROVE  x <= y
  <2>1. ~ (y < x)
    BY <1>2
  <2> QED
    BY <2>1
<1> QED
  BY <1>3

\* Max finds the last of some positions.
LEMMA LastPosition ==
  ASSUME NEW n \in Nat, NEW S \in SUBSET (1 .. n), S # {}
  PROVE  Max(S) \in S /\ \A y \in S : y <= Max(S)
<1> DEFINE T == {n - x : x \in S}
<1>1. \A x \in S : x \in 1 .. n
  OBVIOUS
<1>2. T \in SUBSET Nat /\ T # {}
  <2>1. \A x \in S : n - x \in Nat
    BY <1>1
  <2> QED
    BY <2>1
<1>3. PICK x \in T : \A y \in T : x <= y
  <2> HIDE DEF T
  <2> QED
    BY <1>2, LeastNumber
<1>4. PICK s \in S : x = n - s
  BY <1>3
<1>5. ASSUME NEW y \in S
      PROVE  s >= y
  <2>1. n - s <= n - y
    BY <1>3, <1>4
  <2>2. s \in 1 .. n /\ y \in 1 .. n
    BY <1>1
  <2> QED
    BY <2>1, <2>2
<1>6. Max(S) \in S /\ \A y \in S : Max(S) >= y
  BY <1>5, Zenon DEF Max
<1> QED
  BY <1>1, <1>6

\* A lookup that has hits finds an adapter or an entry without a url.
LEMMA HitsFacts ==
  ASSUME TypeOK, NEW field, NEW value, Hits(field, value) # {}
  PROVE  /\ Max(Hits(field, value)) \in Hits(field, value)
         /\ registry[Max(Hits(field, value))].url \in Adapters \cup {None}
<1> DEFINE hits == Hits(field, value)
<1>1. hits \in SUBSET (1 .. Len(Files)) /\ \A n \in hits : registry[n] \in Entry
  BY DEF Hits, Positions, TypeOK
<1>2. Max(hits) \in hits
  <2> HIDE DEF hits
  <2>1. hits # {}
    BY DEF hits
  <2> QED
    BY <1>1, <2>1, LastPosition, SubmodelsAssumption
<1> QED
  BY <1>1, <1>2 DEF Entry

\* What a task is made of.
LEMMA TaskFacts ==
  ASSUME NEW t \in Tasks
  PROVE  /\ t[1] \in Requests /\ t = <<t[1], t[2]>>
         /\ t[2] \in Submodel /\ t[2].id \in Ids \cup {None}
         /\ Kind(t) \in {"post", "get", "delete"}
         /\ Kind(t) # "get" => t[2].id \in Ids
         /\ Kind(t) = "delete" => Asked[t[1]].at \in Adapters
<1>1. PICK r \in Requests : t \in {r} \X Asked[r].submodels
  BY DEF Tasks
<1>2. t[1] = r /\ t = <<t[1], t[2]>> /\ t[2] \in Asked[r].submodels
  BY <1>1
<1>3. t[2] \in Submodel
  BY <1>2, SubmodelsAssumption
<1> QED
  BY <1>2, <1>3, SubmodelsAssumption DEF Kind, Submodel

------------------------------------------------------------------------------
(* Steps *)

\* Only answers change.
Answers ==
  /\ UNCHANGED <<before, adapterVars, registryVars, step, via, calm>>
  /\ up => up'
  /\ \A r \in Requests :
       \/ answer'[r] = answer[r]
       \/ answer[r] = "open" /\ answer'[r] = "error"
       \/ answer[r] = "open" /\ answer'[r] = "ok" /\ \A t \in TasksOf(r) : step[t] = "done"

\* Only the registry changes.
Registers == UNCHANGED <<managerVars, adapterVars, step, via>> /\ calm' = {}

\* A task asks its adapter and changes no document.
Looks(t) ==
  /\ step[t] \in AtAdapter \cup {"sent"}
  /\ UNCHANGED <<managerVars, registryVars, via, version, updated, gone>>
  /\ \E s \in AtAdapter \cup {"done", "failed"} :
       /\ Goes(t, s)
       /\ s = "done" => Kind(t) # "post"
       /\ \/ base' = base /\ s # "write"
          \/ base' = [base EXCEPT ![t] = version[Document(t)]] /\ Kind(t) = "post"

\* A task stores its submodel.
Stores(t) == \E s \in {"done", "failed"} : Update(t, s)

\* All steps, those that only answer or register by what they change.
LEMMA Steps ==
  ASSUME TypeOK, Next
  PROVE  \/ \E r \in Requests : Ask(r) \/ AskDelete(r)
         \/ Answers \/ Registers \/ Crash
         \/ \E t \in Tasks :
              \/ ById(t) \/ BySemantic(t) \/ Connect(t) \/ NoDatabase(t) \/ Connected(t)
              \/ ConnectFails(t) \/ ReadVersion(t) \/ Store(t) \/ StoreUnanswered(t)
              \/ Conflict(t) \/ Fetch(t) \/ DeleteOne(t) \/ TaskFails(t)
         \/ \E a \in Adapters : AdapterRestarts(a)
<1>1. ASSUME Restart \/ \E r \in Requests : AnswerOk(r) \/ AnswerError(r)
      PROVE  Answers
  BY <1>1 DEF Restart, AnswerOk, AnswerError, Answers, TypeOK
<1>2. ASSUME \/ \E n \in Positions : Written(n) \/ Remove(n)
             \/ \E o \in Offers : Register(o[1], o[2])
      PROVE  Registers
  BY <1>2 DEF Written, Remove, Register, Change, Trouble, Registers, managerVars, adapterVars
<1> QED
  BY <1>1, <1>2 DEF Next, Progress, Faults, Callers

\* All steps by what they change.
LEMMA StepKinds ==
  ASSUME TypeOK, Next
  PROVE  \/ \E r \in Requests : Ask(r) \/ AskDelete(r)
         \/ Answers \/ Ends \/ Registers
         \/ \E t \in Tasks : ById(t) \/ BySemantic(t) \/ Looks(t) \/ Stores(t) \/ DeleteOne(t) \/ TaskFails(t)
         \/ \E a \in Adapters : AdapterRestarts(a)
<1>1. Crash => Ends
  BY DEF Crash
<1>2. ASSUME NEW t \in Tasks, Connect(t) \/ NoDatabase(t) \/ Connected(t) \/ ConnectFails(t)
                                \/ ReadVersion(t) \/ Conflict(t) \/ Fetch(t)
      PROVE  Looks(t)
  <2>1. CASE Connect(t) \/ NoDatabase(t) \/ Connected(t) \/ ConnectFails(t) \/ Conflict(t)
    BY <2>1 DEF Connect, NoDatabase, Connected, ConnectFails, Conflict, Looks, AtAdapter, adapterVars
  <2>2. CASE ReadVersion(t)
    BY <2>2 DEF ReadVersion, Served, Looks, AtAdapter
  <2>3. CASE Fetch(t)
    BY <2>3 DEF Fetch, Served, Looks, AtAdapter, adapterVars
  <2> QED
    BY <1>2, <2>1, <2>2, <2>3
<1>3. ASSUME NEW t \in Tasks, Store(t) \/ StoreUnanswered(t)
      PROVE  Stores(t)
  BY <1>3 DEF Store, StoreUnanswered, Stores
<1> QED
  BY <1>1, <1>2, <1>3, Steps

\* The document of a task that has an adapter.
LEMMA DocumentFacts ==
  ASSUME TypeOK, NEW t \in Tasks, TaskOf(t), step[t] \in Placed \/ t \in updated
  PROVE  /\ via[t] \in Adapters
         /\ Kind(t) # "get" => Document(t) \in Adapters \X Ids /\ version[Document(t)] \in Nat
BY TaskFacts DEF TaskOf, Document, TypeOK

------------------------------------------------------------------------------
(* Types *)

\* Every action keeps the types.
LEMMA TypesPreserved ==
  ASSUME TypeOK, Tasked, Next
  PROVE  TypeOK'
<1>1. CASE \E r \in Requests : Ask(r) \/ AskDelete(r)
  <2>1. PICK r \in Requests : Ask(r) \/ AskDelete(r)
    BY <1>1
  <2>2. Asked[r].kind = "delete" => Asked[r].at \in Adapters
    BY SubmodelsAssumption
  <2>3. calm' \subseteq Tasks
    BY <2>1 DEF Ask, AskDelete, TypeOK, TasksOf
  <2>4. step' \in [Tasks -> Lookups \cup AtAdapter \cup {"idle", "sent", "done", "failed"}]
    BY <2>1 DEF Ask, AskDelete, TypeOK, Starts, Lookups
  <2>5. via' \in [Tasks -> Adapters \cup {None}]
    BY <2>1, <2>2 DEF Ask, AskDelete, TypeOK
  <2>6. answer' \in [Requests -> {"unasked", "open", "ok", "error", "reset"}]
    BY <2>1 DEF Ask, AskDelete, TypeOK
  <2>7. before' \in [Requests -> SUBSET Requests]
    BY <2>1 DEF Ask, AskDelete, TypeOK, Asks
  <2> QED
    BY <2>1, <2>3, <2>4, <2>5, <2>6, <2>7 DEF Ask, AskDelete, Asks, TypeOK, adapterVars, registryVars
<1>2. CASE Restart \/ \E r \in Requests : AnswerOk(r) \/ AnswerError(r)
  BY <1>2 DEF Restart, AnswerOk, AnswerError, TypeOK, adapterVars, registryVars
<1>3. CASE Crash
  <2>1. Ends /\ calm' = {} /\ troubles' \in 0 .. MaxTroubles
    BY <1>3, SubmodelsAssumption DEF Crash, Trouble, TypeOK
  <2>2. /\ answer' \in [Requests -> {"unasked", "open", "ok", "error", "reset"}]
        /\ step' \in [Tasks -> Lookups \cup AtAdapter \cup {"idle", "sent", "done", "failed"}]
    BY <2>1 DEF Ends, TypeOK
  <2> QED
    BY <2>1, <2>2 DEF Ends, TypeOK, adapterVars, registryVars
<1>4. CASE \/ \E n \in Positions : Written(n) \/ Remove(n)
           \/ \E o \in Offers : Register(o[1], o[2])
  <2>1. Registers /\ troubles' \in 0 .. MaxTroubles
    BY <1>4, SubmodelsAssumption
       DEF Written, Remove, Register, Change, Trouble, Registers, managerVars, adapterVars, TypeOK
  <2>2. /\ registry' \in [Positions -> {e \in Entry : Valid(e)} \cup {None}]
        /\ torn' \subseteq Positions
    <3>1. ASSUME NEW n \in Positions, Written(n) \/ Remove(n)
          PROVE  <2>2!1 /\ <2>2!2
      BY <3>1 DEF Written, Remove, TypeOK
    <3>2. ASSUME NEW o \in Offers, Register(o[1], o[2])
          PROVE  <2>2!1 /\ <2>2!2
      <4>1. o[1] \in Positions /\ o[2] \in {e \in Entry : Valid(e)}
        BY SubmodelsAssumption
      <4> QED
        BY <3>2, <4>1 DEF Register, TypeOK
    <3> QED
      BY <1>4, <3>1, <3>2
  <2> QED
    BY <2>1, <2>2 DEF Registers, TypeOK, managerVars, adapterVars
<1>5. ASSUME NEW t \in Tasks, ById(t) \/ BySemantic(t)
      PROVE  TypeOK'
  <2>1. /\ step' \in [Tasks -> Lookups \cup AtAdapter \cup {"idle", "sent", "done", "failed"}]
        /\ via' \in [Tasks -> Adapters \cup {None}]
        /\ UNCHANGED <<managerVars, adapterVars, registryVars, calm, troubles>>
    BY <1>5, HitsFacts DEF ById, BySemantic, Lookup, Goes, TypeOK, Lookups
  <2> QED
    BY <2>1 DEF TypeOK, managerVars, adapterVars, registryVars
<1>6. ASSUME NEW t \in Tasks, \/ Connect(t) \/ NoDatabase(t) \/ Connected(t) \/ ConnectFails(t)
                              \/ ReadVersion(t) \/ Conflict(t) \/ Fetch(t) \/ TaskFails(t)
                              \/ Store(t) \/ StoreUnanswered(t) \/ DeleteOne(t)
      PROVE  TypeOK'
  <2>1. /\ troubles' \in 0 .. MaxTroubles /\ calm' \subseteq Tasks
        /\ UNCHANGED <<managerVars, registryVars, via>>
    BY <1>6, SubmodelsAssumption DEF Connect, NoDatabase, Connected, ConnectFails, ReadVersion, Conflict, Fetch,
       TaskFails, Store, StoreUnanswered, DeleteOne, Update, Trouble, TypeOK
  <2>2. step' \in [Tasks -> Lookups \cup AtAdapter \cup {"idle", "sent", "done", "failed"}]
    BY <1>6 DEF Connect, NoDatabase, Connected, ConnectFails, ReadVersion, Conflict, Fetch,
       TaskFails, Store, StoreUnanswered, DeleteOne, Update, Goes, AtAdapter, TypeOK
  <2>3. connection' \in [Adapters -> {"none", "connecting", "open", "failed"}]
    BY <1>6 DEF Connect, NoDatabase, Connected, ConnectFails, ReadVersion, Conflict, Fetch,
       TaskFails, Store, StoreUnanswered, DeleteOne, Update, TypeOK, adapterVars
  <2>4. /\ base' \in [Tasks -> Nat] /\ version' \in [Adapters \X Ids -> Nat]
        /\ gone' \subseteq updated' /\ updated' \subseteq Tasks
    <3>1. CASE Connect(t) \/ NoDatabase(t) \/ Connected(t) \/ ConnectFails(t) \/ Conflict(t) \/ Fetch(t)
                 \/ TaskFails(t)
      BY <3>1 DEF Connect, NoDatabase, Connected, ConnectFails, Conflict, Fetch, TaskFails, TypeOK, adapterVars
    <3>2. CASE ReadVersion(t)
      <4>1. version[Document(t)] \in Nat
        BY <3>2, DocumentFacts DEF ReadVersion, Served, Placed, AtAdapter, Tasked
      <4> QED
        BY <3>2, <4>1 DEF ReadVersion, TypeOK
    <3>3. CASE Store(t) \/ StoreUnanswered(t)
      BY <3>3 DEF Store, StoreUnanswered, Update, TypeOK
    <3>4. CASE DeleteOne(t)
      BY <3>4 DEF DeleteOne, TypeOK
    <3> QED
      BY <1>6, <3>1, <3>2, <3>3, <3>4
  <2> QED
    BY <2>1, <2>2, <2>3, <2>4 DEF TypeOK, managerVars, registryVars
<1>7. ASSUME NEW a \in Adapters, AdapterRestarts(a)
      PROVE  TypeOK'
  <2>1. /\ step' \in [Tasks -> Lookups \cup AtAdapter \cup {"idle", "sent", "done", "failed"}]
        /\ connection' \in [Adapters -> {"none", "connecting", "open", "failed"}]
        /\ troubles' \in 0 .. MaxTroubles /\ calm' = {}
    BY <1>7, SubmodelsAssumption DEF AdapterRestarts, Trouble, TypeOK
  <2> QED
    BY <1>7, <2>1 DEF AdapterRestarts, TypeOK, managerVars, registryVars
<1> QED
  BY <1>1, <1>2, <1>3, <1>4, <1>5, <1>6, <1>7 DEF Next, Progress, Faults, Callers

------------------------------------------------------------------------------
(* Where tasks are *)

\* A request that has not been made has tasks that have not begun, so that a
\* new one begins with all of them.
LEMMA NewRequests ==
  ASSUME TypeOK, Tasked, NEW r \in Requests, Ask(r) \/ AskDelete(r)
  PROVE  /\ UNCHANGED <<adapterVars, registryVars>>
         /\ answer[r] = "unasked" /\ answer' = [answer EXCEPT ![r] = "open"]
         /\ \A t \in TasksOf(r) :
              /\ step[t] = "idle" /\ t \notin updated /\ step'[t] \in {"byId", "sent"}
              /\ step'[t] = "byId" => Kind(t) # "delete"
              /\ step'[t] = "sent" => via'[t] \in Adapters
         /\ \A t \in Tasks \ TasksOf(r) : step'[t] = step[t] /\ via'[t] = via[t]
<1>1. /\ UNCHANGED <<adapterVars, registryVars>>
      /\ answer[r] = "unasked" /\ answer' = [answer EXCEPT ![r] = "open"]
      /\ \A t \in Tasks \ TasksOf(r) : step'[t] = step[t] /\ via'[t] = via[t]
  BY DEF Ask, AskDelete, Asks, Starts, TasksOf, TypeOK
<1>2. ASSUME NEW t \in TasksOf(r)
      PROVE  /\ step[t] = "idle" /\ t \notin updated /\ step'[t] \in {"byId", "sent"}
             /\ step'[t] = "byId" => Kind(t) # "delete"
             /\ step'[t] = "sent" => via'[t] \in Adapters
  <2>1. t \in Tasks /\ t[1] = r
    BY DEF TasksOf
  <2>2. step[t] = "idle" /\ t \notin updated
    BY <1>1, <2>1 DEF Tasked, TaskOf
  <2>3. CASE Ask(r)
    BY <2>1, <2>2, <2>3 DEF Ask, Starts, Kind, TypeOK
  <2>4. CASE AskDelete(r)
    BY <2>1, <2>2, <2>4, TaskFacts DEF AskDelete, Starts, Kind, TypeOK
  <2> QED
    BY <2>3, <2>4
<1> QED
  BY <1>1, <1>2

LEMMA TaskedPreserved ==
  ASSUME TypeOK, TypeOK', Tasked, Next
  PROVE  Tasked'
<1>1. ASSUME NEW r \in Requests, Ask(r) \/ AskDelete(r)
      PROVE  Tasked'
  <2> SUFFICES ASSUME NEW q \in Tasks
               PROVE  TaskOf(q)' /\ Newer(q)'
    BY DEF Tasked
  <2>1. /\ UNCHANGED <<adapterVars, registryVars>>
        /\ answer[r] = "unasked" /\ answer' = [answer EXCEPT ![r] = "open"]
    BY <1>1, NewRequests
  <2>2. CASE q \in TasksOf(r)
    <3>1. /\ q \notin updated /\ step'[q] \in {"byId", "sent"} /\ q[1] = r
          /\ step'[q] = "byId" => Kind(q) # "delete"
          /\ step'[q] = "sent" => via'[q] \in Adapters
      BY <1>1, <2>2, NewRequests DEF TasksOf
    <3>2. answer'[q[1]] = "open"
      BY <2>1, <3>1 DEF TypeOK
    <3> QED
      BY <2>1, <3>1, <3>2 DEF TaskOf, Newer, Lookups, Placed, AtAdapter, adapterVars, Kind
  <2>3. CASE q \notin TasksOf(r)
    <3>1. step'[q] = step[q] /\ via'[q] = via[q] /\ q[1] # r
      BY <1>1, <2>3, NewRequests DEF TasksOf
    <3>2. answer'[q[1]] = answer[q[1]]
      BY <2>1, <3>1, TaskFacts DEF TypeOK
    <3> QED
      BY <2>1, <3>1, <3>2 DEF Tasked, TaskOf, Newer, adapterVars, Kind, Document
  <2> QED
    BY <2>2, <2>3
<1>2. CASE Answers
  <2> SUFFICES ASSUME NEW q \in Tasks
               PROVE  TaskOf(q)' /\ Newer(q)'
    BY DEF Tasked
  <2>1. q[1] \in Requests /\ q \in TasksOf(q[1])
    BY TaskFacts DEF TasksOf
  <2>2. UNCHANGED <<adapterVars, step, via>>
    BY <1>2 DEF Answers
  <2>3. /\ answer'[q[1]] = "ok" => step[q] = "done"
        /\ answer'[q[1]] = "unasked" => answer[q[1]] = "unasked"
    BY <1>2, <2>1 DEF Answers, Tasked, TaskOf
  <2> QED
    BY <2>2, <2>3 DEF Tasked, TaskOf, Newer, adapterVars, Kind, Document
<1>3. CASE Ends
  <2> SUFFICES ASSUME NEW q \in Tasks
               PROVE  TaskOf(q)' /\ Newer(q)'
    BY DEF Tasked
  <2>1. UNCHANGED <<adapterVars, via>> /\ q[1] \in Requests
    BY <1>3, TaskFacts DEF Ends
  <2>2. /\ answer'[q[1]] = "ok" => answer[q[1]] = "ok"
        /\ answer'[q[1]] = "unasked" => answer[q[1]] = "unasked"
        /\ step'[q] = IF step[q] \in Lookups THEN "failed" ELSE step[q]
    BY <1>3, <2>1 DEF Ends, TypeOK
  <2> QED
    BY <2>1, <2>2 DEF Tasked, TaskOf, Newer, adapterVars, Kind, Document, Lookups, Placed, AtAdapter
<1>4. CASE Registers
  BY <1>4 DEF Registers, Tasked, TaskOf, Newer, managerVars, adapterVars, Kind, Document
<1>5. ASSUME NEW t \in Tasks, ById(t) \/ BySemantic(t) \/ Looks(t) \/ Stores(t) \/ DeleteOne(t) \/ TaskFails(t)
      PROVE  Tasked'
  <2>1. /\ UNCHANGED answer /\ t \notin updated /\ step[t] \notin {"idle", "done", "failed"}
        /\ answer[t[1]] # "ok" /\ answer[t[1]] # "unasked" /\ TaskOf(t)
        /\ \A q \in Tasks \ {t} : step'[q] = step[q] /\ via'[q] = via[q] /\ base'[q] = base[q]
    <3>1. step[t] \notin {"idle", "done", "failed"} /\ UNCHANGED answer
      BY <1>5 DEF ById, BySemantic, Lookup, Looks, Stores, Update, DeleteOne, Served, TaskFails,
         Lookups, AtAdapter, managerVars
    <3>2. \A q \in Tasks \ {t} : step'[q] = step[q] /\ via'[q] = via[q] /\ base'[q] = base[q]
      BY <1>5 DEF ById, BySemantic, Lookup, Looks, Stores, Update, DeleteOne, TaskFails, Goes,
         adapterVars, TypeOK
    <3> QED
      BY <3>1, <3>2 DEF Tasked, TaskOf
  <2>2. ASSUME UNCHANGED <<version, updated, gone>>, TaskOf(t)'
        PROVE  Tasked'
    <3>1. ASSUME NEW q \in Tasks, q # t
          PROVE  TaskOf(q)' /\ Newer(q)'
      BY <2>1, <2>2, <3>1 DEF Tasked, TaskOf, Newer, Kind, Document
    <3>2. Newer(t)'
      BY <2>1, <2>2 DEF Newer
    <3> QED
      BY <2>2, <3>1, <3>2 DEF Tasked
  <2>3. CASE ById(t) \/ BySemantic(t)
    <3>1. /\ UNCHANGED <<version, updated, gone>>
          /\ Kind(t) # "delete"
          /\ step'[t] \in {"bySemantic", "failed", "sent"}
          /\ step'[t] = "sent" => via'[t] \in Adapters
      <4>1. step[t] \in Lookups
        BY <2>3 DEF ById, BySemantic, Lookups
      <4> QED
        BY <2>1, <2>3, <4>1, HitsFacts DEF ById, BySemantic, Lookup, Goes, TypeOK, adapterVars, TaskOf
    <3> QED
      BY <2>1, <2>2, <3>1 DEF TaskOf, Placed, AtAdapter, Kind
  <2>4. CASE Looks(t) \/ TaskFails(t)
    <3>1. /\ UNCHANGED <<version, updated, gone>>
          /\ step'[t] = "failed" \/ Looks(t)
      BY <2>4 DEF Looks, TaskFails, Goes, adapterVars, TypeOK
    <3>2. CASE step'[t] = "failed"
      BY <2>1, <2>2, <3>1, <3>2 DEF TaskOf, Placed, AtAdapter, Lookups
    <3>3. CASE Looks(t)
      <4>1. /\ step[t] \in Placed /\ via' = via /\ step'[t] \in AtAdapter \cup {"done", "failed"}
            /\ step'[t] = "done" => Kind(t) # "post"
            /\ step'[t] = "write" => Kind(t) = "post"
        BY <3>3 DEF Looks, Goes, TypeOK, Placed
      <4> QED
        BY <2>1, <2>2, <3>1, <4>1 DEF TaskOf, Placed, AtAdapter, Kind, Lookups
    <3> QED
      BY <3>1, <3>2, <3>3
  <2>5. CASE Stores(t)
    <3>1. /\ step[t] = "write" /\ via' = via /\ base' = base /\ gone' = gone
          /\ step'[t] \in {"done", "failed"}
          /\ updated' = updated \cup {t}
          /\ version[Document(t)] \in {0, base[t]}
          /\ version' = [version EXCEPT ![Document(t)] = base[t] + 1]
      BY <2>5 DEF Stores, Update, Goes, TypeOK
    <3>2. via[t] \in Adapters /\ Kind(t) = "post" /\ Document(t) \in Adapters \X Ids /\ base[t] \in Nat
      BY <2>1, <3>1, DocumentFacts DEF TaskOf, Placed, AtAdapter, TypeOK
    <3>3. ASSUME NEW q \in Tasks
          PROVE  TaskOf(q)'
      BY <2>1, <3>1, <3>2, <3>3 DEF Tasked, TaskOf, Kind, Placed, AtAdapter, Lookups
    <3>4. ASSUME NEW q \in updated' \ gone'
          PROVE  version'[Document(q)'] > base'[q]
      <4>1. Document(q)' = Document(q)
        BY <3>1 DEF Document
      <4>2. version'[Document(t)] = base[t] + 1
        BY <3>1, <3>2 DEF TypeOK
      <4>3. CASE q = t
        BY <3>1, <3>2, <4>1, <4>2, <4>3
      <4>4. CASE q # t
        <5>1. q \in updated \ gone /\ q \in Tasks /\ TaskOf(q) /\ Newer(q)
          BY <3>1, <4>4 DEF Tasked, TypeOK
        <5>2. version[Document(q)] > base[q] /\ base[q] \in Nat /\ version[Document(q)] \in Nat
          BY <5>1, DocumentFacts DEF Newer, TaskOf, TypeOK
        <5>3. CASE Document(q) = Document(t)
          BY <3>1, <3>2, <4>1, <4>2, <5>2, <5>3
        <5>4. CASE Document(q) # Document(t)
          BY <3>1, <4>1, <5>2, <5>4 DEF TypeOK
        <5> QED
          BY <5>3, <5>4
      <4> QED
        BY <4>3, <4>4
    <3> QED
      BY <3>3, <3>4 DEF Tasked, Newer
  <2>6. CASE DeleteOne(t)
    <3>1. /\ UNCHANGED <<via, base, updated>> /\ step'[t] \in {"done", "failed"}
          /\ Kind(t) = "delete" /\ step[t] \in Placed
      BY <2>6 DEF DeleteOne, Goes, TypeOK, Served, Placed, AtAdapter
    <3>2. ASSUME NEW q \in Tasks
          PROVE  TaskOf(q)'
      BY <2>1, <3>1, <3>2 DEF Tasked, TaskOf, Kind, Placed, AtAdapter, Lookups
    <3>3. ASSUME NEW q \in Tasks
          PROVE  Newer(q)'
      <4>1. Document(q)' = Document(q) /\ Newer(q)
        BY <3>1 DEF Document, Tasked
      <4>2. CASE UNCHANGED <<version, gone>>
        BY <3>1, <4>1, <4>2 DEF Newer
      <4>3. CASE /\ version' = [version EXCEPT ![Document(t)] = 0]
                 /\ gone' = gone \cup {u \in updated : Document(u) = Document(t)}
        BY <3>1, <4>1, <4>3 DEF Newer, TypeOK
      <4> QED
        BY <2>6, <4>2, <4>3 DEF DeleteOne
    <3> QED
      BY <3>2, <3>3 DEF Tasked
  <2> QED
    BY <1>5, <2>3, <2>4, <2>5, <2>6
<1>6. ASSUME NEW a \in Adapters, AdapterRestarts(a)
      PROVE  Tasked'
  <2> SUFFICES ASSUME NEW q \in Tasks
               PROVE  TaskOf(q)' /\ Newer(q)'
    BY DEF Tasked
  <2>1. /\ UNCHANGED <<managerVars, via, base, version, updated, gone>>
        /\ step'[q] = IF via[q] = a /\ step[q] \in AtAdapter THEN "failed" ELSE step[q]
    BY <1>6 DEF AdapterRestarts
  <2> QED
    BY <2>1 DEF Tasked, TaskOf, Newer, managerVars, Kind, Document, Lookups, Placed, AtAdapter
<1> QED
  BY <1>1, <1>2, <1>3, <1>4, <1>5, <1>6, StepKinds

------------------------------------------------------------------------------
(* Tasks that nothing disturbs *)

\* Who answers, and which POSTs a new GET knows.
LEMMA OrderPreserved ==
  ASSUME TypeOK, Order, Next
  PROVE  Order'
<1>1. ASSUME NEW r \in Requests, Ask(r) \/ AskDelete(r)
      PROVE  Order'
  <2>1. /\ answer' = [answer EXCEPT ![r] = "open"] /\ answer[r] = "unasked"
        /\ before' = [before EXCEPT ![r] = IF Asked[r].kind = "get"
                        THEN {p \in Requests : Asked[p].kind = "post" /\ answer[p] = "ok"}
                        ELSE {}]
    BY <1>1 DEF Ask, AskDelete, Asks
  <2> SUFFICES ASSUME NEW q \in Requests, NEW p \in before'[q]
               PROVE  Asked[p].kind = "post" /\ answer'[p] = "ok"
    BY DEF Order
  <2>2. p \in Requests /\ Asked[p].kind = "post" /\ answer[p] = "ok"
    BY <2>1 DEF Order, TypeOK
  <2> QED
    BY <2>1, <2>2 DEF TypeOK
<1>2. CASE Answers
  BY <1>2 DEF Answers, Order, TypeOK
<1>3. CASE Ends
  BY <1>3 DEF Ends, Order, TypeOK
<1>4. CASE \/ Registers
           \/ \E t \in Tasks : ById(t) \/ BySemantic(t) \/ Looks(t) \/ Stores(t) \/ DeleteOne(t) \/ TaskFails(t)
           \/ \E a \in Adapters : AdapterRestarts(a)
  <2>1. UNCHANGED <<answer, before>>
    BY <1>4 DEF Registers, ById, BySemantic, Lookup, Looks, Stores, Update, DeleteOne, TaskFails,
       AdapterRestarts, managerVars
  <2> QED
    BY <2>1 DEF Order
<1> QED
  BY <1>1, <1>2, <1>3, <1>4, StepKinds

\* Steps that disturb every task.
LEMMA Disturbances ==
  ASSUME TypeOK, Next
  PROVE  \/ calm' = {}
         \/ \E r \in Requests : Ask(r) \/ AskDelete(r)
         \/ Answers
         \/ \E t \in Tasks : \/ ById(t) \/ BySemantic(t)
                             \/ Connect(t) \/ NoDatabase(t) \/ Connected(t) \/ ReadVersion(t)
                             \/ Store(t) \/ Conflict(t) \/ Fetch(t) \/ DeleteOne(t)
<1>1. ASSUME Restart \/ \E r \in Requests : AnswerOk(r) \/ AnswerError(r)
      PROVE  Answers
  BY <1>1 DEF Restart, AnswerOk, AnswerError, Answers, TypeOK
<1>2. ASSUME \/ Crash
             \/ \E n \in Positions : Written(n) \/ Remove(n)
             \/ \E o \in Offers : Register(o[1], o[2])
             \/ \E t \in Tasks : ConnectFails(t) \/ StoreUnanswered(t) \/ TaskFails(t)
             \/ \E a \in Adapters : AdapterRestarts(a)
      PROVE  calm' = {}
  BY <1>2 DEF Crash, Written, Remove, Register, Change, ConnectFails, StoreUnanswered, TaskFails,
     AdapterRestarts, Trouble
<1> QED
  BY <1>1, <1>2 DEF Next, Progress, Faults, Callers


\* What a calm task knows depends on its own state, the registry and its adapter.
LEMMA CalmKept ==
  ASSUME NEW q \in Tasks, CalmOf(q), TaskOf(q), torn' = torn, registry' = registry, gone' = gone,
         step'[q] = step[q], via'[q] = via[q],
         via[q] \in Adapters /\ connection[via[q]] = "open" => connection'[via[q]] = "open"
  PROVE  CalmOf(q)'
<1>1. \A m : Responsible(m)' = Responsible(m)
  BY DEF Responsible, Hits
<1>2. Hits("id", q[2].id)' = Hits("id", q[2].id)
  BY DEF Hits
<1> QED
  BY <1>1, <1>2 DEF CalmOf, Kind, TaskOf, Placed, AtAdapter

LEMMA CalmPreserved ==
  ASSUME TypeOK, TypeOK', Tasked, Calm, Next
  PROVE  Calm'
<1>1. CASE calm' = {}
  BY <1>1 DEF Calm
<1>2. ASSUME NEW r \in Requests, Ask(r) \/ AskDelete(r)
      PROVE  Calm'
  <2> SUFFICES ASSUME NEW q \in calm'
               PROVE  CalmOf(q)'
    BY DEF Calm
  <2>1. UNCHANGED <<adapterVars, registryVars>> /\ q \in Tasks
    BY <1>2, NewRequests DEF TypeOK
  <2>2. CASE q \in TasksOf(r)
    <3>1. q \notin calm
      BY <1>2, <2>2, NewRequests DEF Calm, CalmOf
    <3>2. Ask(r) /\ torn = {}
      BY <1>2, <3>1 DEF Ask, AskDelete
    <3>3. q \notin gone /\ step'[q] = "byId" /\ Kind(q) # "delete"
      BY <1>2, <2>2, <3>2, NewRequests DEF Ask, Starts, TasksOf, Kind, TypeOK
    <3> QED
      BY <2>1, <3>2, <3>3 DEF CalmOf, adapterVars, registryVars, Kind, Placed, AtAdapter
  <2>3. CASE q \notin TasksOf(r)
    <3>1. q \in calm
      BY <1>2, <2>3 DEF Ask, AskDelete
    <3> QED
      BY <1>2, <2>1, <2>3, <3>1, CalmKept, NewRequests DEF Calm, Tasked, adapterVars, registryVars
  <2> QED
    BY <2>2, <2>3
<1>3. CASE Answers
  BY <1>3, CalmKept DEF Answers, Calm, Tasked, TypeOK, adapterVars, registryVars
<1>4. ASSUME NEW t \in Tasks, \/ ById(t) \/ BySemantic(t)
                              \/ Connect(t) \/ NoDatabase(t) \/ Connected(t) \/ ReadVersion(t)
                              \/ Store(t) \/ Conflict(t) \/ Fetch(t) \/ DeleteOne(t),
             calm' # {}
      PROVE  Calm'
  <2>1. /\ UNCHANGED <<registry, torn, gone>> /\ calm' = calm
        /\ \A q \in Tasks \ {t} : step'[q] = step[q] /\ via'[q] = via[q]
    BY <1>4 DEF ById, BySemantic, Lookup, Connect, NoDatabase, Connected, ReadVersion, Store, Update, Conflict,
       Fetch, DeleteOne, Goes, registryVars, adapterVars, TypeOK
  <2>2. \A a \in Adapters : connection[a] = "open" => connection'[a] = "open"
    BY <1>4 DEF ById, BySemantic, Lookup, Connect, NoDatabase, Connected, ReadVersion, Store, Update, Conflict,
       Fetch, DeleteOne, adapterVars, TypeOK
  <2>3. ASSUME NEW q \in calm, q # t
        PROVE  CalmOf(q)'
    <3>1. q \in Tasks /\ CalmOf(q) /\ TaskOf(q)
      BY DEF Calm, Tasked, TypeOK
    <3> QED
      BY <2>1, <2>2, <2>3, <3>1, CalmKept
  <2>4. ASSUME t \in calm
        PROVE  CalmOf(t)'
    <3>1. CalmOf(t) /\ torn = {} /\ TaskOf(t)
      BY <2>4 DEF Calm, CalmOf, Tasked
    <3>2. \A m : Responsible(m)' = Responsible(m)
      BY <2>1 DEF Responsible, Hits
    <3>3. \A field, value : Hits(field, value)' = Hits(field, value)
      BY <2>1 DEF Hits
    <3>4. CASE ById(t)
      BY <2>1, <3>1, <3>2, <3>3, <3>4 DEF ById, Lookup, Goes, CalmOf, TypeOK, Kind, Placed, AtAdapter, Responsible
    <3>5. CASE BySemantic(t)
      BY <2>1, <3>1, <3>2, <3>3, <3>5 DEF BySemantic, Lookup, Goes, CalmOf, TypeOK, Kind, Placed, AtAdapter, Responsible
    <3>6. CASE \/ Connect(t) \/ NoDatabase(t) \/ Connected(t) \/ ReadVersion(t)
               \/ Store(t) \/ Conflict(t) \/ Fetch(t) \/ DeleteOne(t)
      <4>1. /\ via' = via /\ step[t] \in Placed /\ via[t] \in Adapters
            /\ step'[t] \in AtAdapter \cup {"done", "failed"}
        BY <3>1, <3>6 DEF Connect, NoDatabase, Connected, ReadVersion, Store, Update, Conflict,
           Fetch, DeleteOne, Goes, Served, TypeOK, Placed, AtAdapter, TaskOf
      <4>2. step'[t] \in {"read", "write", "done"} => connection'[via[t]] = "open"
        BY <2>2, <3>1, <3>6, <4>1 DEF Connect, NoDatabase, Connected, ReadVersion, Store, Update, Conflict,
           Fetch, DeleteOne, Goes, Served, TypeOK, CalmOf
      <4> QED
        BY <2>1, <3>1, <3>2, <4>1, <4>2 DEF CalmOf, Kind, AtAdapter, Placed
    <3> QED
      BY <1>4, <3>4, <3>5, <3>6
  <2> QED
    BY <2>1, <2>3, <2>4 DEF Calm
<1> QED
  BY <1>1, <1>2, <1>3, <1>4, Disturbances

\* What a POST stored and a GET looks for.
LEMMA ReadsBackPreserved ==
  ASSUME TypeOK, TypeOK', Tasked, Tasked', Calm, Calm', Order, ReadsBack, Next
  PROVE  ReadsBack'
<1> SUFFICES ASSUME NEW g \in calm', NEW p \in calm', Kind(g) = "get", p[1] \in before'[g[1]],
                    g[2] = p[2], step'[g] = "failed"
             PROVE  FALSE
  BY DEF ReadsBack, Kind
<1>1. g \in Tasks /\ p \in Tasks /\ g[1] \in Requests
  BY TaskFacts DEF TypeOK
<1>2. ASSUME NEW r \in Requests, Ask(r) \/ AskDelete(r)
      PROVE  FALSE
  <2>1. g \notin TasksOf(r) /\ step[g] = "failed" /\ g[1] # r
    BY <1>1, <1>2, NewRequests DEF TasksOf
  <2>2. p[1] \in before[g[1]]
    BY <1>1, <1>2, <2>1 DEF Ask, AskDelete, Asks, TypeOK
  <2>3. p \notin TasksOf(r)
    BY <1>1, <1>2, <2>2, NewRequests DEF Order, TasksOf
  <2>4. g \in calm /\ p \in calm
    BY <1>2, <2>1, <2>3 DEF Ask, AskDelete
  <2> QED
    BY <2>1, <2>2, <2>4 DEF ReadsBack
<1>3. CASE Answers
  BY <1>3 DEF Answers, ReadsBack
<1>4. ASSUME NEW t \in Tasks, \/ ById(t) \/ BySemantic(t)
                              \/ Connect(t) \/ NoDatabase(t) \/ Connected(t) \/ ReadVersion(t)
                              \/ Store(t) \/ Conflict(t) \/ Fetch(t) \/ DeleteOne(t)
      PROVE  FALSE
  <2>1. /\ g \in calm /\ p \in calm /\ p[1] \in before[g[1]]
        /\ \A q \in Tasks \ {t} : step'[q] = step[q]
    BY <1>4 DEF ById, BySemantic, Lookup, Connect, NoDatabase, Connected, ReadVersion, Store, Update, Conflict,
       Fetch, DeleteOne, Goes, managerVars, TypeOK
  <2>2. step[g] # "failed"
    BY <2>1 DEF ReadsBack
  <2>3. t = g
    BY <1>1, <2>1, <2>2
  <2>4. CalmOf(g) /\ CalmOf(p) /\ TaskOf(p) /\ TaskOf(g) /\ Newer(p)
    BY <1>1, <2>1 DEF Calm, Tasked
  <2>5. Kind(p) = "post" /\ answer[p[1]] = "ok"
    BY <1>1, <2>1 DEF Order, Kind
  <2>6. step[p] = "done" /\ p \in updated \ gone
    BY <2>4, <2>5 DEF TaskOf, CalmOf
  <2>7. via[p] = Responsible(g[2]) /\ via[p] \in Adapters /\ connection[via[p]] = "open"
    BY <2>4, <2>6 DEF CalmOf, TaskOf, Placed
  <2>8. version[Document(p)] > 0
    <3>1. version[Document(p)] \in Nat /\ base[p] \in Nat
      BY <1>1, <2>4, <2>5, <2>6, DocumentFacts DEF TypeOK
    <3> QED
      BY <2>4, <2>6, <3>1 DEF Newer
  <2>9. Responsible(g[2]) # None /\ torn = {}
    BY <2>4, <2>7, SubmodelsAssumption DEF CalmOf
  <2>10. CASE ById(t)
    BY <1>1, <2>3, <2>9, <2>10 DEF ById, Lookup, Goes, Responsible, TypeOK
  <2>11. CASE BySemantic(t)
    BY <1>1, <2>3, <2>4, <2>9, <2>11 DEF BySemantic, Lookup, Goes, Responsible, TypeOK, CalmOf
  <2>12. CASE NoDatabase(t)
    BY <2>3, <2>4, <2>7, <2>12 DEF NoDatabase, CalmOf, Placed
  <2>13. CASE Fetch(t)
    <3>1. via[g] = via[p]
      BY <2>3, <2>4, <2>7, <2>13 DEF Fetch, Served, CalmOf, Placed, AtAdapter
    <3>2. Document(g) = Document(p)
      BY <3>1 DEF Document
    <3> QED
      BY <1>1, <2>3, <2>8, <2>13, <3>2 DEF Fetch, Goes, TypeOK
  <2>14. CASE Connect(t) \/ Connected(t) \/ ReadVersion(t) \/ Store(t) \/ Conflict(t) \/ DeleteOne(t)
    <3>1. Kind(g) # "post" /\ Kind(g) # "delete" /\ step[g] # "write"
      BY <2>4 DEF TaskOf
    <3> QED
      BY <1>1, <2>3, <2>14, <3>1 DEF Connect, Connected, ReadVersion, Store, Update, Conflict, DeleteOne,
         Goes, TypeOK
  <2> QED
    BY <1>4, <2>10, <2>11, <2>12, <2>13, <2>14
<1> QED
  BY <1>2, <1>3, <1>4, Disturbances

------------------------------------------------------------------------------
(* The invariant *)

LEMMA StepPreserves ==
  ASSUME Inv, Next
  PROVE  Inv'
<1>1. TypeOK' /\ Order'
  BY TypesPreserved, OrderPreserved DEF Inv
<1>2. Tasked'
  BY <1>1, TaskedPreserved DEF Inv
<1>3. Calm'
  BY <1>1, CalmPreserved DEF Inv
<1> QED
  BY <1>1, <1>2, <1>3, ReadsBackPreserved DEF Inv

LEMMA StutterPreserves == Inv /\ UNCHANGED vars => Inv'
<1> SUFFICES ASSUME Inv, UNCHANGED vars
             PROVE  Inv'
  OBVIOUS
<1>1. TypeOK' /\ Order' /\ ReadsBack'
  BY DEF Inv, vars, managerVars, adapterVars, registryVars, TypeOK, Order, ReadsBack, Kind
<1>2. Tasked'
  BY DEF Inv, vars, managerVars, adapterVars, registryVars, Tasked, TaskOf, Newer, Kind, Document
<1>3. Calm'
  BY CalmKept DEF Inv, vars, managerVars, adapterVars, registryVars, Calm, Tasked, TypeOK
<1> QED
  BY <1>1, <1>2, <1>3 DEF Inv

LEMMA InitEstablishes == Init => Inv
<1> SUFFICES ASSUME Init
             PROVE  Inv
  OBVIOUS
<1>1. TypeOK
  BY SubmodelsAssumption DEF Init, TypeOK
<1>2. Tasked
  BY TaskFacts DEF Init, Tasked, TaskOf, Newer, Placed, AtAdapter, Lookups
<1> QED
  BY <1>1, <1>2 DEF Init, Inv, Calm, Order, ReadsBack

------------------------------------------------------------------------------
(* Theorems *)

\* The invariant holds of any requests to any adapters, whatever fails.
THEOREM InvHolds == Spec => []Inv
<1>1. Inv /\ [Next]_vars => Inv'
  BY StepPreserves, StutterPreserves
<1> QED
  BY <1>1, InitEstablishes, PTL DEF Spec

\* The registry, the tasks and the documents keep their types.
THEOREM TypesHold == Spec => []TypeOK
<1>1. Inv => TypeOK
  BY DEF Inv
<1> QED
  BY <1>1, InvHolds, PTL

\* A POST answered with 200 (saveSubmodels in the data manager) has stored all
\* its submodels, whatever other tasks, late ones among them, have done since.
THEOREM AnswerMeansStoredHolds == Spec => []AnswerMeansStored
<1>1. Inv => AnswerMeansStored
  BY TaskFacts DEF Inv, Tasked, TaskOf, Newer, AnswerMeansStored
<1> QED
  BY <1>1, InvHolds, PTL

\* What was stored is found again by the same ids while nothing is disturbed: the
\* two lookups of the adapter registry lead a GET where they led the POST.
THEOREM ReadsBackHolds == Spec => []ReadsBack
<1>1. Inv => ReadsBack
  BY DEF Inv
<1> QED
  BY <1>1, InvHolds, PTL

------------------------------------------------------------------------------
(* Every document is a DeletableRecord *)

\* The updates of a document since it was last deleted.
StoredIn(a, i) == {[writer |-> t, base |-> base[t]] : t \in {u \in updated \ gone : Document(u) = <<a, i>>}}

\* A step of the system on a document is a step of its record or none.
RecordStep(a, i) ==
  \/ UNCHANGED version[<<a, i>>] /\ StoredIn(a, i)' = StoredIn(a, i)
  \/ version'[<<a, i>>] = 0 /\ StoredIn(a, i)' = {}
  \/ \E t \in Tasks :
       LET b == version'[<<a, i>>] - 1
       IN  /\ b \in Nat /\ version[<<a, i>>] \in {0, b}
           /\ \A s \in StoredIn(a, i) : s.base < b
           /\ StoredIn(a, i)' = StoredIn(a, i) \cup {[writer |-> t, base |-> b]}

LEMMA RecordSteps ==
  ASSUME NEW a \in Adapters, NEW i \in Ids, RecordStep(a, i)
  PROVE  Record(a, i)!DeletableNext \/ UNCHANGED Record(a, i)!vars
<1>1. CASE UNCHANGED version[<<a, i>>] /\ StoredIn(a, i)' = StoredIn(a, i)
  BY <1>1 DEF Record!vars, StoredIn
<1>2. CASE version'[<<a, i>>] = 0 /\ StoredIn(a, i)' = {}
  BY <1>2 DEF Record!DeletableNext, Record!Delete, StoredIn
<1> QED
  BY <1>1, <1>2 DEF RecordStep, Record!DeletableNext, Record!Next, Record!Store, StoredIn

\* Updates keep their document and the version they replaced.
LEMMA StoredKept ==
  ASSUME NEW a \in Adapters, NEW i \in Ids, version' = version, updated' = updated, gone' = gone,
         \A u \in updated : via'[u] = via[u] /\ base'[u] = base[u]
  PROVE  RecordStep(a, i)
<1>1. \A u \in updated : Document(u)' = Document(u) /\ base'[u] = base[u]
  BY DEF Document
<1>2. {u \in updated' \ gone' : Document(u)' = <<a, i>>} = {u \in updated \ gone : Document(u) = <<a, i>>}
  BY <1>1
<1>3. StoredIn(a, i)' = StoredIn(a, i)
  BY <1>1, <1>2 DEF StoredIn
<1> QED
  BY <1>3 DEF RecordStep

LEMMA EveryStepIsARecordStep ==
  ASSUME TypeOK, TypeOK', Tasked, Next, NEW a \in Adapters, NEW i \in Ids
  PROVE  RecordStep(a, i)
<1>1. \A u \in updated : u \in Tasks /\ step[u] \in {"done", "failed"}
  BY DEF TypeOK, Tasked, TaskOf
<1>2. ASSUME NEW r \in Requests, Ask(r) \/ AskDelete(r)
      PROVE  RecordStep(a, i)
  <2>1. \A u \in updated : via'[u] = via[u]
    BY <1>1, <1>2, NewRequests
  <2> QED
    BY <1>2, <2>1, NewRequests, StoredKept DEF adapterVars
<1>3. CASE Answers \/ Ends \/ Registers
  BY <1>3, StoredKept DEF Answers, Ends, Registers, adapterVars
<1>4. ASSUME NEW t \in Tasks, ById(t) \/ BySemantic(t) \/ Looks(t) \/ TaskFails(t)
      PROVE  RecordStep(a, i)
  <2>1. t \notin updated
    BY <1>1, <1>4 DEF ById, BySemantic, Looks, TaskFails, Lookups, AtAdapter
  <2>2. /\ UNCHANGED <<version, updated, gone>>
        /\ \A u \in Tasks \ {t} : via'[u] = via[u] /\ base'[u] = base[u]
    BY <1>4 DEF ById, BySemantic, Lookup, Looks, TaskFails, adapterVars, TypeOK
  <2> QED
    BY <1>1, <2>1, <2>2, StoredKept
<1>5. ASSUME NEW b \in Adapters, AdapterRestarts(b)
      PROVE  RecordStep(a, i)
  BY <1>5, StoredKept DEF AdapterRestarts
<1>6. ASSUME NEW t \in Tasks, Stores(t)
      PROVE  RecordStep(a, i)
  <2>1. /\ step[t] = "write" /\ t \notin updated /\ t \notin gone
        /\ via' = via /\ base' = base /\ gone' = gone /\ updated' = updated \cup {t}
        /\ version[Document(t)] \in {0, base[t]}
        /\ version' = [version EXCEPT ![Document(t)] = base[t] + 1]
    BY <1>1, <1>6 DEF Stores, Update, TypeOK
  <2>2. Document(t) \in Adapters \X Ids /\ base[t] \in Nat
    BY <2>1, DocumentFacts DEF Tasked, TaskOf, Placed, AtAdapter, TypeOK
  <2>3. \A u : Document(u)' = Document(u)
    BY <2>1 DEF Document
  <2>4. CASE Document(t) = <<a, i>>
    <3>1. version'[<<a, i>>] = base[t] + 1
      BY <2>1, <2>2, <2>4 DEF TypeOK
    <3>2. StoredIn(a, i)' = StoredIn(a, i) \cup {[writer |-> t, base |-> base[t]]}
      <4>1. updated' \ gone' = (updated \ gone) \cup {t}
        BY <2>1
      <4>2. {u \in updated' \ gone' : Document(u)' = <<a, i>>}
              = {u \in updated \ gone : Document(u) = <<a, i>>} \cup {t}
        BY <2>3, <2>4, <4>1
      <4> QED
        BY <2>1, <4>2 DEF StoredIn
    <3>3. ASSUME NEW s \in StoredIn(a, i)
          PROVE  s.base < base[t]
      <4>1. PICK u \in updated \ gone : Document(u) = <<a, i>> /\ s.base = base[u]
        BY DEF StoredIn
      <4>2. version[<<a, i>>] > base[u] /\ base[u] \in Nat
        BY <1>1, <4>1 DEF Tasked, Newer, TypeOK
      <4> QED
        BY <2>1, <2>2, <2>4, <4>1, <4>2
    <3>4. base[t] = version'[<<a, i>>] - 1
      BY <2>2, <3>1
    <3> QED
      BY <2>1, <2>2, <2>4, <3>2, <3>3, <3>4 DEF RecordStep
  <2>5. CASE Document(t) # <<a, i>>
    <3>1. version'[<<a, i>>] = version[<<a, i>>]
      BY <2>1, <2>5 DEF TypeOK
    <3>2. {u \in updated' \ gone' : Document(u)' = <<a, i>>} = {u \in updated \ gone : Document(u) = <<a, i>>}
      BY <2>1, <2>3, <2>5
    <3>3. StoredIn(a, i)' = StoredIn(a, i)
      BY <2>1, <3>2 DEF StoredIn
    <3> QED
      BY <3>1, <3>3 DEF RecordStep
  <2> QED
    BY <2>4, <2>5
<1>7. ASSUME NEW t \in Tasks, DeleteOne(t)
      PROVE  RecordStep(a, i)
  <2>1. UNCHANGED <<via, base, updated>>
    BY <1>7 DEF DeleteOne
  <2>2. CASE UNCHANGED <<version, gone>>
    BY <2>1, <2>2, StoredKept
  <2>3. CASE /\ version' = [version EXCEPT ![Document(t)] = 0]
             /\ gone' = gone \cup {u \in updated : Document(u) = Document(t)}
    <3>1. \A u : Document(u)' = Document(u)
      BY <2>1 DEF Document
    <3>2. CASE Document(t) = <<a, i>>
      <4>1. version'[<<a, i>>] = 0
        BY <2>3, <3>2 DEF TypeOK
      <4>2. {u \in updated' \ gone' : Document(u)' = <<a, i>>} = {}
        BY <2>1, <2>3, <3>1, <3>2
      <4> QED
        BY <4>1, <4>2 DEF RecordStep, StoredIn
    <3>3. CASE Document(t) # <<a, i>>
      <4>1. version'[<<a, i>>] = version[<<a, i>>]
        BY <2>3, <3>3 DEF TypeOK
      <4>2. {u \in updated' \ gone' : Document(u)' = <<a, i>>} = {u \in updated \ gone : Document(u) = <<a, i>>}
        BY <2>1, <2>3, <3>1, <3>3
      <4>3. StoredIn(a, i)' = StoredIn(a, i)
        BY <2>1, <4>2 DEF StoredIn
      <4> QED
        BY <4>1, <4>3 DEF RecordStep
    <3> QED
      BY <3>2, <3>3
  <2> QED
    BY <1>7, <2>2, <2>3 DEF DeleteOne
<1> QED
  BY <1>2, <1>3, <1>4, <1>5, <1>6, <1>7, StepKinds

\* The steps of any number of data managers' tasks are, for every document of every
\* adapter, updates that each replace another version, or deletions.
THEOREM DocumentsAreRecords == Spec => ImplementsDeletableRecord
<1> DEFINE RecordNext == \A a \in Adapters, i \in Ids : Record(a, i)!DeletableNext \/ UNCHANGED Record(a, i)!vars
<1>1. Init => \A a \in Adapters, i \in Ids : Record(a, i)!Init
  BY DEF Init, Record!Init
<1>2. Inv /\ Inv' /\ [Next]_vars => [RecordNext]_vars
  BY EveryStepIsARecordStep, RecordSteps DEF Inv
<1> QED
  BY <1>1, <1>2, InvHolds, PTL DEF Spec, ImplementsDeletableRecord

------------------------------------------------------------------------------
(* What somebody waits for is under way *)

\* A request that is open has all its tasks at work or at an end, and for a POST
\* or GET the data manager, who is to answer, runs; nobody looks up an adapter for it
\* while it does not.
Attended ==
  /\ \A r \in Requests : answer[r] = "open" =>
       /\ Asked[r].kind # "delete" => up
       /\ \A t \in TasksOf(r) : step[t] # "idle"
  /\ \A t \in Tasks : step[t] \in Lookups => up

\* An adapter that is marked as connected before it is has one task that connects.
Connecting ==
  /\ \A t \in Tasks : step[t] = "connect" => connection[via[t]] = "connecting"
  /\ \A t, u \in Tasks : step[t] = "connect" /\ step[u] = "connect" /\ via[t] = via[u] => t = u
  /\ \A a \in Adapters : connection[a] = "connecting" => \E t \in Tasks : step[t] = "connect" /\ via[t] = a

\* A connection is reset only after trouble.
ResetsHaveCauses == (\E r \in Requests : answer[r] = "reset") => troubles > 0

NobodyWaitsInVain == Attended /\ Connecting /\ ResetsHaveCauses

\* Nobody lets go of a request but who answers it, and the data manager when it ends.
LEMMA AttendedKept ==
  ASSUME TypeOK, Tasked, Attended, Next
  PROVE  Attended'
<1>1. ASSUME NEW r \in Requests, Ask(r) \/ AskDelete(r)
      PROVE  Attended'
  <2>1. /\ up' = up
        /\ Asked[r].kind # "delete" => up
        /\ \A t \in TasksOf(r) : Kind(t) = Asked[r].kind
    BY <1>1 DEF Ask, AskDelete, Asks, TasksOf, Kind
  <2>2. ASSUME NEW q \in Requests, answer'[q] = "open"
        PROVE  /\ Asked[q].kind # "delete" => up'
               /\ \A t \in TasksOf(q) : step'[t] # "idle"
    <3>1. CASE q = r
      BY <1>1, <2>1, <3>1, NewRequests
    <3>2. CASE q # r
      <4>1. answer[q] = "open" /\ \A t \in TasksOf(q) : t \in Tasks \ TasksOf(r)
        BY <1>1, <2>2, <3>2, NewRequests DEF TasksOf, TypeOK
      <4> QED
        BY <1>1, <2>1, <4>1, NewRequests DEF Attended
    <3> QED
      BY <3>1, <3>2
  <2>3. ASSUME NEW t \in Tasks, step'[t] \in Lookups
        PROVE  up'
    <3>1. CASE t \in TasksOf(r)
      BY <1>1, <2>1, <2>3, <3>1, NewRequests DEF Lookups
    <3>2. CASE t \notin TasksOf(r)
      BY <1>1, <2>1, <2>3, <3>2, NewRequests DEF Attended
    <3> QED
      BY <3>1, <3>2
  <2> QED
    BY <2>2, <2>3 DEF Attended, TasksOf
<1>2. CASE Answers
  <2>1. \A r \in Requests : answer'[r] = "open" => answer[r] = "open"
    BY <1>2 DEF Answers
  <2> QED
    BY <1>2, <2>1 DEF Answers, Attended, TasksOf
<1>3. CASE Ends
  <2>1. \A r \in Requests : answer'[r] = "open" => answer[r] = "open" /\ Asked[r].kind = "delete"
    BY <1>3 DEF Ends, TypeOK
  <2>2. \A t \in Tasks : /\ step'[t] \notin Lookups
                         /\ step[t] # "idle" => step'[t] # "idle"
    BY <1>3 DEF Ends, TypeOK, Lookups
  <2>3. \A r \in Requests : answer'[r] = "open" =>
          /\ Asked[r].kind # "delete" => up'
          /\ \A t \in TasksOf(r) : step'[t] # "idle"
    BY <2>1, <2>2 DEF Attended, TasksOf
  <2>4. \A t \in Tasks : step'[t] \in Lookups => up'
    BY <2>2
  <2> QED
    BY <2>3, <2>4 DEF Attended, TasksOf
<1>4. CASE Registers
  BY <1>4 DEF Registers, managerVars, Attended, TasksOf
<1>5. ASSUME NEW t \in Tasks,
             ById(t) \/ BySemantic(t) \/ Looks(t) \/ Stores(t) \/ DeleteOne(t) \/ TaskFails(t)
      PROVE  Attended'
  <2>1. /\ UNCHANGED <<up, answer>>
        /\ step'[t] # "idle" /\ (step'[t] \in Lookups => step[t] \in Lookups)
        /\ \A u \in Tasks : u # t => step'[u] = step[u]
    <3>1. CASE ById(t) \/ BySemantic(t)
      BY <3>1 DEF ById, BySemantic, Lookup, Goes, managerVars, Lookups, TypeOK
    <3>2. CASE Looks(t)
      BY <3>2 DEF Looks, Goes, managerVars, Lookups, AtAdapter, TypeOK
    <3>3. CASE Stores(t) \/ DeleteOne(t) \/ TaskFails(t)
      BY <3>3 DEF Stores, Update, DeleteOne, TaskFails, Goes, managerVars, Lookups, TypeOK
    <3> QED
      BY <1>5, <3>1, <3>2, <3>3
  <2> QED
    BY <2>1 DEF Attended, TasksOf
<1>6. ASSUME NEW a \in Adapters, AdapterRestarts(a)
      PROVE  Attended'
  <2>1. /\ UNCHANGED <<up, answer>>
        /\ \A t \in Tasks : step'[t] = step[t] \/ step'[t] = "failed"
    BY <1>6 DEF AdapterRestarts, managerVars
  <2> QED
    BY <2>1 DEF Attended, TasksOf, Lookups
<1> QED
  BY <1>1, <1>2, <1>3, <1>4, <1>5, <1>6, StepKinds

\* The flag of an adapter goes with the task that set it.
LEMMA ConnectingKept ==
  ASSUME TypeOK, Tasked, Connecting, Next
  PROVE  Connecting'
<1> DEFINE Same == \A t \in Tasks : /\ step'[t] = "connect" <=> step[t] = "connect"
                                    /\ step[t] = "connect" => via'[t] = via[t]
<1>1. ASSUME Same, connection' = connection
      PROVE  Connecting'
  <2>1. \A t \in Tasks : step'[t] = "connect" => connection'[via'[t]] = "connecting"
    BY <1>1 DEF Connecting
  <2>2. \A t, u \in Tasks : step'[t] = "connect" /\ step'[u] = "connect" /\ via'[t] = via'[u] => t = u
    BY <1>1 DEF Connecting
  <2>3. ASSUME NEW a \in Adapters, connection'[a] = "connecting"
        PROVE  \E t \in Tasks : step'[t] = "connect" /\ via'[t] = a
    <3>1. PICK t \in Tasks : step[t] = "connect" /\ via[t] = a
      BY <1>1, <2>3 DEF Connecting
    <3> QED
      BY <1>1, <3>1
  <2> QED
    BY <2>1, <2>2, <2>3 DEF Connecting
<1>2. ASSUME NEW r \in Requests, Ask(r) \/ AskDelete(r)
      PROVE  Connecting'
  <2>1. Same
    <3>1. TAKE t \in Tasks
    <3>2. CASE t \in TasksOf(r)
      BY <1>2, <3>2, NewRequests
    <3>3. CASE t \notin TasksOf(r)
      BY <1>2, <3>3, NewRequests
    <3> QED
      BY <3>2, <3>3
  <2> QED
    BY <1>1, <1>2, <2>1, NewRequests DEF adapterVars
<1>3. CASE Answers \/ Registers \/ Crash
  <2>0. Answers \/ Registers \/ Ends
    BY <1>3 DEF Crash
  <2>1. Same /\ connection' = connection
    BY <2>0 DEF Answers, Ends, Registers, adapterVars, Lookups, TypeOK
  <2> QED
    BY <1>1, <2>1
<1>4. ASSUME NEW t \in Tasks,
             \/ ById(t) \/ BySemantic(t) \/ NoDatabase(t) \/ ReadVersion(t) \/ Store(t)
             \/ StoreUnanswered(t) \/ Conflict(t) \/ Fetch(t) \/ DeleteOne(t) \/ TaskFails(t)
      PROVE  Connecting'
  <2>1. /\ step[t] # "connect" /\ step'[t] # "connect" /\ connection' = connection
        /\ \A u \in Tasks : u # t => step'[u] = step[u] /\ via'[u] = via[u]
    <3>1. CASE ById(t) \/ BySemantic(t)
      BY <3>1 DEF ById, BySemantic, Lookup, Goes, adapterVars, TypeOK
    <3>2. CASE NoDatabase(t) \/ ReadVersion(t) \/ Fetch(t) \/ DeleteOne(t)
      BY <3>2 DEF NoDatabase, ReadVersion, Fetch, DeleteOne, Served, Goes, adapterVars, TypeOK
    <3>3. CASE Store(t) \/ StoreUnanswered(t) \/ Conflict(t) \/ TaskFails(t)
      BY <3>3 DEF Store, StoreUnanswered, Update, Conflict, TaskFails, Goes, Lookups, adapterVars, TypeOK
    <3> QED
      BY <1>4, <3>1, <3>2, <3>3
  <2>2. Same
    BY <2>1
  <2> QED
    BY <1>1, <2>1, <2>2
<1>5. ASSUME NEW t \in Tasks, Connect(t) \/ Connected(t) \/ ConnectFails(t)
      PROVE  Connecting'
  <2>1. /\ via' = via /\ via[t] \in Adapters
        /\ \A u \in Tasks : u # t => step'[u] = step[u]
    <3>1. step[t] \in Placed
      BY <1>5 DEF Connect, Connected, ConnectFails, Placed, AtAdapter
    <3> QED
      BY <1>5, <3>1 DEF Connect, Connected, ConnectFails, Goes, Tasked, TaskOf, TypeOK
  <2>2. CASE Connect(t)
    <3>1. /\ connection[via[t]] = "none" /\ step'[t] = "connect"
          /\ connection' = [connection EXCEPT ![via[t]] = "connecting"]
      BY <2>2 DEF Connect, Goes, TypeOK
    <3>2. \A u \in Tasks : step[u] = "connect" => via[u] # via[t]
      BY <3>1 DEF Connecting
    <3>3. /\ connection'[via[t]] = "connecting"
          /\ \A a \in Adapters : a # via[t] => connection'[a] = connection[a]
      BY <2>1, <3>1 DEF TypeOK
    <3>4. \A u \in Tasks : step'[u] = "connect" => connection'[via'[u]] = "connecting"
      <4>1. TAKE u \in Tasks
      <4>2. CASE u = t
        BY <2>1, <3>3, <4>2
      <4>3. CASE u # t
        <5>1. HAVE step'[u] = "connect"
        <5>2. step[u] = "connect" /\ via[u] # via[t] /\ via[u] \in Adapters
          BY <2>1, <3>2, <4>3, <5>1 DEF Tasked, TaskOf, Placed, AtAdapter
        <5> QED
          BY <2>1, <3>3, <5>2 DEF Connecting
      <4> QED
        BY <4>2, <4>3
    <3>5. \A u, v \in Tasks : step'[u] = "connect" /\ step'[v] = "connect" /\ via'[u] = via'[v] => u = v
      BY <2>1, <3>2 DEF Connecting
    <3>6. \A a \in Adapters : connection'[a] = "connecting" =>
            \E u \in Tasks : step'[u] = "connect" /\ via'[u] = a
      BY <2>1, <3>1, <3>3 DEF Connecting
    <3> QED
      BY <3>4, <3>5, <3>6 DEF Connecting
  <2>3. CASE Connected(t) \/ ConnectFails(t)
    <3>1. /\ step[t] = "connect" /\ step'[t] # "connect"
          /\ connection'[via[t]] # "connecting"
          /\ \A a \in Adapters : a # via[t] => connection'[a] = connection[a]
      BY <2>1, <2>3 DEF Connected, ConnectFails, Goes, TypeOK
    <3>2. \A u \in Tasks : step'[u] = "connect" =>
            u # t /\ step[u] = "connect" /\ via[u] # via[t] /\ via[u] \in Adapters
      BY <2>1, <3>1 DEF Connecting, Tasked, TaskOf, Placed, AtAdapter
    <3>3. \A a \in Adapters : connection'[a] = "connecting" =>
            \E u \in Tasks : step'[u] = "connect" /\ via'[u] = a
      <4>1. TAKE a \in Adapters
      <4>2. HAVE connection'[a] = "connecting"
      <4>3. a # via[t] /\ connection[a] = "connecting"
        BY <3>1, <4>2
      <4>4. PICK u \in Tasks : step[u] = "connect" /\ via[u] = a
        BY <4>3 DEF Connecting
      <4> QED
        BY <2>1, <4>3, <4>4
    <3> QED
      BY <2>1, <3>1, <3>2, <3>3 DEF Connecting
  <2> QED
    BY <1>5, <2>2, <2>3
<1>6. ASSUME NEW a \in Adapters, AdapterRestarts(a)
      PROVE  Connecting'
  <2>1. /\ via' = via /\ connection' = [connection EXCEPT ![a] = "none"]
        /\ \A t \in Tasks : step'[t] = "connect" <=> step[t] = "connect" /\ via[t] # a
    BY <1>6 DEF AdapterRestarts, AtAdapter
  <2>2. \A t \in Tasks : step[t] = "connect" => via[t] \in Adapters
    BY DEF Tasked, TaskOf, Placed, AtAdapter
  <2>3. connection'[a] # "connecting" /\ \A b \in Adapters : b # a => connection'[b] = connection[b]
    BY <2>1 DEF TypeOK
  <2> QED
    BY <2>1, <2>2, <2>3 DEF Connecting
<1> QED
  BY <1>2, <1>3, <1>4, <1>5, <1>6, Steps

\* Trouble is counted.
LEMMA TroubleCounts ==
  ASSUME Next
  PROVE  troubles' = troubles \/ troubles' = troubles + 1
BY DEF Next, Progress, Faults, Callers, Restart, AnswerOk, AnswerError, Written,
       ById, BySemantic, Lookup, Connect, NoDatabase, Connected, ReadVersion, Store, Conflict,
       Fetch, DeleteOne, Crash, ConnectFails, StoreUnanswered, TaskFails, AdapterRestarts,
       Ask, AskDelete, Asks, Register, Remove, Change, Trouble

\* Only a crash resets connections; the failure of a request does not.
LEMMA ResetsKept ==
  ASSUME TypeOK, TypeOK', Tasked, ResetsHaveCauses, Next
  PROVE  ResetsHaveCauses'
<1>1. troubles > 0 => troubles' > 0
  BY TroubleCounts DEF TypeOK
<1>2. CASE Crash
  <2>1. troubles' > 0
    BY <1>2 DEF Crash, Trouble, TypeOK
  <2> QED
    BY <2>1 DEF ResetsHaveCauses
<1>3. CASE ~Crash
  <2>1. SUFFICES ASSUME NEW r \in Requests, answer'[r] = "reset", answer[r] # "reset"
                 PROVE  FALSE
    BY <1>1 DEF ResetsHaveCauses
  <2>2. ASSUME NEW q \in Requests, Ask(q) \/ AskDelete(q)
        PROVE  FALSE
    BY <2>1, <2>2, NewRequests DEF TypeOK
  <2>3. CASE Answers \/ Registers \/ \E a \in Adapters : AdapterRestarts(a)
    BY <2>1, <2>3 DEF Answers, Registers, AdapterRestarts, managerVars
  <2>4. ASSUME NEW t \in Tasks,
               \/ ById(t) \/ BySemantic(t) \/ Connect(t) \/ NoDatabase(t) \/ Connected(t)
               \/ ConnectFails(t) \/ ReadVersion(t) \/ Store(t) \/ StoreUnanswered(t)
               \/ Conflict(t) \/ Fetch(t) \/ DeleteOne(t) \/ TaskFails(t)
        PROVE  FALSE
    <3>1. UNCHANGED managerVars
      BY <2>4 DEF ById, BySemantic, Lookup, Connect, NoDatabase, Connected, ConnectFails, ReadVersion,
         Store, StoreUnanswered, Update, Conflict, Fetch, DeleteOne, TaskFails
    <3> QED
      BY <2>1, <3>1 DEF managerVars
  <2> QED
    BY <1>3, <2>2, <2>3, <2>4, Steps
<1> QED
  BY <1>2, <1>3

\* Whoever waits for an answer, a connection or a lookup waits for somebody who is
\* at work on it: no flag, task or request is left behind by what ends or fails, and
\* no request that fails, a GET whose handler catches nothing included, ends the data
\* manager for the others.
\* With fairness this is why every request is answered (EveryRequestAnswered).
THEOREM NobodyWaitsInVainHolds == Spec => []NobodyWaitsInVain
<1>1. Init => NobodyWaitsInVain
  <2>1. ASSUME Init
        PROVE  /\ \A r \in Requests : answer[r] = "unasked"
               /\ \A t \in Tasks : step[t] = "idle"
               /\ \A a \in Adapters : connection[a] = "none"
    BY <2>1 DEF Init
  <2> QED
    BY <2>1 DEF NobodyWaitsInVain, Attended, Connecting, ResetsHaveCauses, Lookups
<1>2. Inv /\ Inv' /\ NobodyWaitsInVain /\ [Next]_vars => NobodyWaitsInVain'
  <2>1. CASE Inv /\ Inv' /\ NobodyWaitsInVain /\ Next
    BY <2>1, AttendedKept, ConnectingKept, ResetsKept DEF Inv, NobodyWaitsInVain
  <2>2. CASE NobodyWaitsInVain /\ UNCHANGED vars
    BY <2>2 DEF vars, managerVars, adapterVars, registryVars, NobodyWaitsInVain, Attended, Connecting,
       ResetsHaveCauses, TasksOf, Kind
  <2> QED
    BY <2>1, <2>2
<1> QED
  BY <1>1, <1>2, InvHolds, PTL DEF Spec

================================================================================
