------------------------ MODULE EndpointRegistryProofs ------------------------
(***************************************************************************)
(* Proofs about module EndpointRegistry, for any number of requests on any *)
(* tables.  An action changes the state of its own request and, if it      *)
(* writes, the tables in one of five ways; what a request has read stays   *)
(* true of the tables only as far as Origins and SnapshotsWhole say.       *)
(***************************************************************************)
EXTENDS EndpointRegistry, TLAPS

AasWrites == {"AdminPutAas", "PutAas", "PatchAas"}
ProtocolWrites == {"AdminPutProtocol", "PutProtocol", "PatchProtocol"}
RoleWrites == {"PatchRole", "DeleteRoleAas"}

\* The operations that have a statement of a label.
Operations(label) ==
  CASE label \in {"asset", "assetWrite"} -> {"AdminPutAas"}
    [] label = "find" -> {"PutAas", "PatchAas", "PutProtocol", "PatchProtocol"}
    [] label = "deleteRoles" -> {"AdminPutProtocol", "PatchProtocol"}
    [] label \in {"save", "write"} -> AasWrites \cup ProtocolWrites \cup RoleWrites
    [] label = "delete" -> {"DeleteAas", "DeleteProtocol"}
    [] label = "read" -> {"GetAas", "GetProtocol", "ListAas", "ListProtocols"}
    [] label = "findRole" -> RoleWrites \cup {"GetRoleAas"}
    [] label = "findAas" -> {"PatchRole", "GetRoleAas"}
    [] label = "list" -> {"ListProtocols"}
    [] label = "connect" -> AasWrites \cup ProtocolWrites \cup RoleWrites
         \cup {"DeleteAas", "DeleteProtocol", "GetAas", "GetProtocol", "ListAas", "ListProtocols", "GetRoleAas"}

\* A request that has begun to write in two steps and is not over.
Halfway(r) == /\ pc[r] \in {"save", "write"}
              /\ Op(r) \in {"AdminPutAas", "AdminPutProtocol", "PatchProtocol"}

\* Where a request is and what it has done so far.
ControlOf(r) ==
  /\ pc[r] # "idle" => input[r] \in Inputs
  /\ pc[r] \notin {"idle", "done"} => Op(r) \in Operations(pc[r])
  /\ pc[r] # "done" => answer[r] = "none"
  /\ r \in dirty => Halfway(r) \/ pc[r] = "done"

\* A request that works on a role has found it; what it wants to save are AASs.
HasRole(r) == pc[r] \in {"findAas", "save", "write"} /\ Op(r) \in RoleWrites
LocalsOf(r) == HasRole(r) => found[r] \in RoleIds /\ ids[r] \subseteq AasIds

Control == \A r \in Requests : ControlOf(r) /\ LocalsOf(r)

\* A role, in its table or only remembered, was inserted by the initializer or by
\* a request that is over; it belongs to the protocol of that request or to none.
Done(id) == id[1] \in Requests => pc[id[1]] = "done" /\ Op(id[1]) \in ProtocolWrites
OfProtocol(id, p) == id[1] \in Requests => p = input[id[1]].protocol

Saves(r) == pc[r] = "write" /\ Op(r) \in ProtocolWrites

Origins ==
  /\ \A x \in roles : Done(x.id) /\ (x.protocol # NoRow => OfProtocol(x.id, x.protocol))
  /\ \A r \in Requests :
       /\ HasRole(r) => Done(found[r])
       /\ Saves(r) => \A id \in snap[r].roles : Done(id) /\ OfProtocol(id, input[r].protocol)

\* Of the roles one request inserted that still belong to the protocol, a save
\* has seen all or none.
Inserted(q, p) == {x \in RolesOf(p) : x.id[1] = q}
SnapshotsWhole ==
  \A r, q \in Requests :
    Saves(r) =>
      \/ \A x \in Inserted(q, input[r].protocol) : x.id \in snap[r].roles
      \/ \A x \in Inserted(q, input[r].protocol) : x.id \notin snap[r].roles

\* What stayed in a role since a request arrived, the request has seen there.
SteadyOf(r) ==
  /\ steady[r] \subseteq members
  /\ HasRole(r) /\ pc[r] = "write" =>
       \A m \in steady[r] : m[1] = found[r] => m[2] \in snap[r].members
  /\ HasRole(r) /\ Op(r) = "PatchRole" => ids[r] = input[r].members
  /\ HasRole(r) /\ Op(r) = "DeleteRoleAas" =>
       \A m \in steady[r] : m[1] = found[r] => (m[2] \in ids[r] <=> m[2] # input[r].aas)
Steadiness == \A r \in Requests : SteadyOf(r)

Inv ==
  /\ TypeOK /\ Control /\ Origins /\ SnapshotsWhole
  /\ WholeWrites /\ TracesOfFailure /\ ReferencesHold /\ StaleSaltNeedsPartialWrite /\ Steadiness

------------------------------------------------------------------------------
(* Inputs *)

\* What the fields of an input hold, by its operation.
LEMMA InputFacts ==
  ASSUME NEW i \in Inputs
  PROVE  /\ i.op \in AasWrites \cup {"DeleteAas", "GetAas"} => i.aas \in AasIds
         /\ i.op \in AasWrites => /\ i.asset \in Assets
                                  /\ DOMAIN i.endpoints \subseteq Addresses
         /\ i.op \in ProtocolWrites => /\ i.protocol \in Protocols
                                       /\ DOMAIN i.roles \subseteq RoleNames
                                       /\ \A n \in DOMAIN i.roles : i.roles[n] \subseteq AasIds
         /\ i.op \in RoleWrites => i.protocol \in Protocols /\ i.role \in RoleNames
         /\ i.op = "PatchRole" => i.members \subseteq AasIds
         /\ i.op \in {"DeleteProtocol", "GetProtocol", "GetRoleAas"} => i.protocol \in Protocols
<1> USE DEF AasWrites, ProtocolWrites, RoleWrites
<1>1. i \in Input
  BY RegistryAssumption
<1>2. CASE i \in AasWrite
  BY <1>2 DEF AasWrite
<1>3. CASE i \in ProtocolWrite
  BY <1>3 DEF ProtocolWrite
<1>4. CASE i \in AasRead \cup ProtocolRead
  BY <1>4 DEF AasRead, ProtocolRead
<1>5. CASE i \in RoleWrite \cup RoleDelete \cup RoleRead
  BY <1>5 DEF RoleWrite, RoleDelete, RoleRead
<1>6. CASE i \in Lists \cup Invalid
  BY <1>6 DEF Lists, Invalid
<1> QED
  BY <1>1, <1>2, <1>3, <1>4, <1>5, <1>6 DEF Input

\* The first statement of an operation is one of its statements.
LEMMA FirstStatementFacts ==
  ASSUME NEW i \in Inputs, i.op # "Invalid"
  PROVE  /\ i.op \in Operations("connect")
         /\ FirstStatement(i.op) \in Labels \ {"idle", "connect", "save", "write", "findAas", "done"}
         /\ i.op \in Operations(FirstStatement(i.op))
<1>1. i.op \in AasWrites \cup ProtocolWrites \cup RoleWrites
         \cup {"DeleteAas", "DeleteProtocol", "GetAas", "GetProtocol", "ListAas", "ListProtocols", "GetRoleAas"}
  <2>1. i \in Input
    BY RegistryAssumption
  <2> QED
    BY <2>1 DEF Input, AasWrite, AasRead, ProtocolWrite, ProtocolRead, RoleWrite, RoleDelete, RoleRead,
       Lists, Invalid, AasWrites, ProtocolWrites, RoleWrites
<1>2. CASE i.op \in AasWrites
  BY <1>2 DEF AasWrites, ProtocolWrites, RoleWrites, FirstStatement, Operations, Labels
<1>3. CASE i.op \in ProtocolWrites
  BY <1>3 DEF AasWrites, ProtocolWrites, RoleWrites, FirstStatement, Operations, Labels
<1>4. CASE i.op \in RoleWrites \cup {"GetRoleAas"}
  BY <1>4 DEF AasWrites, ProtocolWrites, RoleWrites, FirstStatement, Operations, Labels
<1>5. CASE i.op \in {"DeleteAas", "DeleteProtocol", "GetAas", "GetProtocol", "ListAas", "ListProtocols"}
  BY <1>5 DEF AasWrites, ProtocolWrites, RoleWrites, FirstStatement, Operations, Labels
<1> QED
  BY <1>1, <1>2, <1>3, <1>4, <1>5

------------------------------------------------------------------------------
(* A step of a request *)

LocalTypes ==
  /\ pc \in [Requests -> Labels]
  /\ input \in [Requests -> Inputs \cup {NoRow}]
  /\ found \in [Requests -> RoleIds \cup {NoRow}]
  /\ ids \in [Requests -> SUBSET (AasIds \cup Protocols)]
  /\ snap \in [Requests -> Snapshot]
  /\ answer \in [Requests -> {"none", "ok", "notFound", "refused", "error"}]
  /\ dirty \subseteq Requests

TableTypes ==
  /\ assets \subseteq Assets
  /\ descriptors \in [AasIds -> Assets \cup {NoRow}]
  /\ endpoints \in [Addresses -> Credentials \cup {NoRow}]
  /\ listed \subseteq AasIds \X Addresses
  /\ protocols \subseteq Protocols
  /\ roles \subseteq Role
  /\ members \subseteq RoleIds \X AasIds

\* The other requests are where they were.
Alone(r) ==
  \A q \in Requests \ {r} :
    /\ pc'[q] = pc[q] /\ input'[q] = input[q] /\ answer'[q] = answer[q]
    /\ found'[q] = found[q] /\ ids'[q] = ids[q] /\ snap'[q] = snap[q]

\* A step of request r.
Moves(r) ==
  /\ LocalTypes' /\ Alone(r)
  /\ pc[r] # "done" /\ dirty \subseteq dirty' /\ dirty' \subseteq dirty \cup {r}
  /\ pc[r] # "idle" => input'[r] = input[r]
  /\ ControlOf(r)' /\ LocalsOf(r)'

\* What a reply leaves of a request.
LEMMA ReplyFacts ==
  ASSUME LocalTypes, NEW r \in Requests,
         NEW status \in {"ok", "notFound", "refused", "error"}, Reply(r, status)
  PROVE  /\ pc' \in [Requests -> Labels] /\ input' = input
         /\ found' \in [Requests -> RoleIds \cup {NoRow}]
         /\ ids' \in [Requests -> SUBSET (AasIds \cup Protocols)]
         /\ snap' \in [Requests -> Snapshot]
         /\ answer' \in [Requests -> {"none", "ok", "notFound", "refused", "error"}]
         /\ Alone(r)
         /\ pc'[r] = "done" /\ answer'[r] = status
<1>1. EmptySnapshot \in Snapshot
  BY DEF EmptySnapshot, Snapshot
<1> QED
  BY <1>1 DEF LocalTypes, Reply, Alone, Labels

\* A request that replies has reached its end.
LEMMA ReplyMoves ==
  ASSUME LocalTypes, NEW r \in Requests, ControlOf(r), pc[r] \notin {"idle", "done"},
         NEW status \in {"ok", "notFound", "refused", "error"}, Reply(r, status),
         dirty \subseteq dirty', dirty' \subseteq dirty \cup {r}
  PROVE  Moves(r)
BY ReplyFacts DEF LocalTypes, Moves, ControlOf, LocalsOf, HasRole

\* A request goes on to another of its statements.
LEMMA GoToMoves ==
  ASSUME LocalTypes, NEW r \in Requests, ControlOf(r), pc[r] \notin {"idle", "done"},
         NEW label \in Labels \ {"idle", "done"}, GoTo(r, label), Op(r) \in Operations(label),
         found' \in [Requests -> RoleIds \cup {NoRow}],
         ids' \in [Requests -> SUBSET (AasIds \cup Protocols)],
         snap' \in [Requests -> Snapshot],
         \A q \in Requests \ {r} : found'[q] = found[q] /\ ids'[q] = ids[q] /\ snap'[q] = snap[q],
         dirty \subseteq dirty', dirty' \subseteq dirty \cup {r},
         r \in dirty' => /\ label \in {"save", "write"}
                         /\ Op(r) \in {"AdminPutAas", "AdminPutProtocol", "PatchProtocol"},
         Op(r) \in RoleWrites /\ label \in {"findAas", "save", "write"} =>
           found'[r] \in RoleIds /\ ids'[r] \subseteq AasIds
  PROVE  Moves(r)
<1>1. pc' \in [Requests -> Labels] /\ pc'[r] = label /\ \A q \in Requests \ {r} : pc'[q] = pc[q]
  BY DEF LocalTypes, GoTo
<1>2. input' = input /\ answer' = answer /\ Op(r)' = Op(r)
  BY DEF GoTo, Op
<1>3. LocalTypes' /\ Alone(r)
  BY <1>1, <1>2 DEF LocalTypes, Alone
<1>4. ControlOf(r)' /\ LocalsOf(r)'
  BY <1>1, <1>2 DEF ControlOf, LocalsOf, HasRole, Halfway
<1> QED
  BY <1>2, <1>3, <1>4 DEF Moves

\* The ways a step changes the tables.
SavesAsset(r) == /\ Op(r) = "AdminPutAas" /\ assets' = assets \cup {input[r].asset}
                 /\ UNCHANGED <<descriptors, endpoints, listed, roleTables>>
StoresAas(r) == WriteAas(r) /\ ~AasWriteFails(r)
DeletesAas(a) == /\ descriptors' = [descriptors EXCEPT ![a] = NoRow]
                 /\ listed' = {l \in listed : l[1] # a}
                 /\ members' = {m \in members : m[2] # a}
                 /\ UNCHANGED <<assets, endpoints, protocols, roles>>
DropsRolesOf(p) == /\ DropRoles(RolesOf(p)) /\ protocols' \in {protocols, protocols \ {p}}
                   /\ UNCHANGED aasTables
StoresProtocol(r) == WriteProtocol(r) /\ ~ProtocolWriteFails(r)
StoresRole(r) == WriteRole(r) /\ ~RoleWriteFails(r)

Effect(r) ==
  \/ UNCHANGED tables
  \/ pc[r] # "idle" /\ (SavesAsset(r) \/ StoresAas(r) \/ StoresProtocol(r) \/ StoresRole(r))
  \/ \E a \in AasIds : DeletesAas(a)
  \/ \E p \in Protocols : DropsRolesOf(p)

\* Step without the history it keeps.
Act(r) ==
  \/ \E i \in Inputs : Receive(r, i)
  \/ Connect(r) \/ Read(r) \/ DescriptorStep(r) \/ ProtocolStep(r) \/ RoleStep(r)

LEMMA ReceiveMoves ==
  ASSUME LocalTypes, NEW r \in Requests, ControlOf(r), NEW i \in Inputs, Receive(r, i)
  PROVE  Moves(r) /\ UNCHANGED tables
<1>1. i.op # "Invalid" =>
        /\ i.op \in Operations("connect") /\ i.op \in Operations(FirstStatement(i.op))
        /\ FirstStatement(i.op) \in Labels \ {"idle", "connect", "save", "write", "findAas", "done"}
  BY FirstStatementFacts
<1>2. /\ pc[r] = "idle" /\ input' = [input EXCEPT ![r] = i] /\ UNCHANGED <<tables, found, ids, snap, dirty>>
      /\ \/ pc' = [pc EXCEPT ![r] = "connect"] /\ i.op # "Invalid" /\ UNCHANGED answer
         \/ pc' = [pc EXCEPT ![r] = FirstStatement(i.op)] /\ i.op # "Invalid" /\ UNCHANGED answer
         \/ /\ pc' = [pc EXCEPT ![r] = "done"]
            /\ \E status \in {"refused", "error"} : answer' = [answer EXCEPT ![r] = status]
  BY DEF Receive, At, Forgets
<1>3. LocalTypes'
  BY <1>1, <1>2 DEF LocalTypes, Labels
<1>4. Alone(r) /\ input'[r] = i /\ (pc'[r] # "done" => answer'[r] = answer[r])
  BY <1>1, <1>2 DEF LocalTypes, Alone
<1>5. ASSUME answer[r] = "none"
      PROVE  ControlOf(r)' /\ LocalsOf(r)'
  <2>1. pc'[r] \in {"connect", FirstStatement(i.op), "done"} /\ r \notin dirty'
    BY <1>2, <1>1 DEF LocalTypes, ControlOf, Halfway
  <2>2. pc'[r] # "done" => i.op # "Invalid"
    BY <1>2 DEF LocalTypes
  <2> QED
    BY <1>1, <1>4, <1>5, <2>1, <2>2 DEF ControlOf, LocalsOf, HasRole, Op
<1>6. answer[r] = "none"
  BY <1>2 DEF ControlOf
<1> QED
  BY <1>2, <1>3, <1>4, <1>5, <1>6 DEF Moves

\* GoToMoves for a request that reads nothing, or one of its variables.
LEMMA GoToOnly ==
  ASSUME LocalTypes, NEW r \in Requests, ControlOf(r), LocalsOf(r), pc[r] \notin {"idle", "done"},
         NEW label \in Labels \ {"idle", "done"}, GoTo(r, label), Op(r) \in Operations(label),
         Op(r) \in RoleWrites /\ label \in {"findAas", "save", "write"} => HasRole(r),
         UNCHANGED <<found, ids>>,
         snap' \in [Requests -> Snapshot], \A q \in Requests \ {r} : snap'[q] = snap[q],
         dirty \subseteq dirty', dirty' \subseteq dirty \cup {r},
         r \in dirty' => /\ label \in {"save", "write"}
                         /\ Op(r) \in {"AdminPutAas", "AdminPutProtocol", "PatchProtocol"}
  PROVE  Moves(r)
<1>2. /\ found' \in [Requests -> RoleIds \cup {NoRow}]
      /\ ids' \in [Requests -> SUBSET (AasIds \cup Protocols)]
      /\ \A q \in Requests \ {r} : found'[q] = found[q] /\ ids'[q] = ids[q]
  BY DEF LocalTypes
<1>3. Op(r) \in RoleWrites /\ label \in {"findAas", "save", "write"} =>
           found'[r] \in RoleIds /\ ids'[r] \subseteq AasIds
  BY DEF LocalsOf, HasRole
<1> QED
  BY <1>2, <1>3, GoToMoves

LEMMA ConnectMoves ==
  ASSUME LocalTypes, NEW r \in Requests, ControlOf(r), LocalsOf(r), Connect(r)
  PROVE  Moves(r) /\ UNCHANGED tables
<1>1. pc[r] = "connect" /\ UNCHANGED <<tables, dirty>>
  BY DEF Connect, At
<1>2. input[r] \in Inputs /\ Op(r) \in Operations("connect") /\ r \notin dirty
  BY <1>1 DEF ControlOf, Halfway
<1>3. Op(r) # "Invalid"
  BY <1>2 DEF Operations, AasWrites, ProtocolWrites, RoleWrites
<1>4. /\ FirstStatement(Op(r)) \in Labels \ {"idle", "connect", "save", "write", "findAas", "done"}
      /\ Op(r) \in Operations(FirstStatement(Op(r)))
  BY <1>2, <1>3, FirstStatementFacts DEF Op
<1>5. CASE Reply(r, "error")
  BY <1>1, <1>5, ReplyMoves
<1>6. CASE GoTo(r, FirstStatement(Op(r))) /\ Forgets(r)
  BY <1>1, <1>2, <1>4, <1>6, GoToOnly DEF Forgets, LocalTypes
<1> QED
  BY <1>1, <1>5, <1>6 DEF Connect

LEMMA ReadMoves ==
  ASSUME LocalTypes, NEW r \in Requests, ControlOf(r), Read(r)
  PROVE  Moves(r) /\ UNCHANGED tables
<1>1. pc[r] = "read" /\ UNCHANGED <<tables, dirty>>
  BY DEF Read, At
<1>2. \E status \in {"ok", "notFound", "refused", "error"} : Reply(r, status)
  BY DEF Read
<1> QED
  BY <1>1, <1>2, ReplyMoves

LEMMA SelectMoves ==
  ASSUME LocalTypes, TableTypes, NEW r \in Requests, ControlOf(r), LocalsOf(r),
         SelectAsset(r) \/ SelectAas(r) \/ SelectProtocol(r) \/ SelectRole(r)
  PROVE  Moves(r) /\ UNCHANGED tables
<1>1. UNCHANGED <<tables, found, ids, dirty>>
  BY DEF SelectAsset, SelectAas, SelectProtocol, SelectRole
<1>2. pc[r] \in {"asset", "save"} /\ input[r] \in Inputs
  BY DEF SelectAsset, SelectAas, SelectProtocol, SelectRole, At, ControlOf
<1>3. EmptySnapshot \in Snapshot /\ snap[r] \in Snapshot
  BY DEF EmptySnapshot, Snapshot, LocalTypes
<1>4. snap' \in [Requests -> Snapshot] /\ \A q \in Requests \ {r} : snap'[q] = snap[q]
  <2>1. CASE SelectAsset(r)
    <3> DEFINE row == input[r].asset \in assets
    <3> DEFINE v == [snap[r] EXCEPT !.assetRow = row]
    <3>1. snap' = [snap EXCEPT ![r] = v]
      BY <2>1 DEF SelectAsset
    <3>3. row \in BOOLEAN
      OBVIOUS
    <3> HIDE DEF row
    <3>2. v \in Snapshot
      BY <1>3, <3>3 DEF Snapshot
    <3> HIDE DEF v
    <3> QED
      BY <3>1, <3>2 DEF LocalTypes
  <2>2. CASE SelectAas(r)
    <3> DEFINE a == input[r].aas
    <3> DEFINE row == a \in Registered
    <3> DEFINE assetRow == input[r].asset \in assets
    <3> DEFINE v == [EmptySnapshot EXCEPT !.row = row, !.asset = descriptors[a],
                                 !.assetRow = assetRow,
                                 !.listed = {e \in Addresses : <<a, e>> \in listed},
                                 !.stored = {e \in Addresses : endpoints[e] # NoRow}]
    <3>1. descriptors[a] \in Assets \cup {NoRow}
      BY <2>2, <1>2, InputFacts DEF SelectAas, TableTypes, AasWrites, Op
    <3>3. snap' = [snap EXCEPT ![r] = v]
      BY <2>2 DEF SelectAas
    <3>4. row \in BOOLEAN /\ assetRow \in BOOLEAN
      OBVIOUS
    <3> HIDE DEF row, assetRow
    <3>2. v \in Snapshot
      BY <3>1, <3>4 DEF EmptySnapshot, Snapshot
    <3> HIDE DEF v
    <3> QED
      BY <3>2, <3>3 DEF LocalTypes
  <2>3. CASE SelectProtocol(r)
    <3> DEFINE p == input[r].protocol
    <3> DEFINE row == p \in protocols
    <3> DEFINE v == [EmptySnapshot EXCEPT !.row = row, !.roles = {x.id : x \in RolesOf(p)}]
    <3>1. {x.id : x \in RolesOf(p)} \subseteq RoleIds
      BY DEF RolesOf, TableTypes, Role
    <3>3. snap' = [snap EXCEPT ![r] = v]
      BY <2>3 DEF SelectProtocol
    <3>4. row \in BOOLEAN
      OBVIOUS
    <3> HIDE DEF row
    <3>2. v \in Snapshot
      BY <3>1, <3>4 DEF EmptySnapshot, Snapshot
    <3> HIDE DEF v
    <3> QED
      BY <3>2, <3>3 DEF LocalTypes
  <2>4. CASE SelectRole(r)
    <3> DEFINE v == [EmptySnapshot EXCEPT !.row = \E x \in roles : x.id = found[r],
                                          !.members = MembersOf(found[r])]
    <3>1. v \in Snapshot
      BY DEF EmptySnapshot, Snapshot, MembersOf
    <3>2. snap' = [snap EXCEPT ![r] = v]
      BY <2>4 DEF SelectRole
    <3> HIDE DEF v
    <3> QED
      BY <3>1, <3>2 DEF LocalTypes
  <2> QED
    BY <2>1, <2>2, <2>3, <2>4
<1>5. CASE SelectAsset(r)
  <2>1. GoTo(r, "assetWrite") /\ Op(r) = "AdminPutAas" /\ pc[r] = "asset" /\ r \notin dirty
    BY <1>5 DEF SelectAsset, At, ControlOf, Operations, Halfway
  <2>2. Op(r) \in Operations("assetWrite")
    BY <2>1 DEF Operations
  <2> QED
    BY <1>1, <1>4, <2>1, <2>2, GoToOnly DEF Labels
<1>6. CASE ~SelectAsset(r)
  <2>1. GoTo(r, "write") /\ pc[r] = "save" /\ Op(r) \in Operations("save")
    BY <1>6 DEF SelectAas, SelectProtocol, SelectRole, At, ControlOf
  <2>2. Op(r) \in Operations("write")
    BY <2>1 DEF Operations
  <2>3. r \in dirty => Op(r) \in {"AdminPutAas", "AdminPutProtocol", "PatchProtocol"}
    BY <2>1 DEF ControlOf, Halfway
  <2> QED
    BY <1>1, <1>4, <2>1, <2>2, <2>3, GoToOnly DEF Labels, HasRole
<1> QED
  BY <1>1, <1>5, <1>6

LEMMA DescriptorMoves ==
  ASSUME LocalTypes, TableTypes, NEW r \in Requests, ControlOf(r), LocalsOf(r), DescriptorStep(r)
  PROVE  Moves(r) /\ Effect(r)
<1>1. CASE SelectAsset(r) \/ SelectAas(r)
  BY <1>1, SelectMoves DEF Effect
<1>2. CASE SaveAsset(r)
  <2>1. pc[r] = "assetWrite" /\ Op(r) = "AdminPutAas" /\ UNCHANGED <<descriptors, endpoints, listed, roleTables>>
    BY <1>2 DEF SaveAsset, At, ControlOf, Operations
  <2>2. CASE Reply(r, "error") /\ UNCHANGED <<assets, dirty>>
    BY <2>1, <2>2, ReplyMoves DEF Effect, tables, roleTables
  <2>3. CASE /\ GoTo(r, "save") /\ Forgets(r) /\ assets' = assets \cup {input[r].asset}
             /\ dirty' = dirty \/ Touch(r)
    <3>1. Op(r) \in Operations("save") /\ "save" \in Labels \ {"idle", "done"} /\ Op(r) \notin RoleWrites
      BY <2>1 DEF Operations, AasWrites, RoleWrites, Labels
    <3>2. dirty \subseteq dirty' /\ dirty' \subseteq dirty \cup {r}
      BY <2>3 DEF Touch
    <3>3. Moves(r)
      BY <2>1, <2>3, <3>1, <3>2, GoToOnly DEF Forgets, LocalTypes
    <3>4. SavesAsset(r)
      BY <2>1, <2>3 DEF SavesAsset
    <3> QED
      BY <2>1, <3>3, <3>4 DEF Effect
  <2> QED
    BY <1>2, <2>2, <2>3 DEF SaveAsset
<1>3. CASE FindAas(r)
  <2>1. pc[r] = "find" /\ Op(r) \in {"PutAas", "PatchAas"} /\ UNCHANGED <<tables, dirty>> /\ r \notin dirty
    BY <1>3 DEF FindAas, At, ControlOf, Halfway
  <2>2. CASE Reply(r, "refused")
    BY <2>1, <2>2, ReplyMoves DEF Effect
  <2>3. CASE GoTo(r, "save") /\ Forgets(r)
    <3>1. Op(r) \in Operations("save") /\ "save" \in Labels \ {"idle", "done"} /\ Op(r) \notin RoleWrites
      BY <2>1 DEF Operations, AasWrites, RoleWrites, Labels
    <3> QED
      BY <2>1, <2>3, <3>1, GoToOnly DEF Forgets, Effect, LocalTypes
  <2> QED
    BY <1>3, <2>2, <2>3 DEF FindAas
<1>4. CASE WriteAas(r)
  <2>1. pc[r] = "write" /\ UNCHANGED roleTables
    BY <1>4 DEF WriteAas, At
  <2>2. CASE Reply(r, "error") /\ UNCHANGED <<aasTables, dirty>>
    BY <2>1, <2>2, ReplyMoves DEF Effect, tables, aasTables, roleTables
  <2>3. CASE Reply(r, "ok") /\ Touch(r) /\ ~AasWriteFails(r)
    BY <1>4, <2>1, <2>3, ReplyMoves DEF Effect, StoresAas, Touch
  <2> QED
    BY <1>4, <2>2, <2>3 DEF WriteAas
<1>5. CASE DeleteAas(r)
  <2>1. pc[r] = "delete" /\ input[r] \in Inputs /\ Op(r) = "DeleteAas"
    BY <1>5 DEF DeleteAas, At, ControlOf
  <2>2. input[r].aas \in AasIds
    BY <2>1, InputFacts DEF Op
  <2>3. CASE Reply(r, "refused") /\ UNCHANGED <<tables, dirty>>
    BY <2>1, <2>3, ReplyMoves DEF Effect
  <2>4. CASE Reply(r, "ok") /\ Touch(r) /\ DeletesAas(input[r].aas)
    BY <2>1, <2>2, <2>4, ReplyMoves DEF Effect, Touch
  <2> QED
    BY <1>5, <2>3, <2>4 DEF DeleteAas, DeletesAas
<1> QED
  BY <1>1, <1>2, <1>3, <1>4, <1>5 DEF DescriptorStep

LEMMA ProtocolMoves ==
  ASSUME LocalTypes, TableTypes, NEW r \in Requests, ControlOf(r), LocalsOf(r), ProtocolStep(r)
  PROVE  Moves(r) /\ Effect(r)
<1>1. CASE SelectProtocol(r)
  BY <1>1, SelectMoves DEF Effect
<1>2. CASE FindProtocol(r)
  <2>1. /\ pc[r] = "find" /\ Op(r) \in {"PutProtocol", "PatchProtocol"}
        /\ UNCHANGED <<tables, dirty>> /\ r \notin dirty
    BY <1>2 DEF FindProtocol, At, ControlOf, Halfway
  <2>2. CASE Reply(r, "refused")
    BY <2>1, <2>2, ReplyMoves DEF Effect
  <2>3. CASE Op(r) = "PutProtocol" /\ GoTo(r, "save") /\ Forgets(r)
    <3>1. Op(r) \in Operations("save") /\ "save" \in Labels \ {"idle", "done"} /\ Op(r) \notin RoleWrites
      BY <2>1 DEF Operations, ProtocolWrites, RoleWrites, Labels
    <3> QED
      BY <2>1, <2>3, <3>1, GoToOnly DEF Forgets, Effect, LocalTypes
  <2>4. CASE Op(r) = "PatchProtocol" /\ GoTo(r, "deleteRoles") /\ Forgets(r)
    <3>1. Op(r) \in Operations("deleteRoles") /\ "deleteRoles" \in Labels \ {"idle", "done"}
      BY <2>4 DEF Operations, Labels
    <3> QED
      BY <2>1, <2>4, <3>1, GoToOnly DEF Forgets, Effect, LocalTypes
  <2> QED
    BY <1>2, <2>2, <2>3, <2>4 DEF FindProtocol
<1>3. CASE DeleteRoles(r)
  <2>1. /\ pc[r] = "deleteRoles" /\ input[r] \in Inputs /\ Op(r) \in {"AdminPutProtocol", "PatchProtocol"}
        /\ GoTo(r, "save") /\ Forgets(r) /\ (dirty' = dirty \/ Touch(r))
    BY <1>3 DEF DeleteRoles, At, ControlOf, Operations
  <2>2. Op(r) \in Operations("save") /\ "save" \in Labels \ {"idle", "done"} /\ Op(r) \notin RoleWrites
    BY <2>1 DEF Operations, ProtocolWrites, RoleWrites, Labels
  <2>3. dirty \subseteq dirty' /\ dirty' \subseteq dirty \cup {r}
    BY <2>1 DEF Touch
  <2>4. Moves(r)
    BY <2>1, <2>2, <2>3, GoToOnly DEF Forgets, LocalTypes
  <2>5. input[r].protocol \in Protocols
    BY <2>1, InputFacts DEF Op, ProtocolWrites
  <2>6. DropsRolesOf(input[r].protocol)
    BY <1>3 DEF DeleteRoles, DropsRolesOf
  <2> QED
    BY <2>4, <2>5, <2>6 DEF Effect
<1>4. CASE WriteProtocol(r)
  <2>1. pc[r] = "write" /\ UNCHANGED aasTables
    BY <1>4 DEF WriteProtocol, At
  <2>2. CASE Reply(r, "error") /\ UNCHANGED <<roleTables, dirty>>
    BY <2>1, <2>2, ReplyMoves DEF Effect, tables, aasTables, roleTables
  <2>3. CASE Reply(r, "ok") /\ Touch(r) /\ ~ProtocolWriteFails(r)
    BY <1>4, <2>1, <2>3, ReplyMoves DEF Effect, StoresProtocol, Touch
  <2> QED
    BY <1>4, <2>2, <2>3 DEF WriteProtocol
<1>5. CASE DeleteProtocol(r)
  <2>1. pc[r] = "delete" /\ input[r] \in Inputs /\ Op(r) = "DeleteProtocol"
    BY <1>5 DEF DeleteProtocol, At, ControlOf
  <2>2. input[r].protocol \in Protocols
    BY <2>1, InputFacts DEF Op
  <2>3. CASE Reply(r, "refused") /\ UNCHANGED <<tables, dirty>>
    BY <2>1, <2>3, ReplyMoves DEF Effect
  <2>4. CASE Reply(r, "ok") /\ Touch(r) /\ DropsRolesOf(input[r].protocol)
    BY <2>1, <2>2, <2>4, ReplyMoves DEF Effect, Touch
  <2> QED
    BY <1>5, <2>3, <2>4 DEF DeleteProtocol, DropsRolesOf
<1>6. CASE ListIds(r)
  <2>1. pc[r] = "list" /\ Op(r) = "ListProtocols" /\ UNCHANGED <<tables, dirty>> /\ r \notin dirty
    BY <1>6 DEF ListIds, At, ControlOf, Halfway
  <2>2. CASE Reply(r, "ok")
    BY <2>1, <2>2, ReplyMoves DEF Effect
  <2>3. CASE ids' = [ids EXCEPT ![r] = protocols] /\ GoTo(r, "read") /\ UNCHANGED <<found, snap>>
    <3>1. Op(r) \in Operations("read") /\ "read" \in Labels \ {"idle", "done"}
      BY <2>1 DEF Operations, Labels
    <3>2. /\ ids' \in [Requests -> SUBSET (AasIds \cup Protocols)]
          /\ \A q \in Requests \ {r} : ids'[q] = ids[q]
      BY <2>3 DEF LocalTypes, TableTypes
    <3> QED
      BY <2>1, <2>3, <3>1, <3>2, GoToMoves DEF Effect, LocalTypes
  <2> QED
    BY <1>6, <2>2, <2>3 DEF ListIds
<1>7. ASSUME NEW p \in Protocols, ReadListed(r, p)
      PROVE  Moves(r) /\ Effect(r)
  <2>1. pc[r] = "read" /\ Op(r) = "ListProtocols" /\ UNCHANGED <<tables, dirty>>
    BY <1>7 DEF ReadListed, At
  <2>2. CASE Reply(r, "refused") \/ Reply(r, "ok")
    BY <2>1, <2>2, ReplyMoves DEF Effect
  <2>3. CASE ids' = [ids EXCEPT ![r] = @ \ {p}] /\ UNCHANGED <<pc, input, answer, found, snap>>
    <3>1. /\ ids' \in [Requests -> SUBSET (AasIds \cup Protocols)]
          /\ \A q \in Requests \ {r} : ids'[q] = ids[q]
      BY <2>3 DEF LocalTypes
    <3>2. LocalTypes' /\ Alone(r)
      BY <2>1, <2>3, <3>1 DEF LocalTypes, Alone
    <3>3. ControlOf(r)' /\ LocalsOf(r)'
      BY <2>1, <2>3 DEF ControlOf, LocalsOf, HasRole, Halfway, Op
    <3> QED
      BY <2>1, <2>3, <3>2, <3>3 DEF Moves, Effect
  <2> QED
    BY <1>7, <2>2, <2>3 DEF ReadListed
<1> QED
  BY <1>1, <1>2, <1>3, <1>4, <1>5, <1>6, <1>7 DEF ProtocolStep

LEMMA RoleMoves ==
  ASSUME LocalTypes, TableTypes, NEW r \in Requests, ControlOf(r), LocalsOf(r), RoleStep(r)
  PROVE  Moves(r) /\ Effect(r)
<1>1. CASE SelectRole(r)
  BY <1>1, SelectMoves DEF Effect
<1>2. CASE FindRole(r)
  <2>1. /\ pc[r] = "findRole" /\ input[r] \in Inputs /\ UNCHANGED <<tables, dirty>> /\ r \notin dirty
        /\ Op(r) \in Operations("findRole")
    BY <1>2 DEF FindRole, At, ControlOf, Halfway
  <2>2. CASE Reply(r, "refused") \/ Reply(r, "ok")
    BY <2>1, <2>2, ReplyMoves DEF Effect
  <2>3. ASSUME NEW x \in Named(r), Op(r) = "GetRoleAas", GoTo(r, "findAas"),
               ids' = [ids EXCEPT ![r] = MembersOf(x.id)], UNCHANGED <<found, snap>>
        PROVE  Moves(r)
    <3>1. Op(r) \in Operations("findAas") /\ "findAas" \in Labels \ {"idle", "done"} /\ Op(r) \notin RoleWrites
      BY <2>3 DEF Operations, Labels, RoleWrites
    <3>2. /\ ids' \in [Requests -> SUBSET (AasIds \cup Protocols)]
          /\ \A q \in Requests \ {r} : ids'[q] = ids[q]
      BY <2>3 DEF LocalTypes, MembersOf
    <3> QED
      BY <2>1, <2>3, <3>1, <3>2, GoToMoves DEF LocalTypes
  <2>4. ASSUME NEW x \in Named(r), Op(r) \in RoleWrites, NEW label \in {"findAas", "save"},
               GoTo(r, label), Op(r) \in Operations(label),
               found' = [found EXCEPT ![r] = x.id],
               NEW wanted \in SUBSET AasIds, ids' = [ids EXCEPT ![r] = wanted], UNCHANGED snap
        PROVE  Moves(r)
    <3>1. x.id \in RoleIds
      BY DEF Named, RolesOf, TableTypes, Role
    <3>2. /\ ids' \in [Requests -> SUBSET (AasIds \cup Protocols)]
          /\ \A q \in Requests \ {r} : ids'[q] = ids[q]
          /\ ids'[r] \subseteq AasIds
      BY <2>4 DEF LocalTypes
    <3>3. /\ found' \in [Requests -> RoleIds \cup {NoRow}]
          /\ \A q \in Requests \ {r} : found'[q] = found[q]
          /\ found'[r] \in RoleIds
      BY <2>4, <3>1 DEF LocalTypes
    <3>4. label \in Labels \ {"idle", "done"}
      BY <2>4 DEF Labels
    <3> QED
      BY <2>1, <2>4, <3>2, <3>3, <3>4, GoToMoves DEF LocalTypes
  <2>5. ASSUME NEW x \in Named(r), Op(r) = "PatchRole", GoTo(r, "findAas"),
               found' = [found EXCEPT ![r] = x.id], ids' = [ids EXCEPT ![r] = input[r].members],
               UNCHANGED snap
        PROVE  Moves(r)
    <3>1. input[r].members \in SUBSET AasIds
      BY <2>1, <2>5, InputFacts DEF Op
    <3>2. Op(r) \in RoleWrites /\ Op(r) \in Operations("findAas")
      BY <2>5 DEF RoleWrites, Operations
    <3> QED
      BY <2>4, <2>5, <3>1, <3>2
  <2>6. ASSUME NEW x \in Named(r), Op(r) = "DeleteRoleAas", GoTo(r, "save"),
               found' = [found EXCEPT ![r] = x.id], ids' = [ids EXCEPT ![r] = Without(x, input[r].aas)],
               UNCHANGED snap
        PROVE  Moves(r)
    <3>1. Without(x, input[r].aas) \in SUBSET AasIds
      BY DEF Without, MembersOf
    <3>2. Op(r) \in RoleWrites /\ Op(r) \in Operations("save")
      BY <2>6 DEF RoleWrites, Operations
    <3> QED
      BY <2>4, <2>6, <3>1, <3>2
  <2> QED
    BY <1>2, <2>1, <2>2, <2>3, <2>5, <2>6 DEF FindRole, Effect
<1>3. CASE FindAasOfRole(r)
  <2>1. /\ pc[r] = "findAas" /\ UNCHANGED <<tables, dirty>> /\ r \notin dirty
    BY <1>3 DEF FindAasOfRole, At, ControlOf, Halfway
  <2>2. CASE Reply(r, "refused") \/ Reply(r, "ok")
    BY <2>1, <2>2, ReplyMoves DEF Effect
  <2>3. CASE Op(r) = "PatchRole" /\ GoTo(r, "save") /\ Forgets(r)
    <3>1. Op(r) \in Operations("save") /\ "save" \in Labels \ {"idle", "done"} /\ HasRole(r)
      BY <2>1, <2>3 DEF Operations, RoleWrites, Labels, HasRole
    <3> QED
      BY <2>1, <2>3, <3>1, GoToOnly DEF Forgets, Effect, LocalTypes
  <2> QED
    BY <1>3, <2>2, <2>3 DEF FindAasOfRole
<1>4. CASE WriteRole(r)
  <2>1. pc[r] = "write" /\ UNCHANGED <<aasTables, protocols>>
    BY <1>4 DEF WriteRole, At
  <2>2. CASE Reply(r, "error") /\ UNCHANGED <<roles, members, dirty>>
    BY <2>1, <2>2, ReplyMoves DEF Effect, tables, aasTables
  <2>3. CASE Reply(r, "ok") /\ (dirty' = dirty \/ Touch(r)) /\ ~RoleWriteFails(r)
    <3>1. dirty \subseteq dirty' /\ dirty' \subseteq dirty \cup {r}
      BY <2>3 DEF Touch
    <3> QED
      BY <1>4, <2>1, <2>3, <3>1, ReplyMoves DEF Effect, StoresRole
  <2> QED
    BY <1>4, <2>2, <2>3 DEF WriteRole
<1> QED
  BY <1>1, <1>2, <1>3, <1>4 DEF RoleStep

\* Every step moves its own request and has one of the effects on the tables.
LEMMA ActMoves ==
  ASSUME LocalTypes, TableTypes, Control, NEW r \in Requests, Act(r)
  PROVE  Moves(r) /\ Effect(r)
BY ReceiveMoves, ConnectMoves, ReadMoves, DescriptorMoves, ProtocolMoves, RoleMoves
   DEF Act, Control, Effect

\* What is true of every request stays so, if the step's own keeps it.
LEMMA ControlPreserved ==
  ASSUME LocalTypes, Control, NEW r \in Requests, Moves(r)
  PROVE  Control'
<1>1. ASSUME NEW q \in Requests, q # r
      PROVE  ControlOf(q)' /\ LocalsOf(q)'
  BY <1>1 DEF Moves, Alone, Control, ControlOf, LocalsOf, HasRole, Halfway, Op
<1> QED
  BY <1>1 DEF Moves, Control

------------------------------------------------------------------------------
(* The tables *)

\* What is known of the request that saves a descriptor.
LEMMA StoresAasFacts ==
  ASSUME LocalTypes, Control, NEW r \in Requests, StoresAas(r)
  PROVE  /\ pc[r] = "write" /\ input[r] \in Inputs /\ IsAasWrite(r) /\ r \in dirty'
         /\ input[r].aas \in AasIds /\ input[r].asset \in Assets
         /\ DOMAIN input[r].endpoints \subseteq Addresses
         /\ snap[r].listed \subseteq Addresses /\ snap[r] \in Snapshot
         /\ assets' = assets \cup {input[r].asset}
         /\ endpoints' = [e \in Addresses |-> IF e \in DOMAIN input[r].endpoints
                                              THEN StoredEndpoint(r, e) ELSE endpoints[e]]
         /\ descriptors' = IF ~snap[r].row \/ (snap[r].asset # input[r].asset /\ input[r].aas \in Registered)
                             THEN [descriptors EXCEPT ![input[r].aas] = input[r].asset]
                             ELSE descriptors
         /\ listed' = (listed \ ({input[r].aas} \X (snap[r].listed \ DOMAIN input[r].endpoints)))
                        \cup ({input[r].aas} \X (DOMAIN input[r].endpoints \ snap[r].listed))
         /\ UNCHANGED roleTables
<1>1. pc[r] = "write" /\ IsAasWrite(r) /\ Touch(r)
  BY DEF StoresAas, WriteAas, IsAasWrite, At
<1>2. input[r] \in Inputs /\ Op(r) \in AasWrites
  BY <1>1 DEF Control, ControlOf, IsAasWrite, AasWrites
<1>3. snap[r] \in Snapshot
  BY DEF LocalTypes
<1> QED
  BY <1>1, <1>2, <1>3, InputFacts DEF StoresAas, WriteAas, Touch, Op, Snapshot

\* A stored endpoint is a row.
LEMMA StoredEndpointIsRow ==
  ASSUME TableTypes, NEW r \in Requests, NEW e \in Addresses
  PROVE  StoredEndpoint(r, e) \in Credentials
<1> DEFINE old == IF endpoints[e] = NoRow THEN NoCredentials ELSE endpoints[e]
<1>1. old \in Credentials
  BY DEF TableTypes, NoCredentials, Credentials
<1>2. StoredEndpoint(r, e) = Encrypted(old, input[r].endpoints[e], r)
  BY DEF StoredEndpoint
<1>3. old.user \in Writers \cup {NoRow} /\ old.password \in Writers \cup {NoRow} /\ old.salt \in Writers \cup {NoRow}
  BY <1>1 DEF Credentials
<1>4. r \in Writers
  BY DEF Writers
<1> HIDE DEF old
<1> QED
  BY <1>2, <1>3, <1>4 DEF Encrypted, Credentials

\* What is known of the request that saves a protocol.
LEMMA StoresProtocolFacts ==
  ASSUME LocalTypes, Control, NEW r \in Requests, StoresProtocol(r)
  PROVE  /\ Saves(r) /\ input[r] \in Inputs /\ pc'[r] = "done"
         /\ input[r].protocol \in Protocols /\ DOMAIN input[r].roles \subseteq RoleNames
         /\ \A n \in DOMAIN input[r].roles : input[r].roles[n] \subseteq AasIds
         /\ protocols' = IF snap[r].row THEN protocols ELSE protocols \cup {input[r].protocol}
         /\ roles' = {Orphaned(x, snap[r]) : x \in roles} \cup NewRoles(r)
         /\ members' = members \cup
              UNION {{<<r, n>>} \X input[r].roles[n] : n \in DOMAIN input[r].roles}
         /\ UNCHANGED aasTables
<1>1. pc[r] = "write" /\ Op(r) \in ProtocolWrites /\ Reply(r, "ok")
  BY DEF StoresProtocol, WriteProtocol, ProtocolWrites, At
<1>2. input[r] \in Inputs
  BY <1>1 DEF Control, ControlOf
<1>3. pc'[r] = "done"
  BY <1>1 DEF Reply, LocalTypes
<1> QED
  BY <1>1, <1>2, <1>3, InputFacts DEF StoresProtocol, WriteProtocol, Op, Saves

\* What is known of the request that saves a role.
LEMMA StoresRoleFacts ==
  ASSUME LocalTypes, Control, NEW r \in Requests, StoresRole(r)
  PROVE  /\ pc[r] = "write" /\ HasRole(r) /\ input[r] \in Inputs /\ input[r].role \in RoleNames
         /\ found[r] \in RoleIds /\ ids[r] \subseteq AasIds
         /\ roles' = IF snap[r].row THEN roles ELSE roles \cup {Reinserted(r)}
         /\ members' = (members \ ({found[r]} \X (snap[r].members \ ids[r])))
                        \cup ({found[r]} \X (ids[r] \ snap[r].members))
         /\ UNCHANGED <<aasTables, protocols>>
<1>1. pc[r] = "write" /\ HasRole(r)
  BY DEF StoresRole, WriteRole, At, HasRole, RoleWrites
<1>2. input[r] \in Inputs
  BY <1>1 DEF Control, ControlOf
<1> QED
  BY <1>1, <1>2, InputFacts DEF StoresRole, WriteRole, Op, HasRole, Control, LocalsOf

\* Every row there is after a step: an old one, an old one that lost its
\* protocol, or one of a save.
LEMMA RoleRows ==
  ASSUME LocalTypes, TableTypes, Control, NEW r \in Requests, Effect(r), NEW x \in roles'
  PROVE  \/ x \in roles
         \/ x.protocol = NoRow /\ \E y \in roles : x = [y EXCEPT !.protocol = NoRow]
         \/ StoresProtocol(r) /\ x \in NewRoles(r)
         \/ StoresRole(r) /\ x = Reinserted(r)
<1>1. CASE UNCHANGED tables \/ SavesAsset(r) \/ \E a \in AasIds : DeletesAas(a)
  BY <1>1 DEF tables, SavesAsset, roleTables, DeletesAas
<1>2. CASE StoresAas(r)
  BY <1>2, StoresAasFacts DEF roleTables
<1>3. CASE \E p \in Protocols : DropsRolesOf(p)
  BY <1>3 DEF DropsRolesOf, DropRoles
<1>4. CASE StoresProtocol(r)
  <2>1. SUFFICES ASSUME NEW y \in roles, x = Orphaned(y, snap[r]), x # y
                 PROVE  x.protocol = NoRow /\ x = [y EXCEPT !.protocol = NoRow]
    BY <1>4, StoresProtocolFacts
  <2>2. y \in Role
    BY DEF TableTypes
  <2> QED
    BY <2>1, <2>2 DEF Orphaned, Role
<1>5. CASE StoresRole(r)
  BY <1>5, StoresRoleFacts
<1> QED
  BY <1>1, <1>2, <1>3, <1>4, <1>5 DEF Effect

LEMMA TablesTyped ==
  ASSUME LocalTypes, TableTypes, Control, NEW r \in Requests, Effect(r)
  PROVE  TableTypes'
<1>1. CASE UNCHANGED tables
  BY <1>1 DEF tables, TableTypes
<1>2. CASE pc[r] # "idle" /\ SavesAsset(r)
  <2>1. input[r].asset \in Assets
    BY <1>2, InputFacts DEF Control, ControlOf, SavesAsset, Op, AasWrites
  <2> QED
    BY <1>2, <2>1 DEF SavesAsset, roleTables, TableTypes
<1>3. CASE StoresAas(r)
  <2>1. endpoints' \in [Addresses -> Credentials \cup {NoRow}]
    BY <1>3, StoresAasFacts, StoredEndpointIsRow DEF TableTypes
  <2>2. assets' \subseteq Assets /\ descriptors' \in [AasIds -> Assets \cup {NoRow}]
    BY <1>3, StoresAasFacts DEF TableTypes
  <2>3. listed' \subseteq AasIds \X Addresses
    BY <1>3, StoresAasFacts DEF TableTypes
  <2> QED
    BY <1>3, <2>1, <2>2, <2>3, StoresAasFacts DEF TableTypes, roleTables
<1>4. CASE \E a \in AasIds : DeletesAas(a)
  BY <1>4 DEF DeletesAas, TableTypes
<1>5. CASE \E p \in Protocols : DropsRolesOf(p)
  BY <1>5 DEF DropsRolesOf, DropRoles, TableTypes, aasTables
<1>6. CASE StoresProtocol(r)
  <2>2. \A n \in DOMAIN input[r].roles : <<r, n>> \in RoleIds
    BY <1>6, StoresProtocolFacts DEF RoleIds, Writers
  <2>3. NewRoles(r) \subseteq Role
    BY <1>6, <2>2, StoresProtocolFacts DEF NewRoles, Role
  <2>4. \A y \in roles : Orphaned(y, snap[r]) \in Role
    BY DEF TableTypes, Orphaned, Role
  <2>5. roles' \subseteq Role
    BY <1>6, <2>3, <2>4, StoresProtocolFacts
  <2>6. members' \subseteq RoleIds \X AasIds
    BY <1>6, <2>2, StoresProtocolFacts DEF TableTypes
  <2>7. protocols' \subseteq Protocols
    BY <1>6, StoresProtocolFacts DEF TableTypes
  <2> QED
    BY <1>6, <2>5, <2>6, <2>7, StoresProtocolFacts DEF TableTypes, aasTables
<1>7. CASE StoresRole(r)
  <2>1. Reinserted(r) \in Role
    BY <1>7, StoresRoleFacts DEF Reinserted, Role
  <2>2. members' \subseteq RoleIds \X AasIds
    BY <1>7, StoresRoleFacts DEF TableTypes
  <2> QED
    BY <1>7, <2>1, <2>2, StoresRoleFacts DEF TableTypes, aasTables
<1> QED
  BY <1>1, <1>2, <1>3, <1>4, <1>5, <1>6, <1>7 DEF Effect

------------------------------------------------------------------------------
(* Referential integrity *)

\* ReferencesHold, table by table.
AssetsThere == \A a \in Registered : descriptors[a] \in assets
AssetsOfOne == \A a, b \in Registered : descriptors[a] = descriptors[b] => a = b
ListedThere == \A l \in listed : l[1] \in Registered /\ endpoints[l[2]] # NoRow
ProtocolsThere == \A x \in roles : x.protocol \in protocols \cup {NoRow}
MembersThere == \A m \in members : m[2] \in Registered /\ \E x \in roles : x.id = m[1]
NamesUnique == \A x, y \in roles :
  x.protocol = y.protocol /\ x.protocol # NoRow /\ x.name = y.name => x = y

LEMMA ReferencesByTable ==
  /\ ReferencesHold <=> /\ AssetsThere /\ AssetsOfOne /\ ListedThere
                        /\ ProtocolsThere /\ MembersThere /\ NamesUnique
  /\ ReferencesHold' <=> /\ AssetsThere' /\ AssetsOfOne' /\ ListedThere'
                         /\ ProtocolsThere' /\ MembersThere' /\ NamesUnique'
BY DEF ReferencesHold, AssetsThere, AssetsOfOne, ListedThere, ProtocolsThere, MembersThere, NamesUnique

\* Saving a descriptor: the guards of the save are those of the constraints.
LEMMA StoresAasKeepsReferences ==
  ASSUME LocalTypes, TableTypes, Control, ReferencesHold, NEW r \in Requests, StoresAas(r)
  PROVE  ReferencesHold'
<1> USE StoresAasFacts
<1> DEFINE i == input[r]
<1> DEFINE s == snap[r]
<1> DEFINE changed == ~s.row \/ (s.asset # i.asset /\ i.aas \in Registered)
<1>1. ~AasWriteFails(r)
  BY DEF StoresAas
<1>2. i.asset # NoRow /\ \A e \in Addresses : StoredEndpoint(r, e) # NoRow
  BY StoredEndpointIsRow, RegistryAssumption
<1>3. /\ descriptors' \in [AasIds -> Assets \cup {NoRow}]
      /\ \A a \in AasIds : descriptors'[a] = IF changed /\ a = i.aas THEN i.asset ELSE descriptors[a]
  BY DEF TableTypes
<1>4. Registered' = IF changed THEN Registered \cup {i.aas} ELSE Registered
  BY <1>2, <1>3 DEF Registered
<1>5. AssetsThere'
  BY <1>3, <1>4, ReferencesByTable DEF AssetsThere, Registered
<1>6. AssetsOfOne'
  <2>1. changed => \A b \in AasIds \ {i.aas} : descriptors[b] # i.asset
    BY <1>1 DEF AasWriteFails
  <2> QED
    BY <2>1, <1>3, <1>4, ReferencesByTable DEF AssetsOfOne, Registered
<1>7. ListedThere'
  <2>1. ASSUME NEW l \in listed'
        PROVE  l[1] \in Registered' /\ endpoints'[l[2]] # NoRow
    <3>1. CASE l \in listed
      <4>1. l[1] \in Registered /\ endpoints[l[2]] # NoRow /\ l[2] \in Addresses
        BY <3>1, ReferencesByTable DEF ListedThere, TableTypes
      <4>2. endpoints'[l[2]] # NoRow
        BY <4>1, <1>2
      <4> QED
        BY <4>1, <4>2, <1>4
    <3>2. CASE l \in {i.aas} \X (DOMAIN i.endpoints \ s.listed)
      <4>1. l[1] = i.aas /\ l[2] \in DOMAIN i.endpoints /\ l[2] \in Addresses /\ DOMAIN i.endpoints \ s.listed # {}
        BY <3>2
      <4>2. i.aas \in Registered'
        BY <4>1, <1>1, <1>4 DEF AasWriteFails
      <4>3. endpoints'[l[2]] # NoRow
        BY <4>1, <1>2
      <4> QED
        BY <4>1, <4>2, <4>3
    <3> QED
      BY <3>1, <3>2
  <2> QED
    BY <2>1 DEF ListedThere
<1>8. ProtocolsThere' /\ NamesUnique'
  BY ReferencesByTable DEF ProtocolsThere, NamesUnique, roleTables
<1>9. MembersThere'
  BY <1>4, ReferencesByTable DEF MembersThere, roleTables
<1> QED
  BY <1>5, <1>6, <1>7, <1>8, <1>9, ReferencesByTable

\* Saving a protocol: names are free and members registered.
LEMMA StoresProtocolKeepsReferences ==
  ASSUME LocalTypes, TableTypes, Control, ReferencesHold, NEW r \in Requests, StoresProtocol(r)
  PROVE  ReferencesHold'
<1> USE StoresProtocolFacts
<1> DEFINE i == input[r]
<1>1. ~ProtocolWriteFails(r)
  BY DEF StoresProtocol
<1>2. AssetsThere' /\ AssetsOfOne' /\ ListedThere'
  BY ReferencesByTable DEF AssetsThere, AssetsOfOne, ListedThere, aasTables, Registered
<1>3. \A y \in roles : Orphaned(y, snap[r]).id = y.id
  BY DEF TableTypes, Orphaned, Role
<1>4. \A y \in roles : Orphaned(y, snap[r]) = y \/ Orphaned(y, snap[r]).protocol = NoRow
  BY DEF TableTypes, Orphaned, Role
<1>5. NoRow \notin Protocols
  BY RegistryAssumption
<1>6. ProtocolsThere'
  <2>1. ASSUME NEW x \in NewRoles(r)
        PROVE  x.protocol \in protocols'
    <3>1. x.protocol = i.protocol /\ DOMAIN i.roles # {}
      BY DEF NewRoles
    <3> QED
      BY <3>1, <1>1 DEF ProtocolWriteFails
  <2>2. \A y \in roles : Orphaned(y, snap[r]).protocol \in protocols' \cup {NoRow}
    BY <1>4, ReferencesByTable DEF ProtocolsThere
  <2> QED
    BY <2>1, <2>2 DEF ProtocolsThere
<1>7. MembersThere'
  <2>1. Registered' = Registered
    BY DEF Registered, aasTables
  <2>2. ASSUME NEW m \in members
        PROVE  m[2] \in Registered /\ \E x \in roles' : x.id = m[1]
    <3>1. PICK y \in roles : y.id = m[1]
      BY ReferencesByTable DEF MembersThere
    <3>2. Orphaned(y, snap[r]) \in roles'
      OBVIOUS
    <3> QED
      BY <3>1, <3>2, <1>3, ReferencesByTable DEF MembersThere
  <2>3. ASSUME NEW n \in DOMAIN i.roles, NEW a \in i.roles[n]
        PROVE  a \in Registered /\ \E x \in roles' : x.id = <<r, n>>
    <3>1. a \in Registered
      BY <1>1 DEF ProtocolWriteFails
    <3>2. [id |-> <<r, n>>, name |-> n, protocol |-> i.protocol] \in roles'
      BY DEF NewRoles
    <3> QED
      BY <3>1, <3>2
  <2>4. ASSUME NEW m \in members'
        PROVE  m \in members \/ \E n \in DOMAIN i.roles : \E a \in i.roles[n] : m = <<<<r, n>>, a>>
    OBVIOUS
  <2> QED
    BY <2>1, <2>2, <2>3, <2>4 DEF MembersThere
<1>8. NamesUnique'
  <2>1. ASSUME NEW x \in roles', x.protocol # NoRow
        PROVE  x \in roles \/ x \in NewRoles(r)
    BY <2>1, <1>4
  <2>2. ASSUME NEW x \in roles, NEW y \in NewRoles(r), x.protocol = y.protocol, x.name = y.name
        PROVE  FALSE
    <3>1. y.protocol = i.protocol /\ y.name \in DOMAIN i.roles
      BY DEF NewRoles
    <3>2. x \in RolesOf(i.protocol)
      BY <2>2, <3>1 DEF RolesOf
    <3> QED
      BY <2>2, <3>1, <3>2, <1>1 DEF ProtocolWriteFails
  <2>3. \A x, y \in NewRoles(r) : x.name = y.name => x = y
    BY DEF NewRoles
  <2> QED
    BY <2>1, <2>2, <2>3, ReferencesByTable DEF NamesUnique
<1> QED
  BY <1>2, <1>6, <1>7, <1>8, ReferencesByTable

\* Saving a role: what is added is registered, and the role is there.
LEMMA StoresRoleKeepsReferences ==
  ASSUME LocalTypes, TableTypes, Control, ReferencesHold, NEW r \in Requests, StoresRole(r)
  PROVE  ReferencesHold'
<1> USE StoresRoleFacts
<1>1. ~RoleWriteFails(r)
  BY DEF StoresRole
<1>2. AssetsThere' /\ AssetsOfOne' /\ ListedThere'
  BY ReferencesByTable DEF AssetsThere, AssetsOfOne, ListedThere, aasTables, Registered
<1>3. Reinserted(r).protocol = NoRow /\ Reinserted(r).id = found[r]
  BY DEF Reinserted
<1>4. ProtocolsThere' /\ NamesUnique'
  BY <1>3, ReferencesByTable DEF ProtocolsThere, NamesUnique
<1>5. MembersThere'
  <2>1. Registered' = Registered
    BY DEF Registered, aasTables
  <2>2. ASSUME NEW a \in ids[r] \ snap[r].members
        PROVE  a \in Registered /\ \E x \in roles' : x.id = found[r]
    BY <1>1, <1>3 DEF RoleWriteFails
  <2>3. \A m \in members' : m \in members \/ \E a \in ids[r] \ snap[r].members : m = <<found[r], a>>
    OBVIOUS
  <2> QED
    BY <2>1, <2>2, <2>3, ReferencesByTable DEF MembersThere
<1> QED
  BY <1>2, <1>4, <1>5, ReferencesByTable

LEMMA ReferencesPreserved ==
  ASSUME LocalTypes, TableTypes, Control, ReferencesHold, NEW r \in Requests, Effect(r)
  PROVE  ReferencesHold'
<1>1. CASE UNCHANGED tables
  BY <1>1 DEF tables, ReferencesHold, Registered
<1>2. CASE SavesAsset(r)
  BY <1>2 DEF SavesAsset, roleTables, ReferencesHold, Registered
<1>3. ASSUME NEW a \in AasIds, DeletesAas(a)
      PROVE  ReferencesHold'
  <2>1. Registered' = Registered \ {a} /\ \A b \in Registered' : descriptors'[b] = descriptors[b]
    BY <1>3 DEF DeletesAas, Registered, TableTypes
  <2>2. AssetsThere' /\ AssetsOfOne'
    BY <1>3, <2>1, ReferencesByTable DEF DeletesAas, AssetsThere, AssetsOfOne
  <2>3. ListedThere' /\ MembersThere'
    BY <1>3, <2>1, ReferencesByTable DEF DeletesAas, ListedThere, MembersThere
  <2>4. ProtocolsThere' /\ NamesUnique'
    BY <1>3, ReferencesByTable DEF DeletesAas, ProtocolsThere, NamesUnique
  <2> QED
    BY <2>2, <2>3, <2>4, ReferencesByTable
<1>4. ASSUME NEW p \in Protocols, DropsRolesOf(p)
      PROVE  ReferencesHold'
  <2>1. AssetsThere' /\ AssetsOfOne' /\ ListedThere' /\ Registered' = Registered
    BY <1>4, ReferencesByTable DEF DropsRolesOf, aasTables, AssetsThere, AssetsOfOne, ListedThere, Registered
  <2>2. ProtocolsThere' /\ NamesUnique'
    BY <1>4, ReferencesByTable DEF DropsRolesOf, DropRoles, RolesOf, ProtocolsThere, NamesUnique
  <2>3. MembersThere'
    BY <1>4, <2>1, ReferencesByTable DEF DropsRolesOf, DropRoles, MembersThere
  <2> QED
    BY <2>1, <2>2, <2>3, ReferencesByTable
<1> QED
  BY <1>1, <1>2, <1>3, <1>4, StoresAasKeepsReferences, StoresProtocolKeepsReferences,
     StoresRoleKeepsReferences DEF Effect

------------------------------------------------------------------------------
(* What a request has read *)

\* The steps that lead to the statements of a save.
LEMMA Destinations ==
  ASSUME LocalTypes, Control, NEW r \in Requests, Act(r)
  PROVE  /\ pc'[r] = "findAas" => FindRole(r)
         /\ pc'[r] = "save" => \/ SaveAsset(r) \/ FindAas(r) \/ FindProtocol(r) \/ DeleteRoles(r)
                               \/ FindRole(r) \/ FindAasOfRole(r)
         /\ pc'[r] = "write" => SelectAas(r) \/ SelectProtocol(r) \/ SelectRole(r)
<1> DEFINE elsewhere == pc'[r] \notin {"findAas", "save", "write"}
<1>1. \A status : Reply(r, status) => pc'[r] = "done"
  BY DEF Reply, LocalTypes
<1>2. \A label : GoTo(r, label) => pc'[r] = label
  BY DEF GoTo, LocalTypes
<1>3. ASSUME NEW i \in Inputs, Receive(r, i)
      PROVE  elsewhere
  <2>1. i.op # "Invalid" => FirstStatement(i.op) \notin {"findAas", "save", "write"}
    BY FirstStatementFacts
  <2> QED
    BY <1>3, <2>1 DEF Receive, LocalTypes
<1>4. CASE Connect(r)
  <2>1. input[r] \in Inputs /\ Op(r) # "Invalid"
    BY <1>4 DEF Connect, At, Control, ControlOf, Operations, AasWrites, ProtocolWrites, RoleWrites
  <2>2. FirstStatement(Op(r)) \notin {"findAas", "save", "write"}
    BY <2>1, FirstStatementFacts DEF Op
  <2> QED
    BY <1>1, <1>2, <1>4, <2>2 DEF Connect
<1>5. CASE Read(r)
  BY <1>1, <1>5 DEF Read
<1>6. CASE DescriptorStep(r)
  BY <1>1, <1>2, <1>6 DEF DescriptorStep, SelectAsset, SelectAas, WriteAas, DeleteAas, SaveAsset, FindAas
<1>7. CASE ProtocolStep(r)
  <2>1. ASSUME NEW p \in Protocols, ReadListed(r, p)
        PROVE  elsewhere
    BY <1>1, <2>1 DEF ReadListed, At
  <2> QED
    BY <1>1, <1>2, <1>7, <2>1 DEF ProtocolStep, SelectProtocol, WriteProtocol, DeleteProtocol, ListIds,
       FindProtocol, DeleteRoles
<1>8. CASE RoleStep(r)
  BY <1>1, <1>2, <1>8 DEF RoleStep, FindRole, FindAasOfRole, SelectRole, WriteRole
<1> QED
  BY <1>3, <1>4, <1>5, <1>6, <1>7, <1>8 DEF Act

\* How a request comes to work on a role, and to save a protocol.
LEMMA RoleSteps ==
  ASSUME LocalTypes, Control, NEW r \in Requests, Act(r), Moves(r), HasRole(r)'
  PROVE  /\ pc[r] # "idle" /\ Op(r) \in RoleWrites
         /\ FindRole(r) \/ (HasRole(r) /\ (FindAasOfRole(r) \/ SelectRole(r)))
<1>1. pc'[r] \in {"findAas", "save", "write"} /\ Op(r)' \in RoleWrites
  BY DEF HasRole
<1>2. \/ SelectAas(r) \/ SelectProtocol(r) \/ SelectRole(r) \/ SaveAsset(r) \/ FindAas(r)
      \/ FindProtocol(r) \/ DeleteRoles(r) \/ FindRole(r) \/ FindAasOfRole(r)
  BY <1>1, Destinations
<1>3. pc[r] # "idle"
  BY <1>2 DEF SelectAas, SelectProtocol, SelectRole, SaveAsset, FindAas, FindProtocol, DeleteRoles,
     FindRole, FindAasOfRole, At
<1>4. Op(r) \in RoleWrites
  BY <1>1, <1>3 DEF Moves, Op
<1>5. FindRole(r) \/ FindAasOfRole(r) \/ SelectRole(r)
  <2>1. ~SelectAas(r) /\ ~SelectProtocol(r) /\ ~FindAas(r) /\ ~FindProtocol(r)
    BY <1>4 DEF SelectAas, SelectProtocol, FindAas, FindProtocol, RoleWrites
  <2>2. ~SaveAsset(r) /\ ~DeleteRoles(r)
    BY <1>4 DEF SaveAsset, DeleteRoles, At, Control, ControlOf, Operations, RoleWrites
  <2> QED
    BY <1>2, <2>1, <2>2
<1>6. FindAasOfRole(r) \/ SelectRole(r) => HasRole(r)
  BY <1>4 DEF FindAasOfRole, SelectRole, At, HasRole
<1> QED
  BY <1>3, <1>4, <1>5, <1>6

LEMMA SavesSteps ==
  ASSUME LocalTypes, Control, NEW r \in Requests, Act(r), Moves(r), Saves(r)'
  PROVE  SelectProtocol(r) /\ pc[r] # "idle"
<1>1. SelectAas(r) \/ SelectProtocol(r) \/ SelectRole(r)
  BY Destinations DEF Saves
<1>2. pc[r] # "idle"
  BY <1>1 DEF SelectAas, SelectProtocol, SelectRole, At
<1>3. Op(r) \in ProtocolWrites
  BY <1>2 DEF Moves, Op, Saves
<1> QED
  BY <1>1, <1>2, <1>3 DEF SelectAas, SelectRole, ProtocolWrites

\* What is over stays over.
LEMMA DoneStays ==
  ASSUME LocalTypes, NEW r \in Requests, Moves(r), NEW id, Done(id)
  PROVE  Done(id)' /\ \A p : OfProtocol(id, p) => OfProtocol(id, p)'
<1>1. id[1] \in Requests => id[1] # r
  BY DEF Moves, Done
<1> QED
  BY <1>1 DEF Moves, Alone, Done, OfProtocol, Op

LEMMA OriginsPreserved ==
  ASSUME LocalTypes, TableTypes, Control, Origins, NEW r \in Requests, Act(r), Moves(r), Effect(r)
  PROVE  Origins'
<1>1. ASSUME NEW x \in roles'
      PROVE  Done(x.id)' /\ (x.protocol # NoRow => OfProtocol(x.id, x.protocol)')
  <2>1. CASE x \in roles
    <3>1. Done(x.id) /\ (x.protocol # NoRow => OfProtocol(x.id, x.protocol))
      BY <2>1 DEF Origins
    <3> QED
      BY <3>1, DoneStays
  <2>2. ASSUME x.protocol = NoRow, NEW y \in roles, x = [y EXCEPT !.protocol = NoRow]
        PROVE  Done(x.id)'
    <3>1. x.id = y.id
      BY <2>2 DEF TableTypes, Role
    <3> QED
      BY <3>1, DoneStays DEF Origins
  <2>3. CASE StoresProtocol(r) /\ x \in NewRoles(r)
    <3>1. x.id[1] = r /\ x.protocol = input[r].protocol
      BY <2>3 DEF NewRoles
    <3>2. pc'[r] = "done" /\ pc[r] # "idle" /\ Op(r) \in ProtocolWrites
      BY <2>3, StoresProtocolFacts DEF Saves
    <3> QED
      BY <3>1, <3>2 DEF Moves, Done, OfProtocol, Op
  <2>4. CASE StoresRole(r) /\ x = Reinserted(r)
    <3>1. x.id = found[r] /\ x.protocol = NoRow /\ HasRole(r)
      BY <2>4, StoresRoleFacts DEF Reinserted
    <3> QED
      BY <3>1, DoneStays DEF Origins
  <2> QED
    BY <2>1, <2>2, <2>3, <2>4, RoleRows
<1>2. ASSUME NEW q \in Requests, HasRole(q)', NEW id, id = found'[q]
      PROVE  Done(id)'
  <2>1. CASE q # r
    <3>1. HasRole(q) /\ id = found[q]
      BY <1>2, <2>1 DEF Moves, Alone, HasRole, Op
    <3>2. Done(id)
      BY <3>1 DEF Origins
    <3> QED
      BY <3>2, DoneStays
  <2>2. CASE q = r
    <3>1. Op(r) \in RoleWrites /\ (FindRole(r) \/ (HasRole(r) /\ (FindAasOfRole(r) \/ SelectRole(r))))
      BY <1>2, <2>2, RoleSteps
    <3>2. CASE FindRole(r)
      <4>1. \E x \in Named(r) : found'[r] = x.id
        BY <1>2, <2>2, <3>1, <3>2 DEF FindRole, Reply, LocalTypes, HasRole, RoleWrites
      <4>2. PICK x \in roles : id = x.id
        BY <1>2, <2>2, <4>1 DEF Named, RolesOf
      <4>3. Done(id)
        BY <4>2 DEF Origins
      <4> QED
        BY <4>3, DoneStays
    <3>3. CASE HasRole(r) /\ (FindAasOfRole(r) \/ SelectRole(r))
      <4>1. id = found[r]
        BY <1>2, <2>2, <3>3 DEF FindAasOfRole, SelectRole, Forgets, HasRole, Reply, LocalTypes
      <4>2. Done(id)
        BY <3>3, <4>1 DEF Origins
      <4> QED
        BY <4>2, DoneStays
    <3> QED
      BY <3>1, <3>2, <3>3
  <2> QED
    BY <2>1, <2>2
<1>3. ASSUME NEW q \in Requests, Saves(q)', NEW id \in snap'[q].roles, NEW p, p = input'[q].protocol
      PROVE  Done(id)' /\ OfProtocol(id, p)'
  <2>1. CASE q # r
    <3>1. Saves(q) /\ snap'[q] = snap[q] /\ input'[q] = input[q]
      BY <1>3, <2>1 DEF Moves, Alone, Saves, Op
    <3>2. Done(id) /\ OfProtocol(id, p)
      BY <1>3, <3>1 DEF Origins
    <3> QED
      BY <3>2, DoneStays
  <2>2. CASE q = r
    <3>1. SelectProtocol(r) /\ input'[r] = input[r]
      BY <1>3, <2>2, SavesSteps DEF Moves
    <3>2. snap'[r].roles = {x.id : x \in RolesOf(input[r].protocol)}
      BY <3>1 DEF SelectProtocol, EmptySnapshot, LocalTypes
    <3>3. PICK x \in RolesOf(input[r].protocol) : id = x.id
      BY <1>3, <2>2, <3>2
    <3>4. input[r].protocol # NoRow
      <4>1. input[r] \in Inputs /\ Op(r) \in ProtocolWrites
        BY <3>1 DEF SelectProtocol, At, Control, ControlOf, ProtocolWrites
      <4> QED
        BY <4>1, InputFacts, RegistryAssumption DEF Op
    <3>5. Done(id) /\ OfProtocol(id, p)
      BY <1>3, <2>2, <3>1, <3>3, <3>4 DEF Origins, RolesOf
    <3> QED
      BY <3>5, DoneStays
  <2> QED
    BY <2>1, <2>2
<1>4. \A q \in Requests : HasRole(q)' => Done(found[q])'
  BY <1>2 DEF Done, Op
<1>5. \A q \in Requests : Saves(q)' =>
        \A id \in snap'[q].roles : Done(id)' /\ OfProtocol(id, input[q].protocol)'
  BY <1>3 DEF OfProtocol
<1> QED
  BY <1>1, <1>4, <1>5 DEF Origins

------------------------------------------------------------------------------
(* Protocols are written whole *)

\* No role of a request is there before it has saved its protocol.
LEMMA NothingInsertedBefore ==
  ASSUME Origins, NEW r \in Requests, pc[r] # "done", NEW x \in roles
  PROVE  x.id[1] # r
BY DEF Origins, Done

\* A role of a protocol was there before the step, or the step has saved it.
LEMMA InsertedRoles ==
  ASSUME LocalTypes, TableTypes, Control, NEW r \in Requests, Effect(r),
         NEW q \in Requests, NEW p \in Protocols, NEW x \in Inserted(q, p)'
  PROVE  x \in Inserted(q, p) \/ (q = r /\ StoresProtocol(r) /\ x \in NewRoles(r))
<1>1. x \in roles' /\ x.protocol = p /\ x.id[1] = q /\ p # NoRow
  BY RegistryAssumption DEF Inserted, RolesOf
<1>2. x \in NewRoles(r) => x.id[1] = r
  BY DEF NewRoles
<1>3. x = Reinserted(r) => x.protocol = NoRow
  BY DEF Reinserted
<1> QED
  BY <1>1, <1>2, <1>3, RoleRows DEF Inserted, RolesOf

LEMMA SnapshotsPreserved ==
  ASSUME LocalTypes, TableTypes, Control, Origins, SnapshotsWhole,
         NEW r \in Requests, Act(r), Moves(r), Effect(r)
  PROVE  SnapshotsWhole'
<1> SUFFICES ASSUME NEW s \in Requests, NEW q \in Requests, Saves(s)',
                    NEW p, p = input'[s].protocol
             PROVE  \/ \A x \in Inserted(q, p)' : x.id \in snap'[s].roles
                    \/ \A x \in Inserted(q, p)' : x.id \notin snap'[s].roles
  BY DEF SnapshotsWhole, Inserted, RolesOf
<1>1. CASE s # r
  <2>1. Saves(s) /\ snap'[s] = snap[s] /\ p = input[s].protocol
    BY <1>1 DEF Moves, Alone, Saves, Op
  <2>2. p \in Protocols
    BY <2>1, InputFacts DEF Saves, Control, ControlOf, Op
  <2>3. CASE q = r /\ StoresProtocol(r)
    <3>1. \A id \in snap[s].roles : id[1] # r
      BY <2>1, <2>3, StoresProtocolFacts DEF Origins, Done, Saves
    <3>2. \A x \in Inserted(q, p)' : x.id[1] = r
      BY <2>3 DEF Inserted
    <3> QED
      BY <2>1, <3>1, <3>2
  <2>4. CASE ~(q = r /\ StoresProtocol(r))
    <3>1. Inserted(q, p)' \subseteq Inserted(q, p)
      BY <2>2, <2>4, InsertedRoles
    <3> QED
      BY <2>1, <3>1 DEF SnapshotsWhole
  <2> QED
    BY <2>3, <2>4
<1>2. CASE s = r
  <2>1. SelectProtocol(r) /\ input'[r] = input[r]
    BY <1>2, SavesSteps DEF Moves
  <2>2. snap'[r].roles = {x.id : x \in RolesOf(p)} /\ roles' = roles
    BY <1>2, <2>1 DEF SelectProtocol, EmptySnapshot, LocalTypes, tables
  <2> QED
    BY <1>2, <2>2 DEF Inserted, RolesOf
<1> QED
  BY <1>1, <1>2

\* WholeWrites in terms of Inserted.
Whole(r, p) == Inserted(r, p) # {} => {x.name : x \in Inserted(r, p)} = DOMAIN input[r].roles

LEMMA WholeWritesByRequest ==
  /\ WholeWrites <=> \A q \in Requests, p \in Protocols : Whole(q, p)
  /\ WholeWrites' <=> \A q \in Requests, p \in Protocols : Whole(q, p)'
BY DEF WholeWrites, Whole, Inserted

LEMMA WholeWritesPreserved ==
  ASSUME LocalTypes, TableTypes, Control, Origins, SnapshotsWhole, WholeWrites,
         NEW r \in Requests, Act(r), Moves(r), Effect(r)
  PROVE  WholeWrites'
<1> SUFFICES ASSUME NEW q \in Requests, NEW p \in Protocols
             PROVE  Whole(q, p)'
  BY WholeWritesByRequest
<1>1. ASSUME Inserted(q, p)' = Inserted(q, p) \/ Inserted(q, p)' = {}
      PROVE  Whole(q, p)'
  <2>1. CASE Inserted(q, p) # {} /\ Inserted(q, p)' = Inserted(q, p)
    <3>1. q # r
      BY <2>1, NothingInsertedBefore DEF Moves, Inserted, RolesOf
    <3>2. input'[q] = input[q]
      BY <3>1 DEF Moves, Alone
    <3> QED
      BY <2>1, <3>2, WholeWritesByRequest DEF Whole
  <2>2. CASE Inserted(q, p)' = {}
    BY <2>2 DEF Whole
  <2> QED
    BY <1>1, <2>1, <2>2
<1>2. p # NoRow
  BY RegistryAssumption
<1>3. CASE roles' = roles
  BY <1>1, <1>3 DEF Inserted, RolesOf
<1>4. ASSUME NEW p2 \in Protocols, DropsRolesOf(p2)
      PROVE  Whole(q, p)'
  <2>1. roles' = roles \ RolesOf(p2)
    BY <1>4 DEF DropsRolesOf, DropRoles
  <2>2. Inserted(q, p)' = IF p = p2 THEN {} ELSE Inserted(q, p)
    BY <2>1 DEF Inserted, RolesOf
  <2> QED
    BY <1>1, <2>2
<1>5. CASE StoresRole(r)
  <2>1. Inserted(q, p)' = Inserted(q, p)
    BY <1>2, <1>5, StoresRoleFacts DEF Inserted, RolesOf, Reinserted
  <2> QED
    BY <1>1, <2>1
<1>6. CASE StoresProtocol(r)
  <2>1. /\ Saves(r) /\ pc[r] # "done" /\ roles' = {Orphaned(x, snap[r]) : x \in roles} \cup NewRoles(r)
        /\ input'[r] = input[r]
    BY <1>6, StoresProtocolFacts DEF Saves, Moves
  <2>2. \A x \in roles : /\ Orphaned(x, snap[r]).id = x.id
                         /\ x.id \in snap[r].roles => Orphaned(x, snap[r]).protocol = NoRow
                         /\ x.id \notin snap[r].roles => Orphaned(x, snap[r]) = x
    BY DEF Orphaned, TableTypes, Role
  <2>3. CASE q = r
    <3>1. \A x \in roles : x.id[1] # r
      BY <2>1, NothingInsertedBefore
    <3>2. Inserted(r, p)' = {x \in NewRoles(r) : x.protocol = p}
      BY <2>1, <2>2, <3>1 DEF Inserted, RolesOf, NewRoles
    <3>3. CASE p = input[r].protocol
      <4>1. Inserted(r, p)' = NewRoles(r)
        BY <3>2, <3>3 DEF NewRoles
      <4>2. {x.name : x \in NewRoles(r)} = DOMAIN input[r].roles
        <5>1. \A x \in NewRoles(r) : x.name \in DOMAIN input[r].roles
          BY DEF NewRoles
        <5>2. ASSUME NEW n \in DOMAIN input[r].roles
              PROVE  \E x \in NewRoles(r) : x.name = n
          <6>1. [id |-> <<r, n>>, name |-> n, protocol |-> input[r].protocol] \in NewRoles(r)
            BY DEF NewRoles
          <6> QED
            BY <6>1
        <5> QED
          BY <5>1, <5>2
      <4> QED
        BY <2>1, <2>3, <4>1, <4>2 DEF Whole
    <3>4. CASE p # input[r].protocol
      <4>1. Inserted(r, p)' = {}
        BY <3>2, <3>4 DEF NewRoles
      <4> QED
        BY <2>3, <4>1 DEF Whole
    <3> QED
      BY <3>3, <3>4
  <2>4. CASE q # r
    <3>1. \A x \in NewRoles(r) : x.id[1] = r
      BY DEF NewRoles
    <3>2. Inserted(q, p)' = {x \in Inserted(q, p) : x.id \notin snap[r].roles}
      BY <1>2, <2>1, <2>2, <2>4, <3>1 DEF Inserted, RolesOf
    <3>3. CASE p = input[r].protocol
      BY <1>1, <2>1, <3>2, <3>3 DEF SnapshotsWhole
    <3>4. CASE p # input[r].protocol
      <4>1. ASSUME NEW x \in Inserted(q, p), x.id \in snap[r].roles
            PROVE  FALSE
        <5>1. x \in roles /\ x.id[1] = q /\ x.protocol = p
          BY DEF Inserted, RolesOf
        <5>2. OfProtocol(x.id, p) /\ OfProtocol(x.id, input[r].protocol)
          BY <1>2, <2>1, <4>1, <5>1 DEF Origins
        <5> QED
          BY <3>4, <5>1, <5>2 DEF OfProtocol
      <4>2. Inserted(q, p)' = Inserted(q, p)
        BY <3>2, <4>1
      <4> QED
        BY <1>1, <4>2
    <3> QED
      BY <3>3, <3>4
  <2> QED
    BY <2>3, <2>4
<1>7. CASE UNCHANGED tables \/ SavesAsset(r) \/ StoresAas(r) \/ \E a \in AasIds : DeletesAas(a)
  <2>1. roles' = roles
    BY <1>7, StoresAasFacts DEF tables, SavesAsset, roleTables, DeletesAas
  <2> QED
    BY <1>3, <2>1
<1> QED
  BY <1>4, <1>5, <1>6, <1>7 DEF Effect

------------------------------------------------------------------------------
(* Failures, credentials and members *)

\* A request ends well, or without a further write: with an error if it was to save.
LEMMA Endings ==
  ASSUME LocalTypes, NEW r \in Requests, Act(r), pc'[r] = "done"
  PROVE  \/ answer'[r] = "ok"
         \/ dirty' = dirty /\ (answer'[r] = "error" \/ pc[r] \notin {"save", "write"})
<1>1. \A status : Reply(r, status) => answer'[r] = status
  BY DEF Reply, LocalTypes
<1>2. \A label : GoTo(r, label) => pc'[r] = label
  BY DEF GoTo, LocalTypes
<1>3. CASE \E i \in Inputs : Receive(r, i)
  BY <1>3 DEF Receive, At
<1>4. CASE Connect(r) \/ Read(r)
  BY <1>4 DEF Connect, Read, At
<1>5. CASE SelectAsset(r) \/ SelectAas(r) \/ SelectProtocol(r) \/ SelectRole(r) \/ DeleteRoles(r)
  BY <1>2, <1>5 DEF SelectAsset, SelectAas, SelectProtocol, SelectRole, DeleteRoles
<1>6. CASE SaveAsset(r) \/ FindAas(r) \/ FindProtocol(r) \/ ListIds(r) \/ FindRole(r) \/ FindAasOfRole(r)
  <2>1. pc[r] \notin {"save", "write"}
    BY <1>6 DEF SaveAsset, FindAas, FindProtocol, ListIds, FindRole, FindAasOfRole, At
  <2>2. dirty' = dirty
    BY <1>2, <1>6 DEF SaveAsset, FindAas, FindProtocol, ListIds, FindRole, FindAasOfRole
  <2> QED
    BY <2>1, <2>2
<1>7. CASE WriteAas(r)
  BY <1>1, <1>7 DEF WriteAas
<1>8. CASE WriteProtocol(r)
  BY <1>1, <1>8 DEF WriteProtocol
<1>9. CASE WriteRole(r)
  BY <1>1, <1>9 DEF WriteRole
<1>10. CASE DeleteAas(r) \/ DeleteProtocol(r) \/ \E p \in Protocols : ReadListed(r, p)
  BY <1>1, <1>10 DEF DeleteAas, DeleteProtocol, ReadListed, At
<1> QED
  BY <1>3, <1>4, <1>5, <1>6, <1>7, <1>8, <1>9, <1>10 DEF Act, DescriptorStep, ProtocolStep, RoleStep

LEMMA TracesPreserved ==
  ASSUME LocalTypes, Control, TracesOfFailure, NEW r \in Requests, Act(r), Moves(r)
  PROVE  TracesOfFailure'
<1>1. ASSUME NEW q \in dirty', q # r
      PROVE  q \in dirty /\ answer'[q] = answer[q] /\ Op(q)' = Op(q)
  BY <1>1 DEF Moves, Alone, LocalTypes, Op
<1>2. CASE pc'[r] # "done"
  <2>1. answer'[r] = "none"
    BY <1>2 DEF Moves, ControlOf
  <2> QED
    BY <1>1, <2>1 DEF TracesOfFailure
<1>3. CASE pc'[r] = "done"
  <2>1. ASSUME r \in dirty', answer'[r] # "ok"
        PROVE  answer'[r] = "error" /\ Op(r)' \in {"AdminPutAas", "AdminPutProtocol", "PatchProtocol"}
    <3>1. r \in dirty /\ (answer'[r] = "error" \/ pc[r] \notin {"save", "write"})
      BY <1>3, <2>1, Endings
    <3>2. Halfway(r) /\ pc[r] # "idle"
      BY <3>1 DEF Moves, Control, ControlOf, Halfway
    <3> QED
      BY <3>1, <3>2 DEF Halfway, Moves, Op
  <2> QED
    BY <1>1, <2>1 DEF TracesOfFailure
<1> QED
  BY <1>2, <1>3

\* One endpoint row's credentials.
Fresh(e) == {endpoints[e].user, endpoints[e].password} \subseteq {NoRow, endpoints[e].salt}
PartlyWritten(e) == \E q \in dirty : /\ IsAasWrite(q) /\ e \in DOMAIN input[q].endpoints
                                     /\ input[q].endpoints[e] \in {"user", "password"}

LEMMA StaleSaltByRow ==
  /\ StaleSaltNeedsPartialWrite <=>
       \A e \in Addresses : endpoints[e] # NoRow => Fresh(e) \/ PartlyWritten(e)
  /\ StaleSaltNeedsPartialWrite' <=>
       \A e \in Addresses : endpoints'[e] # NoRow => Fresh(e)' \/ PartlyWritten(e)'
BY DEF StaleSaltNeedsPartialWrite, Fresh, PartlyWritten

LEMMA StaleSaltPreserved ==
  ASSUME LocalTypes, TableTypes, Control, StaleSaltNeedsPartialWrite,
         NEW r \in Requests, Moves(r), Effect(r)
  PROVE  StaleSaltNeedsPartialWrite'
<1> SUFFICES ASSUME NEW e \in Addresses, endpoints'[e] # NoRow
             PROVE  Fresh(e)' \/ PartlyWritten(e)'
  BY StaleSaltByRow
<1>1. PartlyWritten(e) => PartlyWritten(e)'
  <2>1. \A q \in dirty : q \in dirty' /\ input'[q] = input[q]
    BY DEF Moves, Alone, LocalTypes, Control, ControlOf, Halfway
  <2> QED
    BY <2>1 DEF PartlyWritten, IsAasWrite, Op
<1>2. CASE endpoints'[e] = endpoints[e]
  <2>1. Fresh(e) => Fresh(e)'
    BY <1>2 DEF Fresh
  <2> QED
    BY <1>1, <1>2, <2>1, StaleSaltByRow
<1>3. CASE endpoints'[e] # endpoints[e]
  <2>1. StoresAas(r)
    BY <1>3 DEF Effect, tables, SavesAsset, StoresProtocol, WriteProtocol, StoresRole, WriteRole,
       aasTables, DeletesAas, DropsRolesOf
  <2>2. e \in DOMAIN input[r].endpoints /\ endpoints'[e] = StoredEndpoint(r, e)
    BY <1>3, <2>1, StoresAasFacts
  <2> DEFINE given == input[r].endpoints[e]
  <2> DEFINE old == IF endpoints[e] = NoRow THEN NoCredentials ELSE endpoints[e]
  <2>3. endpoints'[e] = Encrypted(old, given, r)
    BY <2>2 DEF StoredEndpoint
  <2>4. CASE given \in {"user", "password"}
    <3>1. r \in dirty' /\ IsAasWrite(r) /\ input'[r] = input[r]
      BY <2>1, StoresAasFacts DEF Moves
    <3> QED
      BY <2>2, <2>4, <3>1 DEF PartlyWritten, IsAasWrite, Op
  <2>5. CASE given = "both"
    BY <2>3, <2>5 DEF Encrypted, Fresh
  <2>6. CASE given = "neither"
    <3>1. endpoints'[e] = [user |-> old.user, password |-> old.password, salt |-> old.salt]
      BY <2>3, <2>6 DEF Encrypted
    <3>2. CASE endpoints[e] = NoRow
      BY <3>1, <3>2 DEF NoCredentials, Fresh
    <3>3. CASE endpoints[e] # NoRow
      <4>1. Fresh(e) \/ PartlyWritten(e)
        BY <3>3, StaleSaltByRow
      <4>2. Fresh(e) => Fresh(e)'
        BY <3>1, <3>3 DEF Fresh
      <4> QED
        BY <1>1, <4>1, <4>2
    <3> QED
      BY <3>2, <3>3
  <2>7. given \in Given
    <3>1. input[r] \in AasWrite
      BY <2>1, StoresAasFacts, RegistryAssumption DEF IsAasWrite, Op, Input, AasWrite, AasRead, ProtocolWrite,
         ProtocolRead, RoleWrite, RoleDelete, RoleRead, Lists, Invalid
    <3> QED
      BY <2>2, <3>1 DEF AasWrite
  <2> QED
    BY <2>4, <2>5, <2>6, <2>7 DEF Given
<1> QED
  BY <1>2, <1>3

LEMMA SteadinessPreserved ==
  ASSUME LocalTypes, TableTypes, TableTypes', Control, Steadiness,
         NEW r \in Requests, Act(r), Moves(r), Track
  PROVE  Steadiness'
<1>1. \A q \in Requests : steady'[q] \subseteq members'
  BY DEF Track
<1>2. ASSUME NEW q \in Requests, HasRole(q)', pc[q] # "idle"
      PROVE  steady'[q] \subseteq steady[q]
  BY <1>2 DEF Track, HasRole
<1>3. ASSUME NEW q \in Requests, q # r
      PROVE  SteadyOf(q)'
  <2>1. CASE HasRole(q)'
    <3>1. /\ HasRole(q) /\ pc'[q] = pc[q] /\ Op(q)' = Op(q) /\ input'[q] = input[q]
          /\ found'[q] = found[q] /\ ids'[q] = ids[q] /\ snap'[q] = snap[q]
      BY <1>3, <2>1 DEF Moves, Alone, HasRole, Op
    <3>2. steady'[q] \subseteq steady[q]
      BY <1>2, <2>1, <3>1 DEF HasRole
    <3> QED
      BY <1>1, <2>1, <3>1, <3>2 DEF Steadiness, SteadyOf
  <2>2. CASE ~HasRole(q)'
    BY <1>1, <2>2 DEF SteadyOf
  <2> QED
    BY <2>1, <2>2
<1>4. ASSUME HasRole(r)'
      PROVE  SteadyOf(r)'
  <2>1. pc[r] # "idle" /\ Op(r) \in RoleWrites /\ input'[r] = input[r] /\ Op(r)' = Op(r)
    BY <1>4, RoleSteps DEF Moves, Op
  <2>2. steady'[r] \subseteq steady[r] /\ steady'[r] \subseteq members'
    BY <1>1, <1>2, <1>4, <2>1
  <2>3. ASSUME NEW m \in steady'[r], UNCHANGED members
        PROVE  m \in members /\ m = <<m[1], m[2]>> /\ m[2] \in AasIds /\ m[2] \in MembersOf(m[1])
    BY <2>2, <2>3 DEF TableTypes, MembersOf
  <2>4. pc'[r] \in {"findAas", "save", "write"}
    BY <1>4 DEF HasRole
  <2>5. CASE FindRole(r)
    <3>1. UNCHANGED members /\ pc'[r] # "write" /\ pc'[r] # "done"
      BY <2>4, <2>5 DEF FindRole, tables, GoTo, Reply, LocalTypes
    <3>2. CASE Op(r) = "PatchRole"
      BY <1>1, <2>1, <2>5, <3>1, <3>2 DEF FindRole, Reply, LocalTypes, SteadyOf
    <3>3. CASE Op(r) = "DeleteRoleAas"
      <4>1. PICK x \in Named(r) : found'[r] = x.id /\ ids'[r] = Without(x, input[r].aas)
        BY <2>5, <3>1, <3>3 DEF FindRole, Reply, LocalTypes
      <4>2. \A m \in steady'[r] : m[1] = found'[r] => (m[2] \in ids'[r] <=> m[2] # input[r].aas)
        BY <2>3, <3>1, <4>1 DEF Without
      <4> QED
        BY <2>1, <2>2, <3>1, <3>3, <4>2 DEF SteadyOf
    <3> QED
      BY <2>1, <3>2, <3>3 DEF RoleWrites
  <2>6. CASE HasRole(r) /\ FindAasOfRole(r)
    <3>1. UNCHANGED <<found, ids>> /\ pc'[r] # "write"
      BY <2>4, <2>6 DEF FindAasOfRole, Forgets, Reply, GoTo, LocalTypes
    <3> QED
      BY <2>1, <2>2, <2>6, <3>1 DEF Steadiness, SteadyOf
  <2>7. CASE HasRole(r) /\ SelectRole(r)
    <3>1. UNCHANGED <<found, ids, members>> /\ snap'[r].members = MembersOf(found[r])
      BY <2>7 DEF SelectRole, EmptySnapshot, LocalTypes, tables
    <3> QED
      BY <2>1, <2>2, <2>3, <2>7, <3>1 DEF Steadiness, SteadyOf
  <2> QED
    BY <1>4, <2>5, <2>6, <2>7, RoleSteps
<1>5. ~HasRole(r)' => SteadyOf(r)'
  BY <1>1 DEF SteadyOf
<1> QED
  BY <1>3, <1>4, <1>5 DEF Steadiness

------------------------------------------------------------------------------
(* The invariant *)

LEMMA TypesByPart ==
  /\ TypeOK <=> /\ LocalTypes /\ TableTypes /\ connection \in {"absent", "connecting", "open", "failed"}
                /\ steady \in [Requests -> SUBSET (RoleIds \X AasIds)]
  /\ TypeOK' <=> /\ LocalTypes' /\ TableTypes' /\ connection' \in {"absent", "connecting", "open", "failed"}
                 /\ steady' \in [Requests -> SUBSET (RoleIds \X AasIds)]
BY DEF TypeOK, LocalTypes, TableTypes

LEMMA ConnectionTyped ==
  ASSUME connection \in {"absent", "connecting", "open", "failed"}, NEW r \in Requests, Act(r)
  PROVE  connection' \in {"absent", "connecting", "open", "failed"}
<1>1. CASE \E i \in Inputs : Receive(r, i)
  BY <1>1 DEF Receive
<1>2. CASE Connect(r)
  BY <1>2 DEF Connect
<1>3. CASE Read(r) \/ DescriptorStep(r) \/ ProtocolStep(r) \/ RoleStep(r)
  <2>1. connection' = connection
    BY <1>3 DEF Read, DescriptorStep, ProtocolStep, RoleStep, SelectAsset, SaveAsset, FindAas, SelectAas,
       WriteAas, DeleteAas, FindProtocol, DeleteRoles, SelectProtocol, WriteProtocol, DeleteProtocol,
       ListIds, ReadListed, FindRole, FindAasOfRole, SelectRole, WriteRole
  <2> QED
    BY <2>1
<1> QED
  BY <1>1, <1>2, <1>3 DEF Act

LEMMA StepPreserves ==
  ASSUME Inv, NEW r \in Requests, Step(r)
  PROVE  Inv'
<1>1. LocalTypes /\ TableTypes /\ Control
  BY TypesByPart DEF Inv
<1>2. Act(r) /\ Track
  BY DEF Step, Act
<1>3. Moves(r) /\ Effect(r)
  BY <1>1, <1>2, ActMoves
<1>4. LocalTypes' /\ TableTypes'
  BY <1>1, <1>3, TablesTyped DEF Moves
<1>5. TypeOK'
  <2>1. connection' \in {"absent", "connecting", "open", "failed"}
    BY <1>2, TypesByPart, ConnectionTyped DEF Inv
  <2>2. steady' \in [Requests -> SUBSET (RoleIds \X AasIds)]
    <3>1. members' \subseteq RoleIds \X AasIds
      BY <1>4 DEF TableTypes
    <3>2. \A q \in Requests : steady[q] \cap members' \subseteq RoleIds \X AasIds
      BY <3>1
    <3> QED
      BY <1>2, <3>1, <3>2 DEF Track
  <2> QED
    BY <1>4, <2>1, <2>2, TypesByPart
<1>6. Control' /\ Origins' /\ SnapshotsWhole' /\ WholeWrites'
  BY <1>1, <1>2, <1>3, ControlPreserved, OriginsPreserved, SnapshotsPreserved, WholeWritesPreserved DEF Inv
<1>7. TracesOfFailure' /\ ReferencesHold' /\ StaleSaltNeedsPartialWrite'
  BY <1>1, <1>2, <1>3, TracesPreserved, ReferencesPreserved, StaleSaltPreserved DEF Inv
<1>8. Steadiness'
  BY <1>1, <1>2, <1>3, <1>4, SteadinessPreserved DEF Inv
<1> QED
  BY <1>5, <1>6, <1>7, <1>8 DEF Inv

LEMMA StutterPreserves == Inv /\ UNCHANGED vars => Inv'
<1> SUFFICES ASSUME Inv, UNCHANGED vars
             PROVE  Inv'
  OBVIOUS
<1> USE DEF vars, tables, locals
<1>1. TypeOK'
  BY DEF Inv, TypeOK
<1>2. Control' /\ Origins' /\ SnapshotsWhole' /\ Steadiness'
  BY DEF Inv, Control, ControlOf, LocalsOf, HasRole, Halfway, Op, Origins, Done, OfProtocol, Saves,
     SnapshotsWhole, Inserted, RolesOf, Steadiness, SteadyOf
<1>3. WholeWrites' /\ TracesOfFailure'
  BY DEF Inv, WholeWrites, RolesOf, TracesOfFailure, Op
<1>4. ReferencesHold' /\ StaleSaltNeedsPartialWrite'
  BY DEF Inv, ReferencesHold, Registered, StaleSaltNeedsPartialWrite, IsAasWrite, Op
<1> QED
  BY <1>1, <1>2, <1>3, <1>4 DEF Inv

LEMMA InitEstablishes == Init => Inv
<1> SUFFICES ASSUME Init
             PROVE  Inv
  OBVIOUS
<1>1. PICK s \in Seeds : /\ assets = s.assets /\ descriptors = s.descriptors /\ endpoints = s.endpoints
                         /\ listed = s.listed /\ protocols = s.protocols /\ roles = s.roles
                         /\ members = s.members
  BY DEF Init
<1>2. /\ pc = [r \in Requests |-> "idle"] /\ input = [r \in Requests |-> NoRow]
      /\ found = [r \in Requests |-> NoRow] /\ ids = [r \in Requests |-> {}]
      /\ snap = [r \in Requests |-> EmptySnapshot] /\ answer = [r \in Requests |-> "none"]
      /\ dirty = {} /\ steady = [r \in Requests |-> members] /\ connection = "absent"
  BY DEF Init
<1>3. roles \subseteq [id : {Initializer} \X RoleNames, name : RoleNames, protocol : protocols]
  BY <1>1, SeedsAssumption
<1>4. TableTypes
  <2>1. assets \subseteq Assets /\ descriptors \in [AasIds -> Assets \cup {NoRow}]
    BY <1>1, SeedsAssumption
  <2>2. endpoints \in [Addresses -> Credentials \cup {NoRow}]
    <3>1. [user : {Initializer, NoRow}, password : {Initializer, NoRow}, salt : {Initializer}]
            \cup {NoCredentials, NoRow} \subseteq Credentials \cup {NoRow}
      BY DEF Credentials, NoCredentials, Writers
    <3> QED
      BY <1>1, <3>1, SeedsAssumption
  <2>3. listed \subseteq AasIds \X Addresses /\ protocols \subseteq Protocols
    BY <1>1, SeedsAssumption
  <2>4. roles \subseteq Role
    BY <1>3, <2>3 DEF Role, RoleIds, Writers
  <2>5. members \subseteq RoleIds \X AasIds
    BY <1>1, <2>4, SeedsAssumption DEF Role
  <2> QED
    BY <2>1, <2>2, <2>3, <2>4, <2>5 DEF TableTypes
<1>5. TypeOK
  <2>1. LocalTypes
    BY <1>2 DEF LocalTypes, Labels, EmptySnapshot, Snapshot
  <2> QED
    BY <1>2, <1>4, <2>1, TypesByPart DEF TableTypes
<1>6. Control /\ SnapshotsWhole /\ Steadiness /\ TracesOfFailure
  BY <1>2 DEF Control, ControlOf, LocalsOf, HasRole, SnapshotsWhole, Saves, Steadiness, SteadyOf, TracesOfFailure
<1>7. \A x \in roles : x.id[1] \notin Requests
  BY <1>3, RegistryAssumption
<1>8. Origins /\ WholeWrites
  BY <1>2, <1>7 DEF Origins, Done, OfProtocol, HasRole, Saves, WholeWrites, RolesOf
<1>9. ReferencesHold
  <2>1. AssetsThere /\ AssetsOfOne
    BY <1>1, SeedsAssumption DEF AssetsThere, AssetsOfOne, Registered
  <2>2. ListedThere /\ MembersThere
    BY <1>1, SeedsAssumption DEF ListedThere, MembersThere, Registered
  <2>3. ProtocolsThere /\ NamesUnique
    BY <1>1, <1>3, SeedsAssumption DEF ProtocolsThere, NamesUnique
  <2> QED
    BY <2>1, <2>2, <2>3, ReferencesByTable
<1>10. StaleSaltNeedsPartialWrite
  <2>1. ASSUME NEW e \in Addresses, endpoints[e] # NoRow
        PROVE  Fresh(e)
    <3>1. endpoints[e] \in [user : {Initializer, NoRow}, password : {Initializer, NoRow}, salt : {Initializer}]
            \cup {NoCredentials}
      BY <1>1, <2>1, SeedsAssumption
    <3> QED
      BY <3>1 DEF Fresh, NoCredentials
  <2> QED
    BY <2>1, StaleSaltByRow
<1> QED
  BY <1>5, <1>6, <1>8, <1>9, <1>10 DEF Inv

------------------------------------------------------------------------------
(* Theorems *)

\* The invariant holds of the service, whatever requests run at once.
THEOREM InvHolds == Spec => []Inv
<1>1. Inv /\ [Next]_vars => Inv'
  BY StepPreserves, StutterPreserves DEF Next
<1> QED
  BY <1>1, InitEstablishes, PTL DEF Spec

\* Tables, locals and history keep their types (Registry.ts, RegistryApi.ts).
THEOREM TypesHold == Spec => []TypeOK
<1>1. Inv => TypeOK
  BY DEF Inv
<1> QED
  BY <1>1, InvHolds, PTL

\* The roles of one PUT or PATCH are in their protocol together or not at all,
\* although they are deleted and saved by statements of their own.
THEOREM WholeWritesHold == Spec => []WholeWrites
<1>1. Inv => WholeWrites
  BY DEF Inv
<1> QED
  BY <1>1, InvHolds, PTL

\* A refused request has changed nothing, and one that fails leaves a trace only
\* where the code writes in two steps.
THEOREM TracesOfFailureHold == Spec => []TracesOfFailure
<1>1. Inv => TracesOfFailure
  BY DEF Inv
<1> QED
  BY <1>1, InvHolds, PTL

\* The interleaved writes of requests leave no row that refers to none.
THEOREM ReferencesAlwaysHold == Spec => []ReferencesHold
<1>1. Inv => ReferencesHold
  BY DEF Inv
<1> QED
  BY <1>1, InvHolds, PTL

\* Credentials are encrypted with the salt in their row unless a request gave one
\* of the two alone.
THEOREM StaleSaltNeedsPartialWriteHolds == Spec => []StaleSaltNeedsPartialWrite
<1>1. Inv => StaleSaltNeedsPartialWrite
  BY DEF Inv
<1> QED
  BY <1>1, InvHolds, PTL

\* A role that was replaced does not come back into a protocol.
THEOREM ReplacedRolesStayAwayHolds == Spec => ReplacedRolesStayAway
<1> DEFINE A == \A x \in roles' \ roles :
                  x.protocol # NoRow => x.id[1] \in Requests /\ At(x.id[1], "write")
<1>1. Inv /\ [Next]_vars => [A]_vars
  <2> SUFFICES ASSUME Inv, NEW r \in Requests, Step(r), NEW x \in roles' \ roles, x.protocol # NoRow
               PROVE  x.id[1] \in Requests /\ At(x.id[1], "write")
    BY DEF Next
  <2>1. LocalTypes /\ TableTypes /\ Control /\ Act(r)
    BY TypesByPart DEF Inv, Step, Act
  <2>2. Effect(r)
    BY <2>1, ActMoves
  <2>3. StoresProtocol(r) /\ x \in NewRoles(r)
    BY <2>1, <2>2, RoleRows DEF Reinserted
  <2>4. x.id[1] = r /\ pc[r] = "write"
    BY <2>1, <2>3, StoresProtocolFacts DEF NewRoles, Saves
  <2> QED
    BY <2>4 DEF At
<1> QED
  BY <1>1, InvHolds, PTL DEF Spec, ReplacedRolesStayAway

\* An acknowledged update of a role leaves, of the members that stayed while it
\* ran, exactly those it wants.
THEOREM UpdatesRespectWhatStayedHolds == Spec => UpdatesRespectWhatStayed
<1> DEFINE A == \A r \in Requests :
       pc[r] = "write" /\ answer'[r] = "ok" /\ Op(r) \in {"PatchRole", "DeleteRoleAas"} =>
         \A m \in steady[r] : m[1] = found[r] =>
           (m \in members' <=> IF Op(r) = "PatchRole" THEN m[2] \in input[r].members
                                                      ELSE m[2] # input[r].aas)
<1>1. Inv /\ [Next]_vars => [A]_vars
  <2> SUFFICES ASSUME Inv, NEW q \in Requests, Step(q), NEW r \in Requests,
                      pc[r] = "write", answer'[r] = "ok", Op(r) \in {"PatchRole", "DeleteRoleAas"},
                      NEW m \in steady[r], m[1] = found[r]
               PROVE  m \in members' <=> IF Op(r) = "PatchRole" THEN m[2] \in input[r].members
                                                                ELSE m[2] # input[r].aas
    BY DEF Next
  <2>1. LocalTypes /\ TableTypes /\ Control /\ Act(q)
    BY TypesByPart DEF Inv, Step, Act
  <2>2. Moves(q) /\ answer[r] = "none"
    BY <2>1, ActMoves DEF Control, ControlOf
  <2>3. q = r
    BY <2>2 DEF Moves, Alone
  <2>4. WriteRole(r)
    <3>1. ~Read(r) /\ ~Connect(r) /\ ~DescriptorStep(r) /\ \A i \in Inputs : ~Receive(r, i)
      BY DEF Read, Connect, Receive, At, DescriptorStep, SelectAsset, SaveAsset, FindAas, SelectAas,
         WriteAas, DeleteAas
    <3>2. ~ProtocolStep(r) /\ ~FindRole(r) /\ ~FindAasOfRole(r) /\ ~SelectRole(r)
      BY DEF At, ProtocolStep, FindProtocol, DeleteRoles, SelectProtocol, WriteProtocol, DeleteProtocol,
         ListIds, ReadListed, FindRole, FindAasOfRole, SelectRole
    <3> QED
      BY <2>1, <2>3, <3>1, <3>2 DEF Act, RoleStep
  <2>5. members' = (members \ ({found[r]} \X (snap[r].members \ ids[r])))
                     \cup ({found[r]} \X (ids[r] \ snap[r].members))
    <3>1. ~Reply(r, "error")
      BY <2>1 DEF Reply, LocalTypes
    <3> QED
      BY <2>4, <3>1 DEF WriteRole
  <2>6. HasRole(r) /\ SteadyOf(r)
    BY DEF HasRole, RoleWrites, Inv, Steadiness
  <2>7. m \in members /\ m = <<m[1], m[2]>> /\ m[2] \in snap[r].members
    BY <2>1, <2>6 DEF SteadyOf, TableTypes
  <2>8. m \in members' <=> m[2] \in ids[r]
    BY <2>5, <2>7
  <2> QED
    BY <2>6, <2>8 DEF SteadyOf
<1> QED
  BY <1>1, InvHolds, PTL DEF Spec, UpdatesRespectWhatStayed

==============================================================================
