--------------------------- MODULE EndpointRegistry ---------------------------
(***************************************************************************)
(* The endpoint registry: an HTTP service that keeps AAS descriptors and   *)
(* semantic protocols in PostgreSQL through TypeORM.  A request is a       *)
(* sequence of database statements with an await between any two of them,  *)
(* so the statements of concurrent requests interleave; there is no        *)
(* transaction around a request.                                           *)
(*                                                                         *)
(* TypeORM's save() is modelled as the service uses it: it reads the rows  *)
(* the entity is about, then writes the difference to the entity in one    *)
(* transaction, which fails as a whole if a row it inserts exists already, *)
(* if a unique constraint is broken, or if a row it refers to is gone.     *)
(***************************************************************************)
EXTENDS Naturals, FiniteSets

CONSTANTS
  Requests,    \* requests to the service
  AasIds,
  Assets,
  Addresses,   \* endpoints; their key is address and type
  Protocols,
  RoleNames,
  Inputs,      \* what a request can ask for
  Seeds,       \* table contents the initializer can have left
  NoRow        \* no value

VARIABLES
  assets,       \* table AssetEntity
  descriptors,  \* table AASDescriptorEntity: the asset of each registered AAS
  endpoints,    \* table EndpointEntity: its credentials, or NoRow
  listed,       \* join table of descriptors and endpoints
  protocols,    \* table SemanticProtocolEntity
  roles,        \* table RoleEntity
  members,      \* join table of roles and descriptors
  connection,   \* TypeORM's default connection
  pc,           \* next statement of each request
  input,        \* what it asks for
  found,        \* the role it loaded, or NoRow
  ids,          \* AAS ids or protocol ids it read
  snap,         \* what save() read
  answer,       \* HTTP status class, or "none"
  dirty,        \* requests that have changed a table (history)
  steady        \* members that stayed since a request arrived (history)

tables == <<assets, descriptors, endpoints, listed, protocols, roles, members>>
locals == <<pc, input, found, ids, snap, answer, dirty>>
vars == <<tables, connection, locals, steady>>

Initializer == "initializer"

Writers == Requests \cup {Initializer}

\* Credentials of an endpoint row.  A value is named after the request whose
\* salt it is encrypted with; so is the salt.
Credentials == [user : Writers \cup {NoRow}, password : Writers \cup {NoRow},
                salt : Writers \cup {NoRow}]

NoCredentials == [user |-> NoRow, password |-> NoRow, salt |-> NoRow]

\* What a request gives for an endpoint.
Given == {"both", "user", "password", "neither"}

\* A generated role id is named after the request that inserted the role.
RoleIds == Writers \X RoleNames

Role == [id : RoleIds, name : RoleNames, protocol : Protocols \cup {NoRow}]

AasWrite == [op : {"AdminPutAas", "PutAas", "PatchAas"}, aas : AasIds, asset : Assets,
             endpoints : UNION {[s -> Given] : s \in SUBSET Addresses}]
AasRead == [op : {"DeleteAas", "GetAas"}, aas : AasIds]
ProtocolWrite == [op : {"AdminPutProtocol", "PutProtocol", "PatchProtocol"}, protocol : Protocols,
                  roles : UNION {[s -> SUBSET AasIds] : s \in SUBSET RoleNames}]
ProtocolRead == [op : {"DeleteProtocol", "GetProtocol"}, protocol : Protocols]
RoleWrite == [op : {"PatchRole"}, protocol : Protocols, role : RoleNames, members : SUBSET AasIds]
RoleDelete == [op : {"DeleteRoleAas"}, protocol : Protocols, role : RoleNames, aas : AasIds]
RoleRead == [op : {"GetRoleAas"}, protocol : Protocols, role : RoleNames]
Lists == [op : {"ListAas", "ListProtocols"}]
Invalid == [op : {"Invalid"}]   \* whatever the middleware or the route refuses

Input == AasWrite \cup AasRead \cup ProtocolWrite \cup ProtocolRead
           \cup RoleWrite \cup RoleDelete \cup RoleRead \cup Lists \cup Invalid

ASSUME RegistryAssumption ==
  /\ Inputs \subseteq Input
  /\ Initializer \notin Requests
  /\ NoRow \notin Writers \cup Assets \cup Protocols
  /\ NoRow \notin Credentials \cup RoleIds \cup Input

\* The initializer is a client of the service: what it left has the service's
\* types and obeys the constraints of the database, and its credentials are
\* encrypted with its salt.
ASSUME SeedsAssumption ==
  \A s \in Seeds :
    /\ s.assets \subseteq Assets
    /\ s.descriptors \in [AasIds -> s.assets \cup {NoRow}]
    /\ \A a, b \in AasIds : s.descriptors[a] = s.descriptors[b] /\ s.descriptors[a] # NoRow => a = b
    /\ s.endpoints \in [Addresses -> [user : {Initializer, NoRow}, password : {Initializer, NoRow},
                                      salt : {Initializer}] \cup {NoCredentials, NoRow}]
    /\ s.listed \subseteq {a \in AasIds : s.descriptors[a] # NoRow}
                         \X {e \in Addresses : s.endpoints[e] # NoRow}
    /\ s.protocols \subseteq Protocols
    /\ s.roles \subseteq [id : {Initializer} \X RoleNames, name : RoleNames, protocol : s.protocols]
    /\ \A x, y \in s.roles : x.protocol = y.protocol /\ x.name = y.name => x = y
    /\ s.members \subseteq {x.id : x \in s.roles} \X {a \in AasIds : s.descriptors[a] # NoRow}

Labels == {"idle", "connect", "asset", "assetWrite", "find", "deleteRoles", "save", "write",
           "delete", "read", "findRole", "findAas", "list", "done"}

Snapshot == [row : BOOLEAN, asset : Assets \cup {NoRow}, assetRow : BOOLEAN,
             listed : SUBSET Addresses, stored : SUBSET Addresses,
             roles : SUBSET RoleIds, members : SUBSET AasIds]

EmptySnapshot == [row |-> FALSE, asset |-> NoRow, assetRow |-> FALSE, listed |-> {},
                  stored |-> {}, roles |-> {}, members |-> {}]

TypeOK ==
  /\ assets \subseteq Assets
  /\ descriptors \in [AasIds -> Assets \cup {NoRow}]
  /\ endpoints \in [Addresses -> Credentials \cup {NoRow}]
  /\ listed \subseteq AasIds \X Addresses
  /\ protocols \subseteq Protocols
  /\ roles \subseteq Role
  /\ members \subseteq RoleIds \X AasIds
  /\ connection \in {"absent", "connecting", "open", "failed"}
  /\ pc \in [Requests -> Labels]
  /\ input \in [Requests -> Inputs \cup {NoRow}]
  /\ found \in [Requests -> RoleIds \cup {NoRow}]
  /\ ids \in [Requests -> SUBSET (AasIds \cup Protocols)]
  /\ snap \in [Requests -> Snapshot]
  /\ answer \in [Requests -> {"none", "ok", "notFound", "refused", "error"}]
  /\ dirty \subseteq Requests
  /\ steady \in [Requests -> SUBSET (RoleIds \X AasIds)]

Registered == {a \in AasIds : descriptors[a] # NoRow}
RolesOf(p) == {x \in roles : x.protocol = p}
MembersOf(id) == {a \in AasIds : <<id, a>> \in members}

Init ==
  /\ \E s \in Seeds :
       /\ assets = s.assets
       /\ descriptors = s.descriptors
       /\ endpoints = s.endpoints
       /\ listed = s.listed
       /\ protocols = s.protocols
       /\ roles = s.roles
       /\ members = s.members
  /\ connection = "absent"
  /\ pc = [r \in Requests |-> "idle"]
  /\ input = [r \in Requests |-> NoRow]
  /\ found = [r \in Requests |-> NoRow]
  /\ ids = [r \in Requests |-> {}]
  /\ snap = [r \in Requests |-> EmptySnapshot]
  /\ answer = [r \in Requests |-> "none"]
  /\ dirty = {}
  /\ steady = [r \in Requests |-> members]

------------------------------------------------------------------------------
(* How a request moves on *)

At(r, label) == pc[r] = label

Op(r) == input[r].op

GoTo(r, label) ==
  /\ pc' = [pc EXCEPT ![r] = label]
  /\ UNCHANGED <<input, answer>>

\* An HTTPClientError is answered with its status, any other error with 500.
\* A request that is over forgets what it read.
Reply(r, status) ==
  /\ pc' = [pc EXCEPT ![r] = "done"]
  /\ answer' = [answer EXCEPT ![r] = status]
  /\ found' = [found EXCEPT ![r] = NoRow]
  /\ ids' = [ids EXCEPT ![r] = {}]
  /\ snap' = [snap EXCEPT ![r] = EmptySnapshot]
  /\ UNCHANGED input

Forgets(r) == UNCHANGED <<found, ids, snap>>

\* A bug that saves the asset first in PUT /AASDescriptors too.
AssetFirst(op) ==
  CASE op \in {"AdminPutAas", "PutAas"} -> "asset"
    [] op = "AdminPutProtocol" -> "deleteRoles"
    [] op \in {"PatchAas", "PutProtocol", "PatchProtocol"} -> "find"
    [] op \in {"DeleteAas", "DeleteProtocol"} -> "delete"
    [] op \in {"PatchRole", "DeleteRoleAas", "GetRoleAas"} -> "findRole"
    [] op = "ListProtocols" -> "list"
    [] op \in {"GetAas", "ListAas", "GetProtocol"} -> "read"

\* The first statement of each operation.
FirstStatement(op) ==
  CASE op = "AdminPutAas" -> "asset"
    [] op = "AdminPutProtocol" -> "deleteRoles"
    [] op \in {"PutAas", "PatchAas", "PutProtocol", "PatchProtocol"} -> "find"
    [] op \in {"DeleteAas", "DeleteProtocol"} -> "delete"
    [] op \in {"PatchRole", "DeleteRoleAas", "GetRoleAas"} -> "findRole"
    [] op = "ListProtocols" -> "list"
    [] op \in {"GetAas", "ListAas", "GetProtocol"} -> "read"

\* A request arrives.  An invalid one goes no further.  The first request finds no connection and opens one; requests that
\* arrive before it is open, or after it could not be opened, get a connection
\* object that cannot serve them.
Receive(r, i) ==
  /\ At(r, "idle")
  /\ input' = [input EXCEPT ![r] = i]
  /\ IF i.op = "Invalid"
       THEN /\ pc' = [pc EXCEPT ![r] = "done"]
            /\ answer' = [answer EXCEPT ![r] = "refused"]
            /\ UNCHANGED connection
       ELSE \/ /\ connection = "absent"
               /\ connection' = "connecting"
               /\ pc' = [pc EXCEPT ![r] = "connect"]
               /\ UNCHANGED answer
            \/ /\ connection = "open"
               /\ pc' = [pc EXCEPT ![r] = FirstStatement(i.op)]
               /\ UNCHANGED <<connection, answer>>
            \/ /\ connection \in {"connecting", "failed"}
               /\ pc' = [pc EXCEPT ![r] = "done"]
               /\ answer' = [answer EXCEPT ![r] = "error"]
               /\ UNCHANGED connection
  /\ Forgets(r)
  /\ UNCHANGED <<tables, dirty>>

\* createConnection() ends.
Connect(r) ==
  /\ At(r, "connect")
  /\ \/ /\ connection' = "open"
        /\ GoTo(r, FirstStatement(Op(r)))
        /\ Forgets(r)
     \/ /\ connection' = "failed"
        /\ Reply(r, "error")
  /\ UNCHANGED <<tables, dirty>>

------------------------------------------------------------------------------
(* AAS descriptors *)

aasTables == <<assets, descriptors, endpoints, listed>>
roleTables == <<protocols, roles, members>>

Touch(r) == dirty' = dirty \cup {r}

\* The asset of PUT /admin/AASDescriptors is saved first, on its own.
SelectAsset(r) ==
  /\ At(r, "asset")
  /\ GoTo(r, "assetWrite")
  /\ snap' = [snap EXCEPT ![r].assetRow = input[r].asset \in assets]
  /\ UNCHANGED <<tables, connection, found, ids, dirty>>

SaveAsset(r) ==
  /\ At(r, "assetWrite")
  /\ LET s == input[r].asset
         clash == ~snap[r].assetRow /\ s \in assets
     IN  \/ /\ clash
            /\ Reply(r, "error")
            /\ UNCHANGED <<assets, dirty>>
         \/ /\ ~clash
            /\ GoTo(r, "save")
            /\ Forgets(r)
            /\ assets' = assets \cup {s}
            /\ IF s \in assets THEN UNCHANGED dirty ELSE Touch(r)
  /\ UNCHANGED <<descriptors, endpoints, listed, roleTables, connection>>

\* PUT refuses an AAS that is registered, PATCH one that is not.
FindAas(r) ==
  /\ At(r, "find")
  /\ Op(r) \in {"PutAas", "PatchAas"}
  /\ IF (input[r].aas \in Registered) = (Op(r) = "PatchAas")
       THEN GoTo(r, "save") /\ Forgets(r)
       ELSE Reply(r, "refused")
  /\ UNCHANGED <<tables, connection, dirty>>

\* save(descriptor): the select.
SelectAas(r) ==
  /\ At(r, "save")
  /\ Op(r) \in {"AdminPutAas", "PutAas", "PatchAas"}
  /\ LET a == input[r].aas
     IN  snap' = [snap EXCEPT ![r] =
           [EmptySnapshot EXCEPT !.row = a \in Registered, !.asset = descriptors[a],
                                 !.assetRow = input[r].asset \in assets,
                                 !.listed = {e \in Addresses : <<a, e>> \in listed},
                                 !.stored = {e \in Addresses : endpoints[e] # NoRow}]]
  /\ GoTo(r, "write")
  /\ UNCHANGED <<tables, connection, found, ids, dirty>>

\* A bug that keeps the salt of a row that has one.
OldSaltKept(old, given, r) ==
  [user     |-> IF given \in {"both", "user"} THEN r ELSE old.user,
   password |-> IF given \in {"both", "password"} THEN r ELSE old.password,
   salt     |-> IF given = "neither" \/ old.salt # NoRow THEN old.salt ELSE r]

\* A bug that stores credentials without their salt.
SaltForgotten(old, given, r) ==
  [user     |-> IF given \in {"both", "user"} THEN r ELSE old.user,
   password |-> IF given \in {"both", "password"} THEN r ELSE old.password]

\* Columns the request leaves out keep their value.  A salt is drawn when a
\* user or a password is given, and used for what is given.
Encrypted(old, given, r) ==
  [user     |-> IF given \in {"both", "user"} THEN r ELSE old.user,
   password |-> IF given \in {"both", "password"} THEN r ELSE old.password,
   salt     |-> IF given = "neither" THEN old.salt ELSE r]

StoredEndpoint(r, e) ==
  Encrypted(IF endpoints[e] = NoRow THEN NoCredentials ELSE endpoints[e], input[r].endpoints[e], r)

\* An asset belongs to one descriptor; rows found by the select are updated,
\* the others inserted; join rows are inserted and deleted by difference.
AasWriteFails(r) ==
  LET i == input[r]
      s == snap[r]
      gone == i.aas \notin Registered
      added == DOMAIN i.endpoints \ s.listed
  IN  \/ ~s.assetRow /\ i.asset \in assets
      \/ \E e \in DOMAIN i.endpoints \ s.stored : endpoints[e] # NoRow
      \/ ~s.row /\ ~gone
      \/ /\ IF s.row THEN s.asset # i.asset /\ ~gone ELSE TRUE
         /\ \E b \in AasIds \ {i.aas} : descriptors[b] = i.asset
      \/ s.row /\ gone /\ added # {}
      \/ \E e \in added : <<i.aas, e>> \in listed

WriteAas(r) ==
  /\ At(r, "write")
  /\ Op(r) \in {"AdminPutAas", "PutAas", "PatchAas"}
  /\ \/ /\ AasWriteFails(r)
        /\ Reply(r, "error")
        /\ UNCHANGED <<aasTables, dirty>>
     \/ /\ ~AasWriteFails(r)
        /\ LET i == input[r]
               s == snap[r]
               wanted == DOMAIN i.endpoints
           IN  /\ assets' = assets \cup {i.asset}
               /\ endpoints' = [e \in Addresses |-> IF e \in wanted THEN StoredEndpoint(r, e)
                                                                  ELSE endpoints[e]]
               /\ descriptors' = IF ~s.row \/ (s.asset # i.asset /\ i.aas \in Registered)
                                   THEN [descriptors EXCEPT ![i.aas] = i.asset]
                                   ELSE descriptors
               /\ listed' = (listed \ ({i.aas} \X (s.listed \ wanted)))
                              \cup ({i.aas} \X (wanted \ s.listed))
        /\ Reply(r, "ok")
        /\ Touch(r)
  /\ UNCHANGED <<roleTables, connection>>

\* DELETE takes the join rows of the descriptor along; its endpoints and its
\* asset stay.
DeleteAas(r) ==
  /\ At(r, "delete")
  /\ Op(r) = "DeleteAas"
  /\ LET a == input[r].aas
     IN  \/ /\ a \notin Registered
            /\ Reply(r, "refused")
            /\ UNCHANGED <<tables, dirty>>
         \/ /\ a \in Registered
            /\ Reply(r, "ok")
            /\ Touch(r)
            /\ descriptors' = [descriptors EXCEPT ![a] = NoRow]
            /\ listed' = {l \in listed : l[1] # a}
            /\ members' = {m \in members : m[2] # a}
            /\ UNCHANGED <<assets, endpoints, protocols, roles>>
  /\ UNCHANGED connection

\* GET of one descriptor, of all, and of a protocol: one select each.  A
\* protocol without roles is answered with an empty object.
Read(r) ==
  /\ At(r, "read")
  /\ \/ /\ Op(r) = "GetAas"
        /\ Reply(r, IF input[r].aas \in Registered THEN "ok" ELSE "notFound")
     \/ /\ Op(r) = "GetProtocol"
        /\ Reply(r, IF input[r].protocol \in protocols THEN "ok" ELSE "refused")
     \/ /\ Op(r) = "ListAas"
        /\ Reply(r, "ok")
  /\ UNCHANGED <<tables, connection, dirty>>

------------------------------------------------------------------------------
(* Semantic protocols and their roles *)

FindProtocol(r) ==
  /\ At(r, "find")
  /\ Op(r) \in {"PutProtocol", "PatchProtocol"}
  /\ \/ /\ Op(r) = "PutProtocol"
        /\ input[r].protocol \notin protocols
        /\ GoTo(r, "save") /\ Forgets(r)
     \/ /\ Op(r) = "PatchProtocol"
        /\ input[r].protocol \in protocols
        /\ GoTo(r, "deleteRoles") /\ Forgets(r)
     \/ /\ (input[r].protocol \in protocols) = (Op(r) = "PutProtocol")
        /\ Reply(r, "refused")
  /\ UNCHANGED <<tables, connection, dirty>>

\* A bug that leaves the join rows of a deleted role.
DropRolesOnly(gone) ==
  /\ roles' = roles \ gone
  /\ UNCHANGED members

DropRoles(gone) ==
  /\ roles' = roles \ gone
  /\ members' = {m \in members : \A x \in gone : m[1] # x.id}

\* A bug that deletes only the roles that are given anew.
DeleteNamesakes(r) ==
  /\ At(r, "deleteRoles")
  /\ GoTo(r, "save") /\ Forgets(r)
  /\ DropRoles({x \in RolesOf(input[r].protocol) : x.name \in DOMAIN input[r].roles})
  /\ Touch(r)
  /\ UNCHANGED <<aasTables, protocols, connection>>

\* The roles a PUT or PATCH replaces are deleted by a statement of their own.
DeleteRoles(r) ==
  /\ At(r, "deleteRoles")
  /\ GoTo(r, "save") /\ Forgets(r)
  /\ DropRoles(RolesOf(input[r].protocol))
  /\ IF RolesOf(input[r].protocol) = {} THEN UNCHANGED dirty ELSE Touch(r)
  /\ UNCHANGED <<aasTables, protocols, connection>>

\* save(protocol): the select.
SelectProtocol(r) ==
  /\ At(r, "save")
  /\ Op(r) \in {"AdminPutProtocol", "PutProtocol", "PatchProtocol"}
  /\ LET p == input[r].protocol
     IN  snap' = [snap EXCEPT ![r] = [EmptySnapshot EXCEPT !.row = p \in protocols,
                                                           !.roles = {x.id : x \in RolesOf(p)}]]
  /\ GoTo(r, "write")
  /\ UNCHANGED <<tables, connection, found, ids, dirty>>

NewRoles(r) ==
  {[id |-> <<r, n>>, name |-> n, protocol |-> input[r].protocol] : n \in DOMAIN input[r].roles}

\* A role name is unique in its protocol; members must be registered.
ProtocolWriteFails(r) ==
  LET i == input[r]
  IN  \/ ~snap[r].row /\ i.protocol \in protocols
      \/ snap[r].row /\ i.protocol \notin protocols /\ DOMAIN i.roles # {}
      \/ \E x \in RolesOf(i.protocol) : x.name \in DOMAIN i.roles
      \/ \E n \in DOMAIN i.roles : ~ (i.roles[n] \subseteq Registered)

\* Roles the select found that are not among the new ones lose their protocol.
Orphaned(x, s) == IF x.id \in s.roles THEN [x EXCEPT !.protocol = NoRow] ELSE x

WriteProtocol(r) ==
  /\ At(r, "write")
  /\ Op(r) \in {"AdminPutProtocol", "PutProtocol", "PatchProtocol"}
  /\ \/ /\ ProtocolWriteFails(r)
        /\ Reply(r, "error")
        /\ UNCHANGED <<roleTables, dirty>>
     \/ /\ ~ProtocolWriteFails(r)
        /\ protocols' = IF snap[r].row THEN protocols ELSE protocols \cup {input[r].protocol}
        /\ roles' = {Orphaned(x, snap[r]) : x \in roles} \cup NewRoles(r)
        /\ members' = members \cup
             UNION {{<<r, n>>} \X input[r].roles[n] : n \in DOMAIN input[r].roles}
        /\ Reply(r, "ok")
        /\ Touch(r)
  /\ UNCHANGED <<aasTables, connection>>

\* Roles go with their protocol (onDelete CASCADE).
DeleteProtocol(r) ==
  /\ At(r, "delete")
  /\ Op(r) = "DeleteProtocol"
  /\ LET p == input[r].protocol
     IN  \/ /\ p \notin protocols
            /\ Reply(r, "refused")
            /\ UNCHANGED <<tables, dirty>>
         \/ /\ p \in protocols
            /\ protocols' = protocols \ {p}
            /\ DropRoles(RolesOf(p))
            /\ Reply(r, "ok")
            /\ Touch(r)
            /\ UNCHANGED aasTables
  /\ UNCHANGED connection

\* GET /semanticProtocols reads the ids, then every protocol on its own; the
\* first one that is gone fails the list.
ListIds(r) ==
  /\ At(r, "list")
  /\ Op(r) = "ListProtocols"
  /\ IF protocols = {}
       THEN Reply(r, "ok")
       ELSE /\ ids' = [ids EXCEPT ![r] = protocols]
            /\ GoTo(r, "read")
            /\ UNCHANGED <<found, snap>>
  /\ UNCHANGED <<tables, connection, dirty>>

ReadListed(r, p) ==
  /\ At(r, "read")
  /\ Op(r) = "ListProtocols"
  /\ p \in ids[r]
  /\ \/ /\ p \notin protocols
        /\ Reply(r, "refused")
     \/ /\ p \in protocols
        /\ ids[r] = {p}
        /\ Reply(r, "ok")
     \/ /\ p \in protocols
        /\ ids[r] # {p}
        /\ ids' = [ids EXCEPT ![r] = @ \ {p}]
        /\ UNCHANGED <<pc, input, answer, found, snap>>
  /\ UNCHANGED <<tables, connection, dirty>>

------------------------------------------------------------------------------
(* The AAS ids of a role *)

Named(r) == {x \in RolesOf(input[r].protocol) : x.name = input[r].role}

\* A bug in the filter: the id to remove is the one that is kept.
Only(x, a) == MembersOf(x.id) \cap {a}

Without(x, a) == MembersOf(x.id) \ {a}

FindRole(r) ==
  /\ At(r, "findRole")
  /\ \/ /\ Named(r) = {}
        /\ Reply(r, "refused")
     \/ \E x \in Named(r) :
          \/ /\ Op(r) = "GetRoleAas"
             /\ IF MembersOf(x.id) = {}
                  THEN Reply(r, "ok")
                  ELSE /\ GoTo(r, "findAas")
                       /\ ids' = [ids EXCEPT ![r] = MembersOf(x.id)]
                       /\ UNCHANGED <<found, snap>>
          \/ /\ Op(r) = "PatchRole"
             /\ GoTo(r, "findAas")
             /\ found' = [found EXCEPT ![r] = x.id]
             /\ ids' = [ids EXCEPT ![r] = input[r].members]
             /\ UNCHANGED snap
          \/ /\ Op(r) = "DeleteRoleAas"
             /\ GoTo(r, "save")
             /\ found' = [found EXCEPT ![r] = x.id]
             /\ ids' = [ids EXCEPT ![r] = Without(x, input[r].aas)]
             /\ UNCHANGED snap
  /\ UNCHANGED <<tables, connection, dirty>>

\* GET returns the descriptors that are still there; PATCH wants all of them.
FindAasOfRole(r) ==
  /\ At(r, "findAas")
  /\ \/ /\ Op(r) = "GetRoleAas"
        /\ Reply(r, "ok")
     \/ /\ Op(r) = "PatchRole"
        /\ ids[r] \subseteq Registered
        /\ GoTo(r, "save") /\ Forgets(r)
     \/ /\ Op(r) = "PatchRole"
        /\ ~ (ids[r] \subseteq Registered)
        /\ Reply(r, "refused")
  /\ UNCHANGED <<tables, connection, dirty>>

\* save(role): the select.
SelectRole(r) ==
  /\ At(r, "save")
  /\ Op(r) \in {"PatchRole", "DeleteRoleAas"}
  /\ snap' = [snap EXCEPT ![r] = [EmptySnapshot EXCEPT !.row = \E x \in roles : x.id = found[r],
                                                       !.members = MembersOf(found[r])]]
  /\ GoTo(r, "write")
  /\ UNCHANGED <<tables, connection, found, ids, dirty>>

RoleWriteFails(r) ==
  LET s == snap[r]
      there == \E x \in roles : x.id = found[r]
  IN  \/ ~s.row /\ there
      \/ s.row /\ ~there /\ ids[r] \ s.members # {}
      \/ \E a \in ids[r] \ s.members : a \notin Registered \/ <<found[r], a>> \in members

\* A bug that saves a vanished role with its protocol.
Resurrected(r) == [id |-> found[r], name |-> input[r].role, protocol |-> input[r].protocol]

\* The role was loaded without its protocol: a role that the select does not
\* find is inserted again, belonging to none.
Reinserted(r) == [id |-> found[r], name |-> input[r].role, protocol |-> NoRow]

WriteRole(r) ==
  /\ At(r, "write")
  /\ Op(r) \in {"PatchRole", "DeleteRoleAas"}
  /\ \/ /\ RoleWriteFails(r)
        /\ Reply(r, "error")
        /\ UNCHANGED <<roles, members, dirty>>
     \/ /\ ~RoleWriteFails(r)
        /\ roles' = IF snap[r].row THEN roles ELSE roles \cup {Reinserted(r)}
        /\ members' = (members \ ({found[r]} \X (snap[r].members \ ids[r])))
                        \cup ({found[r]} \X (ids[r] \ snap[r].members))
        /\ Reply(r, "ok")
        /\ IF snap[r].row /\ ids[r] = snap[r].members THEN UNCHANGED dirty ELSE Touch(r)
  /\ UNCHANGED <<aasTables, protocols, connection>>

------------------------------------------------------------------------------
(* The service *)

DescriptorStep(r) ==
  \/ SelectAsset(r) \/ SaveAsset(r) \/ FindAas(r) \/ SelectAas(r) \/ WriteAas(r) \/ DeleteAas(r)

ProtocolStep(r) ==
  \/ FindProtocol(r) \/ DeleteRoles(r) \/ SelectProtocol(r) \/ WriteProtocol(r)
  \/ DeleteProtocol(r) \/ ListIds(r)
  \/ \E p \in Protocols : ReadListed(r, p)

RoleStep(r) == FindRole(r) \/ FindAasOfRole(r) \/ SelectRole(r) \/ WriteRole(r)

\* History: members of a role that were there all the time since r arrived.
Track == steady' = [q \in Requests |->
  IF pc[q] = "idle" \/ pc'[q] = "done" THEN members' ELSE steady[q] \cap members']

Step(r) ==
  /\ \/ \E i \in Inputs : Receive(r, i)
     \/ Connect(r) \/ Read(r) \/ DescriptorStep(r) \/ ProtocolStep(r) \/ RoleStep(r)
  /\ Track

Next == \E r \in Requests : Step(r)

Spec == Init /\ [][Next]_vars

------------------------------------------------------------------------------
(* Properties *)

IsAasWrite(r) == Op(r) \in {"AdminPutAas", "PutAas", "PatchAas"}

\* The roles one PUT or PATCH wrote belong to their protocol together or not
\* at all, whatever other requests replace, delete or update meanwhile: a
\* reader may find a protocol without roles, but never half of a definition.
WholeWrites ==
  \A r \in Requests, p \in Protocols :
    LET mine == {x.name : x \in {y \in RolesOf(p) : y.id[1] = r}}
    IN  mine # {} => mine = DOMAIN input[r].roles

\* A request that is refused has changed nothing.  One that ends in an error
\* leaves a trace only where the code writes in two steps: the asset saved before
\* its descriptor, the roles deleted before the new ones are saved.
TracesOfFailure ==
  \A r \in dirty :
    /\ answer[r] \notin {"notFound", "refused"}
    /\ answer[r] = "error" => Op(r) \in {"AdminPutAas", "AdminPutProtocol", "PatchProtocol"}

\* Rows refer to rows that exist, an asset belongs to one descriptor, and a role
\* name occurs once in a protocol.
ReferencesHold ==
  /\ \A a \in Registered : descriptors[a] \in assets
  /\ \A a, b \in Registered : descriptors[a] = descriptors[b] => a = b
  /\ \A l \in listed : l[1] \in Registered /\ endpoints[l[2]] # NoRow
  /\ \A x \in roles : x.protocol \in protocols \cup {NoRow}
  /\ \A m \in members : m[2] \in Registered /\ \E x \in roles : x.id = m[1]
  /\ \A x, y \in roles : x.protocol = y.protocol /\ x.protocol # NoRow /\ x.name = y.name => x = y

\* User and password of an endpoint are encrypted with the salt in its row,
\* unless some request gave only one of the two: then the other one is still
\* encrypted with the salt that was replaced, and is read back with it in front.
StaleSaltNeedsPartialWrite ==
  \A e \in Addresses :
    endpoints[e] # NoRow =>
      \/ {endpoints[e].user, endpoints[e].password} \subseteq {NoRow, endpoints[e].salt}
      \/ \E r \in dirty : /\ IsAasWrite(r)
                          /\ e \in DOMAIN input[r].endpoints
                          /\ input[r].endpoints[e] \in {"user", "password"}

\* A role that was replaced does not come back: a role joins a protocol only with
\* the save of the request that defined it, never when an update of its AAS ids
\* saves a role it loaded earlier.
ReplacedRolesStayAway ==
  [][\A x \in roles' \ roles :
       x.protocol # NoRow => x.id[1] \in Requests /\ At(x.id[1], "write")]_vars

\* Two updates of one role may overwrite each other, but only what changed while
\* they ran: of the members the role had from the arrival of an acknowledged
\* update to its end, exactly those it wants remain.
UpdatesRespectWhatStayed ==
  [][\A r \in Requests :
       pc[r] = "write" /\ answer'[r] = "ok" /\ Op(r) \in {"PatchRole", "DeleteRoleAas"} =>
         \A m \in steady[r] : m[1] = found[r] =>
           (m \in members' <=> IF Op(r) = "PatchRole" THEN m[2] \in input[r].members
                                                      ELSE m[2] # input[r].aas)]_vars

------------------------------------------------------------------------------
(* What a comment says and the code does not keep *)

\* "decrypt password and remove salt for each endpoint" (Registry.ts:365): what
\* is read back is what was given, without the salt.
CredentialsReadBack ==
  \A e \in Addresses :
    endpoints[e] # NoRow =>
      {endpoints[e].user, endpoints[e].password} \subseteq {NoRow, endpoints[e].salt}

==============================================================================
