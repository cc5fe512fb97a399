----------------------------- MODULE RegistryPages -----------------------------
(***************************************************************************)
(* The pages of the endpoint registry's user interface on semantic         *)
(* protocols: the list, the form that creates a protocol and the page of   *)
(* one protocol, in several browsers at once.  The page of a protocol      *)
(* works on the copy it loaded: adding or deleting a role sends the whole  *)
(* copy, adding a descriptor the whole list of the role.  One protocol is  *)
(* modelled.  A request to the registry is one step here; what can happen  *)
(* inside of one is module EndpointRegistry.                               *)
(***************************************************************************)
EXTENDS Naturals, Sequences, FiniteSets, SequencesExt

CONSTANTS
  Browsers,
  Names,        \* role names
  AasIds,
  Initial,      \* what the registry can hold at first
  Radix,        \* of the numbers in a binding path: 10 in the program
  MaxPresses,   \* requests the users send
  MaxLosses,    \* requests or replies that get lost
  None

VARIABLES
  stored,      \* the members of the protocol's roles, or None: no protocol
  registered,  \* registered AASs
  page,        \* what a browser shows
  model,       \* the page's model: a sequence of roles, or None: not loaded
  unchecked,   \* role names that can be in the field without having been compared
               \* with the roles of the model: they are compared when typed
  carried,     \* AASs that can be selected at a position of the roles without having been
               \* compared with the members there: they are compared when selected
  transit,     \* browsers whose model is still on its way from the registry
  offered,     \* AASs in the drop-down
  requests,
  replies,     \* positive ones: others have no effect but a message
  presses,
  losses,
  intent,      \* what a user's edits since loading leave out or put in (history)
  disturbed    \* browsers whose copy may rightly differ (history)

registry == <<stored, registered>>
fields == <<unchecked, carried>>
views == <<page, model, transit, fields, offered>>
net == <<requests, replies, presses, losses>>
vars == <<registry, views, net, intent, disturbed>>

\* The roles of a protocol are a function of their names.  One just added on
\* the page of the protocol has no list of members yet.  The list on a page may name
\* a member again.
Roles == UNION {[s -> SUBSET AasIds] : s \in SUBSET Names}
Role == [name : Names, ids : (SUBSET AasIds) \cup {None}, again : BOOLEAN]

\* Names left out and put in, and whether a name or a member was put in twice.
Intent == [without : SUBSET Names, with : SUBSET Names, twice : BOOLEAN]

\* No protocol, no copy and no list of members are none of the values.
ASSUME PagesAssumption ==
  /\ Initial \subseteq Roles \cup {None}
  /\ IsFiniteSet(Names)
  /\ \A ids \in SUBSET AasIds : ids # None
  /\ \A roles \in Roles : roles # None
  /\ None \notin Seq(Role)
  /\ Radix \in Nat \ {0, 1}
  /\ MaxPresses \in Nat
  /\ MaxLosses \in Nat

Puts == {"addRole", "deleteRole"}
Ops == Puts \cup {"create", "patchRole", "dropMember", "deleteProtocol", "deleteAas"}

NamesIn(rs) == {rs[i].name : i \in DOMAIN rs}
Stored == IF stored = None THEN {} ELSE DOMAIN stored

\* A missing list of members is an empty one.
Members(ids) == IF ids = None THEN {} ELSE ids

\* Roles with distinct names as a function.
AsFunction(rs) ==
  [n \in NamesIn(rs) |-> Members(rs[CHOOSE i \in DOMAIN rs : rs[i].name = n].ids)]

Repeats(rs) == Cardinality(NamesIn(rs)) < Len(rs)

NoIntent == [without |-> {}, with |-> {}, twice |-> FALSE]

Init ==
  /\ stored \in Initial
  /\ registered = AasIds
  /\ page = [b \in Browsers |-> "list"]
  /\ model = [b \in Browsers |-> None]
  /\ transit = {}
  /\ unchecked = [b \in Browsers |-> {}]
  /\ carried = [b \in Browsers |-> {}]
  /\ offered = [b \in Browsers |-> {}]
  /\ requests = {}
  /\ replies = {}
  /\ presses = 0
  /\ losses = 0
  /\ intent = [b \in Browsers |-> NoIntent]
  /\ disturbed = {}

\* Browsers with a copy of the protocol, and those that show it.
Copies == {b \in Browsers : page[b] = "single" /\ model[b] # None}
Pages == Copies \ transit

Pending(b) == {q \in requests \cup replies : q.by = b}

------------------------------------------------------------------------------
(* Moving between pages *)

\* A bug that loads into the same model again.
SameModel(b) == transit

\* Every load has a model of its own: a late answer to an earlier load goes to
\* one that is no longer shown.
NewModel(b) == transit \ {b}

\* Showing a page sets an empty model and starts to load it.  The form starts empty and
\* loads nothing.  Whatever is typed while a protocol loads finds no role to be
\* compared with, and whatever is selected for the first role no member.
Show(b, p) ==
  /\ page' = [page EXCEPT ![b] = p]
  /\ model' = [model EXCEPT ![b] = IF p = "create" THEN <<>> ELSE None]
  /\ transit' = NewModel(b)
  /\ unchecked' = [unchecked EXCEPT ![b] = IF p = "single" THEN Names ELSE {}]
  /\ carried' = [carried EXCEPT ![b] = IF p = "single" THEN {1} \X AasIds ELSE {}]
  /\ offered' = [offered EXCEPT ![b] = IF p = "list" THEN {} ELSE registered]
  /\ intent' = [intent EXCEPT ![b] = NoIntent]
  /\ disturbed' = disturbed \ {b}
  /\ UNCHANGED <<registry, net>>

\* From a list or by its address, which may be of a protocol long deleted.
OpenProtocol(b) == page[b] = "list" /\ Show(b, "single")
OpenForm(b) == page[b] = "list" /\ Show(b, "create")
NavBack(b) == page[b] # "list" /\ Show(b, "list")

\* The registry answers with an empty object for a protocol without roles and
\* with an error for none: the model stays empty.  It gives the roles in no
\* particular order.
Readable == Stored # {}

\* A list of protocols has one row then.
LoadList(b) ==
  /\ page[b] = "list"
  /\ model[b] = None
  /\ Readable
  /\ model' = [model EXCEPT ![b] = <<>>]
  /\ UNCHANGED <<registry, page, transit, fields, offered, net, intent, disturbed>>

ReadProtocol(b) ==
  /\ page[b] = "single"
  /\ model[b] = None
  /\ Readable
  /\ \E s \in SetToSeqs(Stored) :
       model' = [model EXCEPT ![b] =
         [i \in DOMAIN s |-> [name |-> s[i], ids |-> stored[s[i]], again |-> FALSE]]]
  /\ transit' = transit \cup {b}
  /\ intent' = [intent EXCEPT ![b] = [NoIntent EXCEPT !.without = Names \ Stored, !.with = Stored]]
  /\ disturbed' = IF Pending(b) = {} THEN disturbed ELSE disturbed \cup {b}
  /\ UNCHANGED <<registry, page, fields, offered, net>>

ProtocolArrives(b) ==
  /\ b \in transit
  /\ transit' = transit \ {b}
  /\ UNCHANGED <<registry, page, model, fields, offered, net, intent, disturbed>>

------------------------------------------------------------------------------
(* What a user does *)

\* A page that sends a request before the one before is over may fall behind.
Send(b, q) ==
  /\ presses < MaxPresses
  /\ presses' = presses + 1
  /\ requests' = requests \cup {q}
  /\ disturbed' = IF Pending(b) = {} THEN disturbed ELSE disturbed \cup ({b} \cap Copies)
  /\ UNCHANGED <<registry, page, transit, offered, replies, losses>>

PutRoles(b, op, rs, purpose) ==
  /\ model' = [model EXCEPT ![b] = rs]
  /\ intent' = [intent EXCEPT ![b] = purpose]
  /\ Send(b, [n |-> presses, by |-> b, op |-> op, roles |-> rs, intent |-> purpose])

\* The name stays in the field until the answer comes: pressed twice, the
\* button adds the role twice.
AddRole(b, n) ==
  /\ b \in Pages
  /\ n \notin NamesIn(model[b]) \/ n \in unchecked[b]
  /\ LET rs == Append(model[b], [name |-> n, ids |-> None, again |-> FALSE])
         purpose == [intent[b] EXCEPT !.with = @ \cup {n},
                                      !.twice = @ \/ n \in NamesIn(model[b])]
     IN  PutRoles(b, "addRole", rs, purpose)
  /\ unchecked' = [unchecked EXCEPT ![b] = {n}]
  /\ UNCHANGED carried

\* In the form a role has members at once, and only the form changes.  A member
\* repeated is found if one of the two is in the first half of the list.
AddRoleToForm(b, n, ids, again) ==
  /\ page[b] = "create"
  /\ n \notin NamesIn(model[b])
  /\ ids \in (SUBSET offered[b]) \ {{}}
  /\ again => Cardinality(ids) >= 3
  /\ model' = [model EXCEPT ![b] = Append(@, [name |-> n, ids |-> ids, again |-> again])]
  /\ UNCHANGED <<registry, page, transit, fields, offered, net, intent, disturbed>>

\* The index of a pressed role is taken from one character of its path.
FirstDigit[i \in Nat] == IF i < Radix THEN i ELSE FirstDigit[i \div Radix]

\* A bug that removes the role after the one pressed.
RemoveRoleAfter(rs, i) == RemoveAt(rs, IF FirstDigit[i] + 2 > Len(rs) THEN 1 ELSE FirstDigit[i] + 2)

RemoveRole(rs, i) == RemoveAt(rs, FirstDigit[i] + 1)

\* The role pressed, and the one whose index is the first digit of its index.
Pressed(rs, i) == {rs[i + 1].name, rs[FirstDigit[i] + 1].name}

\* AASs the selection can be on a page that shows any of its roles.
Selectable(b) ==
  {a \in AasIds : \E i \in DOMAIN model[b] :
                    a \notin Members(model[b][i].ids) \/ <<i, a>> \in carried[b]}

\* The position shown after one was deleted.
ShownNext(rs, i) == IF FirstDigit[i] < Len(rs) THEN FirstDigit[i] + 1 ELSE Len(rs)

\* The last role of a protocol stays.  Another role is shown, and what was selected
\* stays selected.
DeleteRole(b, i) ==
  /\ b \in Pages
  /\ Len(model[b]) > 1 /\ i \in 0 .. Len(model[b]) - 1
  /\ LET rs == RemoveRole(model[b], i)
         purpose == [intent[b] EXCEPT !.without = @ \cup Pressed(model[b], i)]
     IN  /\ PutRoles(b, "deleteRole", rs, purpose)
         /\ carried' = [carried EXCEPT ![b] = {ShownNext(rs, i)} \X Selectable(b)]
  /\ UNCHANGED unchecked

DeleteRoleFromForm(b, i) ==
  /\ page[b] = "create"
  /\ i \in 0 .. Len(model[b]) - 1
  /\ model' = [model EXCEPT ![b] = RemoveRole(@, i)]
  /\ UNCHANGED <<registry, page, transit, fields, offered, net, intent, disturbed>>

\* Whether the id is taken is checked against a list that may still be
\* loading; it is the registry that refuses it.
CreateProtocol(b) ==
  /\ page[b] = "create" /\ model[b] # <<>>
  /\ Send(b, [n |-> presses, by |-> b, op |-> "create", roles |-> model[b],
              intent |-> [NoIntent EXCEPT !.with = NamesIn(model[b])]])
  /\ UNCHANGED <<model, fields, intent>>

\* A role with another member, or with one of them again.
WithMember(r, a) == [r EXCEPT !.ids = @ \cup {a}, !.again = @ \/ a \in r.ids]

\* The role shown in detail is the one pressed last, so any role.  One added
\* since the last load has no list of members to add to.  The selection is cleared.
AddDescriptor(b, i, a) ==
  /\ b \in Pages
  /\ i \in DOMAIN model[b] /\ model[b][i].ids # None
  /\ a \in offered[b]
  /\ a \notin model[b][i].ids \/ <<i, a>> \in carried[b]
  /\ LET role == WithMember(model[b][i], a)
     IN  /\ model' = [model EXCEPT ![b][i] = role]
         /\ Send(b, [n |-> presses, by |-> b, op |-> "patchRole", role |-> role.name,
                     ids |-> role.ids, again |-> role.again])
  /\ intent' = [intent EXCEPT ![b].twice = @ \/ a \in model[b][i].ids]
  /\ carried' = [carried EXCEPT ![b] = {}]
  /\ UNCHANGED unchecked

DeleteDescriptor(b, i, a) ==
  /\ b \in Pages
  /\ i \in DOMAIN model[b] /\ model[b][i].ids # None
  /\ a \in model[b][i].ids
  /\ Send(b, [n |-> presses, by |-> b, op |-> "dropMember", role |-> model[b][i].name,
              aas |-> a])
  /\ carried' = [carried EXCEPT ![b] = {}]
  /\ UNCHANGED <<model, unchecked, intent>>

\* A protocol that reads as an empty object has no id on the list to delete by.
DeleteProtocol(b) ==
  /\ page[b] = "list" /\ model[b] # None
  /\ Send(b, [n |-> presses, by |-> b, op |-> "deleteProtocol"])
  /\ UNCHANGED <<model, fields, intent>>

\* On the list of descriptors.
DeleteAas(b, a) ==
  /\ page[b] = "list" /\ a \in registered
  /\ Send(b, [n |-> presses, by |-> b, op |-> "deleteAas", aas |-> a])
  /\ UNCHANGED <<model, fields, intent>>

------------------------------------------------------------------------------
(* The registry *)

\* Whether all members are registered.
Known(rs) == \A i \in DOMAIN rs : rs[i].ids = None \/ rs[i].ids \subseteq registered

\* Members have to be registered, and neither they nor names repeated, for roles to be
\* saved.
Saved(rs) == ~Repeats(rs) /\ Known(rs) /\ \A i \in DOMAIN rs : ~rs[i].again

\* The registry counts what it finds of a list of members.
Patches(q) == q.role \in Stored /\ q.ids \subseteq registered /\ ~q.again

\* What a request makes of the protocol.  A replacement that cannot be saved
\* has deleted the roles before.
Effect(q) ==
  CASE q.op \in Puts ->
         IF Saved(q.roles) THEN AsFunction(q.roles)
         ELSE IF stored = None THEN None ELSE AsFunction(<<>>)
    [] q.op = "create" ->
         IF stored = None /\ Saved(q.roles) THEN AsFunction(q.roles) ELSE stored
    [] q.op = "patchRole" ->
         IF Patches(q) THEN [stored EXCEPT ![q.role] = q.ids] ELSE stored
    [] q.op = "dropMember" ->
         IF q.role \in Stored THEN [stored EXCEPT ![q.role] = @ \ {q.aas}] ELSE stored
    [] q.op = "deleteProtocol" -> None
    [] q.op = "deleteAas" ->
         IF stored = None THEN None ELSE [n \in DOMAIN stored |-> stored[n] \ {q.aas}]

Accepted(q) ==
  CASE q.op \in Puts -> Saved(q.roles)
    [] q.op = "create" -> stored = None /\ Saved(q.roles)
    [] q.op = "patchRole" -> Patches(q)
    [] q.op = "dropMember" -> q.role \in Stored
    [] q.op = "deleteProtocol" -> stored # None
    [] q.op = "deleteAas" -> q.aas \in registered

\* The answer to any other request shows a message at most, as does a negative
\* answer.
Effective == {"addRole", "patchRole", "dropMember", "deleteProtocol", "create"}

Process(q, arrives) ==
  /\ q \in requests
  /\ requests' = requests \ {q}
  /\ stored' = Effect(q)
  /\ registered' = IF q.op = "deleteAas" THEN registered \ {q.aas} ELSE registered
  /\ IF arrives THEN UNCHANGED losses ELSE losses < MaxLosses /\ losses' = losses + 1
  /\ replies' = IF arrives /\ Accepted(q) /\ q.op \in Effective
                THEN replies \cup {[n |-> q.n, by |-> q.by, op |-> q.op]} ELSE replies
  /\ disturbed' = disturbed \cup
       (Copies \cap ((IF stored' = stored THEN {} ELSE Browsers \ {q.by})
                     \cup (IF arrives /\ Accepted(q) THEN {} ELSE {q.by})))
  /\ UNCHANGED <<views, presses, intent>>

LoseRequest(q) ==
  /\ q \in requests
  /\ losses < MaxLosses
  /\ losses' = losses + 1
  /\ requests' = requests \ {q}
  /\ disturbed' = disturbed \cup (Copies \cap {q.by})
  /\ UNCHANGED <<registry, views, replies, presses, intent>>

------------------------------------------------------------------------------
(* What a positive answer does to the page, if it is still there *)

\* A bug that forgets to load again after a member was removed.
ReloadsMost(p) ==
  CASE page[p.by] = "list" -> p.op = "deleteProtocol"
    [] page[p.by] = "single" -> p.op = "patchRole" \/ (p.op = "addRole" /\ p.by \in Pages)
    [] OTHER -> FALSE

\* The handler of an added role shows the last role before it loads again, and
\* fails there while the page is loading.
Reloads(p) ==
  CASE page[p.by] = "list" -> p.op = "deleteProtocol"
    [] page[p.by] = "single" ->
         p.op \in {"patchRole", "dropMember"} \/ (p.op = "addRole" /\ p.by \in Pages)
    [] OTHER -> FALSE

\* Positions a page can show while it loads again.
Kept(p) ==
  IF p.op = "addRole" THEN {Len(model[p.by])} \X AasIds
  ELSE IF p.by \in Pages THEN (DOMAIN model[p.by]) \X AasIds
  ELSE carried[p.by]

Reload(p) ==
  /\ Reloads(p)
  /\ model' = [model EXCEPT ![p.by] = None]
  /\ transit' = NewModel(p.by)
  /\ unchecked' = [unchecked EXCEPT ![p.by] = IF page[p.by] = "single" THEN Names ELSE @]
  /\ carried' = [carried EXCEPT ![p.by] = IF page[p.by] = "single" THEN Kept(p) ELSE @]
  /\ disturbed' = disturbed \ {p.by}
  /\ UNCHANGED offered

StartsOver(p) == page[p.by] = "create" /\ p.op = "create"

ResetForm(p) ==
  /\ StartsOver(p)
  /\ model' = [model EXCEPT ![p.by] = <<>>]
  /\ offered' = [offered EXCEPT ![p.by] = registered]
  /\ UNCHANGED <<transit, fields, disturbed>>

\* The page is gone, or has nothing to load.
NoEffect(p) ==
  /\ ~Reloads(p) /\ ~StartsOver(p)
  /\ UNCHANGED <<model, transit, fields, offered, disturbed>>

Answered(p) ==
  /\ p \in replies
  /\ replies' = replies \ {p}
  /\ Reload(p) \/ ResetForm(p) \/ NoEffect(p)
  /\ UNCHANGED <<registry, page, requests, presses, losses, intent>>

Next ==
  \/ \E b \in Browsers :
       \/ OpenProtocol(b) \/ OpenForm(b) \/ NavBack(b)
       \/ LoadList(b) \/ ReadProtocol(b) \/ ProtocolArrives(b)
       \/ CreateProtocol(b) \/ DeleteProtocol(b)
       \/ \E n \in Names :
            \/ AddRole(b, n)
            \/ \E ids \in SUBSET AasIds, again \in BOOLEAN : AddRoleToForm(b, n, ids, again)
       \/ \E i \in 1 .. Cardinality(Names) + MaxPresses :
            \/ DeleteRole(b, i - 1) \/ DeleteRoleFromForm(b, i - 1)
            \/ \E a \in AasIds : AddDescriptor(b, i, a) \/ DeleteDescriptor(b, i, a)
       \/ \E a \in AasIds : DeleteAas(b, a)
  \/ \E q \in requests : LoseRequest(q) \/ \E arrives \in BOOLEAN : Process(q, arrives)
  \/ \E p \in replies : Answered(p)

Spec == Init /\ [][Next]_vars

------------------------------------------------------------------------------
(* Properties *)

\* Every variable keeps its type; in particular a copy is on its way only to a
\* page of the protocol that still waits for it.
TypeOK ==
  /\ stored \in Roles \cup {None}
  /\ registered \subseteq AasIds
  /\ page \in [Browsers -> {"list", "create", "single"}]
  /\ \A b \in Browsers : model[b] = None \/ \A i \in DOMAIN model[b] : model[b][i] \in Role
  /\ transit \subseteq Copies
  /\ unchecked \in [Browsers -> SUBSET Names]
  /\ carried \in [Browsers -> SUBSET (Nat \X AasIds)]
  /\ offered \in [Browsers -> SUBSET AasIds]
  /\ \A q \in requests \cup replies : q.op \in Ops /\ q.by \in Browsers /\ q.n \in 0 .. presses - 1
  /\ presses \in 0 .. MaxPresses
  /\ losses \in 0 .. MaxLosses
  /\ intent \in [Browsers -> Intent]
  /\ disturbed \subseteq Browsers

\* A role leaves the registry only with its protocol, or with a replacement of the
\* roles: because a user pressed it on the page that sent the request (or its index has
\* several digits), because that page did not know it, or because the roles could not be
\* saved.  They cannot for two reasons: a member is no longer registered, or on that page
\* a user put in a name twice, or a member.  A role appears only if the user added it or
\* the page knew it.  Replacing the roles by a copy some user has edited in the meantime
\* does no other harm.
RolesChangeOnPurpose ==
  [][\A q \in requests \ requests' :
       LET gone == Stored \ Stored'
           new == Stored' \ Stored
       IN  /\ gone # {} => \/ q.op = "deleteProtocol"
                           \/ /\ q.op \in Puts
                              /\ \/ gone \subseteq q.intent.without
                                 \/ q.intent.twice
                                 \/ ~Known(q.roles)
           /\ new # {} => /\ q.op \in Puts \cup {"create"}
                          /\ new \subseteq q.intent.with]_vars

\* A protocol's page with nothing under way shows what the registry holds,
\* unless since it loaded somebody else changed the protocol, one of its
\* requests failed, or it loaded or sent one before the one before was over.
PageInStep ==
  \A b \in Pages :
    Pending(b) = {} /\ b \notin disturbed => AsFunction(model[b]) = stored
=============================================================================
