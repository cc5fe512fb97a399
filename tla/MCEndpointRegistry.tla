-------------------------- MODULE MCEndpointRegistry --------------------------
(* Two AAS, one shared endpoint, one protocol with at most two roles. *)
EXTENDS EndpointRegistry, TLC

CONSTANTS a1, a2, s1, s2, e1, p1, n1, n2, n3

Empty == [assets |-> {}, descriptors |-> [a \in AasIds |-> NoRow],
          endpoints |-> [e \in Addresses |-> NoRow], listed |-> {},
          protocols |-> {}, roles |-> {}, members |-> {}]

\* What the initializer registers: both AAS, and a protocol with a1 in a role.
Sample == [assets |-> {s1, s2}, descriptors |-> (a1 :> s1 @@ a2 :> s2),
           endpoints |-> (e1 :> [user |-> Initializer, password |-> Initializer, salt |-> Initializer]),
           listed |-> {<<a1, e1>>}, protocols |-> {p1},
           roles |-> {[id |-> <<Initializer, n1>>, name |-> n1, protocol |-> p1]},
           members |-> {<<<<Initializer, n1>>, a1>>}]

MCSeeds == {Empty, Sample}

Aas(op, a, s, given) == [op |-> op, aas |-> a, asset |-> s, endpoints |-> given]
Protocol(op, given) == [op |-> op, protocol |-> p1, roles |-> given]

MCInputs ==
  { Aas("AdminPutAas", a1, s1, e1 :> "both"),
    Aas("AdminPutAas", a2, s1, e1 :> "neither"),
    Aas("PutAas", a2, s2, e1 :> "both"),
    Aas("PatchAas", a1, s2, e1 :> "password"),
    Aas("PatchAas", a2, s2, [e \in {} |-> "both"]),
    [op |-> "DeleteAas", aas |-> a1],
    [op |-> "GetAas", aas |-> a1],
    Protocol("AdminPutProtocol", n1 :> {a1} @@ n2 :> {a1, a2}),
    Protocol("PutProtocol", n2 :> {a2}),
    Protocol("PatchProtocol", n1 :> {} @@ n3 :> {a1}),
    Protocol("PatchProtocol", n3 :> {a2}),
    [op |-> "DeleteProtocol", protocol |-> p1],
    [op |-> "GetProtocol", protocol |-> p1],
    [op |-> "PatchRole", protocol |-> p1, role |-> n1, members |-> {a1, a2}],
    [op |-> "PatchRole", protocol |-> p1, role |-> n1, members |-> {a2}],
    [op |-> "DeleteRoleAas", protocol |-> p1, role |-> n1, aas |-> a1],
    [op |-> "GetRoleAas", protocol |-> p1, role |-> n1],
    [op |-> "ListAas"], [op |-> "ListProtocols"], [op |-> "Invalid"] }

RequestSymmetry == Permutations(Requests)

==============================================================================
