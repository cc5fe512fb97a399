----------------------------- MODULE MCSubmodels -----------------------------
(* Two adapters: both are registered for submodel "x", A1 without a semantic *)
(* id and A2 by its semantic id too; "y" is registered nowhere.              *)
EXTENDS Submodels, TLC

CONSTANTS A1, A2

x == [id |-> "x", semantic |-> "s"]
y == [id |-> "y", semantic |-> None]

MCStored == <<[url |-> A2, id |-> "x", semantic |-> "s"],
              [url |-> A1, id |-> "x", semantic |-> None]>>
MCFiles == <<"a2", "a1">>
MCOffers == {<<2, MCStored[2]>>, <<1, [url |-> None, id |-> "y", semantic |-> "s"]>>}

MCAsked ==
  "both"   :> [kind |-> "post", submodels |-> {x, y}, at |-> None] @@
  "one"    :> [kind |-> "post", submodels |-> {x}, at |-> None] @@
  "read"   :> [kind |-> "get", submodels |-> {x}, at |-> None] @@
  "delete" :> [kind |-> "delete", submodels |-> {x}, at |-> A1]

MCRequests == DOMAIN MCAsked
==============================================================================
