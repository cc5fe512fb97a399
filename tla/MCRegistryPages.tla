---------------------------- MODULE MCRegistryPages ----------------------------
(***************************************************************************)
(* Model checking of module RegistryPages: two browsers, one protocol with *)
(* two roles or none, three role names, so that a page can hold a role     *)
(* whose index has two digits in base 2.                                   *)
(***************************************************************************)
EXTENDS RegistryPages, TLC

CONSTANTS r1, r2, r3, a1

MCInitial == {[n \in {r1, r2} |-> {a1}], None}

MCNames == {r1, r2, r3}

\* The two roles are alike until one is used.
PagesSymmetry == Permutations(Browsers) \cup Permutations({r1, r2})
=============================================================================
