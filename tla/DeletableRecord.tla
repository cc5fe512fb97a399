--------------------------- MODULE DeletableRecord ---------------------------
(***************************************************************************)
(* VersionedRecord for a document that may be deleted: with the document   *)
(* go its versions, and what is promised holds between two deletions.      *)
(* Every document of module Submodels implements this specification.       *)
(***************************************************************************)
EXTENDS VersionedRecord

Delete ==
  /\ version' = 0
  /\ stored' = {}
  /\ UNCHANGED told

DeletableNext == Next \/ Delete

DeletableSpec == Init /\ [][DeletableNext]_vars
=============================================================================
