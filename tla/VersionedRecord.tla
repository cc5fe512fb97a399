--------------------------- MODULE VersionedRecord ---------------------------
(***************************************************************************)
(* What optimistic versioning of a MongoDB document promises: the updates  *)
(* { _id, version: base } -> { $inc: version } with upsert order all       *)
(* writers of the document, each base version is consumed by one update,   *)
(* and a writer announces results to others only after an update of its    *)
(* own was stored.  Module Skill implements this specification.            *)
(***************************************************************************)
EXTENDS Integers

CONSTANTS
  Writers   \* whoever updates the document

VARIABLES
  version,  \* version of the document, 0 while there is none
  stored,   \* updates the database performed: who, on which base version
  told      \* writers that announced something

vars == <<version, stored, told>>

Init ==
  /\ version = 0
  /\ stored = {}
  /\ told = {}

\* An update consumes the version it names, above all those consumed before.
\* Without a document the upsert inserts one, whatever version it names.
Store(w) ==
  LET base == version' - 1
  IN /\ base \in Nat
     /\ version \in {0, base}
     /\ \A s \in stored : s.base < base
     /\ stored' = stored \cup {[writer |-> w, base |-> base]}
     /\ UNCHANGED told

Tell(w) ==
  /\ \E s \in stored : s.writer = w
  /\ told' = told \cup {w}
  /\ UNCHANGED <<version, stored>>

Next == \E w \in Writers : Store(w) \/ Tell(w)

Spec == Init /\ [][Next]_vars
=============================================================================
