\* Three requests interleave on the tables the initializer left, or on empty ones.
SPECIFICATION Spec
CONSTANTS
  Requests = {r1, r2, r3}
  AasIds = {a1, a2}
  Assets = {s1, s2}
  Addresses = {e1}
  Protocols = {p1}
  RoleNames = {n1, n2, n3}
  a1 = a1
  a2 = a2
  s1 = s1
  s2 = s2
  e1 = e1
  p1 = p1
  n1 = n1
  n2 = n2
  n3 = n3
  NoRow = NoRow
  Inputs <- MCInputs
  Seeds <- MCSeeds
INVARIANTS
  TypeOK
  WholeWrites
  TracesOfFailure
  ReferencesHold
  StaleSaltNeedsPartialWrite
PROPERTIES
  ReplacedRolesStayAway
  UpdatesRespectWhatStayed
CHECK_DEADLOCK FALSE
SYMMETRY RequestSymmetry
