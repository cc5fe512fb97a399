\* Two requests are enough: one that gives user and password, one that gives a password alone.
SPECIFICATION Spec
CONSTANTS
  Requests = {r1, r2}
  AasIds = {a1, a2}
  Assets = {s1, s2}
  Addresses = {e1}
  Protocols = {p1}
  RoleNames = {n1, n2, n3}
  a1 = a1
  a2 = a2
  s1 = s1
  s2 = s2
  e1 = e1
  p1 = p1
  n1 = n1
  n2 = n2
  n3 = n3
  NoRow = NoRow
  Inputs <- MCInputs
  Seeds <- MCSeeds
INVARIANT CredentialsReadBack
CHECK_DEADLOCK FALSE
