\* Two browsers, two requests, one loss.
SPECIFICATION Spec
CONSTANTS
  Browsers = {b1, b2}
  Names <- MCNames
  AasIds = {a1}
  Initial <- MCInitial
  Radix = 2
  MaxPresses = 2
  MaxLosses = 1
  None = None
  r1 = r1
  r2 = r2
  r3 = r3
  a1 = a1
SYMMETRY PagesSymmetry
INVARIANTS
  TypeOK
  PageInStep
PROPERTIES
  RolesChangeOnPurpose
CHECK_DEADLOCK FALSE
