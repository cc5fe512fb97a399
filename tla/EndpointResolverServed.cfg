\* An endpoint of an unknown type keeps later ones from being served.
SPECIFICATION Spec
CONSTANTS
  Messages = {m1}
  Endpoints <- MCEndpoints
  Type <- MCType
  Answers <- MCAnswersOrNone
  MaxLosses = 0
  MaxCrashes = 0
INVARIANTS
  EachEndpointIsServed
CHECK_DEADLOCK FALSE
