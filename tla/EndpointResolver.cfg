\* One message, two breaks and a restart.
SPECIFICATION FairSpec
CONSTANTS
  Messages = {m1}
  Endpoints <- MCEndpoints
  Type <- MCType
  Answers <- MCAnswersOrNone
  MaxLosses = 2
  MaxCrashes = 1
INVARIANTS
  TypeOK
  OnePlace
  AckedIsForwarded
  CopiesAreBounded
PROPERTIES
  LateCopiesNeedTwoLosses
  EveryMessageSettled
CHECK_DEADLOCK FALSE
