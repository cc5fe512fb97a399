SPECIFICATION FairSpec

CONSTANTS
  A1 = A1
  A2 = A2
  None = None
  Adapters = {A1, A2}
  Ids = {"x", "y"}
  Semantics = {"s"}
  Files <- MCFiles
  Stored <- MCStored
  Offers <- MCOffers
  Requests <- MCRequests
  Asked <- MCAsked
  MaxAsked = 3
  MaxTroubles = 1

INVARIANTS
  TypeOK
  AnswerMeansStored
  ReadsBack

PROPERTIES
  ImplementsDeletableRecord
  EveryRequestAnswered

\* All requests are answered and no fault is left.
CHECK_DEADLOCK FALSE
