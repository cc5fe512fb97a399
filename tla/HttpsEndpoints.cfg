\* One message and two faults, of any kind and at any point, start-up included.
SPECIFICATION FairSpec
CONSTANTS
  Services <- MCServices
  Publishers <- MCPublishers
  Listeners <- MCListeners
  MaxConnections = 3
  Messages = {m1}
  MaxFaults = 2
INVARIANTS
  OneConnection
  StaleChannelIsReplaced
  AtMostOnce
  TypeOK
PROPERTIES
  AcceptedArrives
  ClientsRecover
CHECK_DEADLOCK FALSE
