SPECIFICATION FairSpec

CONSTANTS
  Messages = {"m", "n"}
  Calls = {"call"}
  Kinds <- MCKinds
  Cert <- MCCert
  Certs = {"old", "new"}
  MaxAttempts = 1
  MaxTroubles = 1
  MaxLosses = 1
  MaxCrashes = 1

INVARIANTS
  TypeOK
  HopKeeps

PROPERTIES
  EverybodyAnswered

CHECK_DEADLOCK FALSE
