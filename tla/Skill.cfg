\* Approval and type are asked for; one crash and one fault may happen.
SPECIFICATION Spec
CONSTANTS
  Handlers = {h1, h2, h3}
  Inputs = {"PUBLISHINSTANCE_FROM_OPERATOR", "APPROVED_FROM_APPROVER",
            "REQUESTREFUSED_FROM_APPROVER", "RESPONSETYPE_FROM_MANUFACTURER",
            "UNKNOWN", "NOSENDER", "INCOMPLETE", "ROLELESS"}
  MaxCrashes = 1
  MaxFaults = 1
  AskForApproval = TRUE
  AskForType = TRUE
INVARIANTS
  TypeOK
  OneWinnerPerVersion
  AnnouncedIsStored
  ApproverAskedOnce
  SuccessIsReal
  CreationAuthorised
  CreationRepeatedByRaceOrRestore
PROPERTIES
  OnlyLateCreationReopens
  ImplementsVersionedRecord
CHECK_DEADLOCK FALSE
SYMMETRY HandlerSymmetry
