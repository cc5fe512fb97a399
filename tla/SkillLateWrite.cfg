\* Two deliveries of a request race: a response goes out though its write failed.
SPECIFICATION Spec
CONSTANTS
  Handlers = {h1, h2, h3}
  Inputs = {"PUBLISHINSTANCE_FROM_OPERATOR", "APPROVED_FROM_APPROVER",
            "REQUESTREFUSED_FROM_APPROVER"}
  MaxCrashes = 0
  MaxFaults = 0
  AskForApproval = FALSE
  AskForType = FALSE
INVARIANTS
  NoResponseAfterFailedWrite
CHECK_DEADLOCK FALSE
SYMMETRY HandlerSymmetry
