\* No faults: what handlers owe the operator.
SPECIFICATION FairSpec
CONSTANTS
  Handlers = {h1, h2, h3}
  Inputs = {"PUBLISHINSTANCE_FROM_OPERATOR", "APPROVED_FROM_APPROVER",
            "REQUESTREFUSED_FROM_APPROVER"}
  MaxCrashes = 0
  MaxFaults = 0
  AskForApproval = TRUE
  AskForType = FALSE
PROPERTIES
  CreationReported
CHECK_DEADLOCK FALSE
