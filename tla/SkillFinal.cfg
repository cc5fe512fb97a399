\* Two answers of the approver race: a final state is left again.
SPECIFICATION Spec
CONSTANTS
  Handlers = {h1, h2, h3}
  Inputs = {"PUBLISHINSTANCE_FROM_OPERATOR", "APPROVED_FROM_APPROVER",
            "REQUESTREFUSED_FROM_APPROVER"}
  MaxCrashes = 0
  MaxFaults = 0
  AskForApproval = TRUE
  AskForType = FALSE
PROPERTIES
  FinalStatesAreFinal
CHECK_DEADLOCK FALSE
SYMMETRY HandlerSymmetry
