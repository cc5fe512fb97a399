-------------------------- MODULE OnboardingMachine --------------------------
(***************************************************************************)
(* The statechart of the onboarding skill as a set of edges: pure data, no *)
(* state.  Module Skill runs one copy of it per received message.          *)
(*                                                                         *)
(* An edge leaves state "from" on event "on" for state "to" and, while it  *)
(* is taken, queues the calls "do" of the message dispatcher in order.     *)
(***************************************************************************)
EXTENDS Sequences

CONSTANTS
  AskForApproval,   \* configuration['askForApproval']
  AskForType        \* configuration['askForType']

ASSUME ConfigurationAssumption ==
  /\ AskForApproval \in BOOLEAN
  /\ AskForType \in BOOLEAN

(***************************************************************************)
(* The three states declared with type 'final', and the others.            *)
(***************************************************************************)
FinalStates == {"InstancePublished", "InstanceAndTypePublished", "OperationFailed"}

InitialState == "WaitingForOnboardingRequest"

States == FinalStates \cup
  {InitialState, "WaitingForApproval", "CreatingInstance", "WaitingForType"}

(***************************************************************************)
(* Events that messages of the other parties cause, and what the invoked   *)
(* service createInstance ends with: done, or the HTTP status of its       *)
(* failure ("noAnswer" is a failure without a response).                   *)
(***************************************************************************)
ApproverRefusals ==
  {"REQUESTREFUSED_FROM_APPROVER", "NOTUNDERSTOOD_FROM_APPROVER", "ERROR_FROM_APPROVER"}

ManufacturerRefusals ==
  {"REQUESTREFUSED_FROM_MANUFACTURER", "NOTUNDERSTOOD_FROM_MANUFACTURER",
   "ERROR_FROM_MANUFACTURER"}

MachineEvents ==
  {"PUBLISHINSTANCE_FROM_OPERATOR", "APPROVED_FROM_APPROVER",
   "RESPONSETYPE_FROM_MANUFACTURER"} \cup ApproverRefusals \cup ManufacturerRefusals

RestFailures == {"400", "401", "500", "noAnswer"}
RestOutcomes == RestFailures \cup {"done"}

(***************************************************************************)
(* Dispatcher calls.  requestType stands for requestTypeFromManufacturer,  *)
(* whose only statement is a throw.                                        *)
(***************************************************************************)
Messages ==
  {"requestApproval", "responseInstance", "requestType", "responseType",
   "requestRefused", "notUnderstood", "error"}

Edge(from, on, to, do) == [from |-> from, on |-> on, to |-> to, do |-> do]

\* Bugs: the status itself is sent; a failure is reported like a success.
CreationErrorRaw(outcome) == outcome
CreationErrorSwallowed(outcome) == "responseInstance"

\* sendCreationErrorToOperator: the answer depends on the status of the failure.
CreationError(outcome) ==
  CASE outcome = "400" -> "notUnderstood"
    [] outcome = "401" -> "requestRefused"
    [] OTHER           -> "error"

\* A bug that ignores configuration['askForApproval'].
RequestEdgeUnguarded ==
  Edge(InitialState, "PUBLISHINSTANCE_FROM_OPERATOR", "CreatingInstance", <<>>)

RequestEdge ==
  IF AskForApproval
  THEN Edge(InitialState, "PUBLISHINSTANCE_FROM_OPERATOR", "WaitingForApproval",
            <<"requestApproval">>)
  ELSE Edge(InitialState, "PUBLISHINSTANCE_FROM_OPERATOR", "CreatingInstance", <<>>)

ApprovalEdges ==
  {Edge("WaitingForApproval", "APPROVED_FROM_APPROVER", "CreatingInstance", <<>>)} \cup
  {Edge("WaitingForApproval", e, "OperationFailed", <<"requestRefused">>) :
     e \in ApproverRefusals}

CreatedEdge ==
  IF AskForType
  THEN Edge("CreatingInstance", "done", "WaitingForType",
            <<"responseInstance", "requestType">>)
  ELSE Edge("CreatingInstance", "done", "InstancePublished", <<"responseInstance">>)

CreationErrorEdges ==
  {Edge("CreatingInstance", e, "OperationFailed", <<CreationError(e)>>) :
     e \in RestFailures}

TypeEdges ==
  {Edge("WaitingForType", "RESPONSETYPE_FROM_MANUFACTURER", "InstanceAndTypePublished",
        <<"responseType">>)} \cup
  {Edge("WaitingForType", e, "InstancePublished", <<>>) : e \in ManufacturerRefusals}

\* Edges a message can take, and those the end of createInstance takes.
MessageEdges == {RequestEdge} \cup ApprovalEdges \cup TypeEdges
RestEdges == {CreatedEdge} \cup CreationErrorEdges
Edges == MessageEdges \cup RestEdges

\* The machine, in state s, has a transition for event e.
Accepts(s, e) == \E d \in Edges : d.from = s /\ d.on = e
=============================================================================
