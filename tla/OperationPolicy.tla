--------------------------- MODULE OperationPolicy ---------------------------
(***************************************************************************)
(* The operation catalogue of src/app/operation_policy.py and the two      *)
(* validations that consult it: validate_record (memory/validation.py),    *)
(* which asks about the operation as if a human had reviewed it, and       *)
(* validate_handoff_payload (orchestrator/validation.py), which asks with  *)
(* the evidence actually presented.                                        *)
(*                                                                         *)
(* An intent is abstracted to what these checks and the receipt binding    *)
(* tell apart.  "defect" is the first group of required fields that does   *)
(* not hold, "version" stands for the rest of the payload.                 *)
(***************************************************************************)
EXTENDS Integers

HandoffCapability == "capability.inbound.sst-chatbot-agent-handoff"

SafeInitialOperations ==
  {"workspace.generate_bundle", "user_history.propose_update",
   "ui_customization.enqueue_change"}
HumanReviewRequiredOperations == {"workspace.apply_patch"}
AllowedInitialOperations == SafeInitialOperations \cup HumanReviewRequiredOperations
FutureBlockedOperations == {"server.restart_service", "server.refresh_cache"}

(* Bug: the review of a review-required operation is not asked for. *)
BugEvaluateOperation(operation, human_reviewed) ==
  CASE operation \in AllowedInitialOperations -> "accepted"
    [] operation \in FutureBlockedOperations -> "blocked_operation"
    [] OTHER -> "unsupported_operation"

(* evaluate_operation: a missing, blank or non-string operation is "".  The *)
(* result is the decision's code, or "accepted".                           *)
EvaluateOperation(operation, human_reviewed) ==
  CASE operation = "" -> "missing_requested_operation"
    [] operation \in FutureBlockedOperations -> "blocked_operation"
    [] operation \notin AllowedInitialOperations \cup FutureBlockedOperations \cup {""} ->
         "unsupported_operation"
    [] operation \in HumanReviewRequiredOperations /\ ~human_reviewed ->
         "human_review_required"
    [] OTHER -> "accepted"

Defects == {"none", "record", "created_at"}

(* validate_record on an intent: the operation is only looked at under the *)
(* handoff capability, and always as if it had been reviewed.              *)
RecordAccepted(intent) ==
  /\ intent.defect # "record"
  /\ intent.capability_id = HandoffCapability =>
       EvaluateOperation(intent.operation, TRUE) = "accepted"

(* validate_handoff_payload *)
PayloadAccepted(intent, human_reviewed) ==
  /\ intent.defect = "none"
  /\ intent.capability_id = HandoffCapability
  /\ EvaluateOperation(intent.operation, human_reviewed) = "accepted"
=============================================================================
