------------------------------- MODULE Handoff -------------------------------
(***************************************************************************)
(* IntentHandoffCoordinator.submit (orchestrator/service.py) on one side,  *)
(* an orchestrator that keeps the idempotency contract of                  *)
(* orchestrator/fake_client.py and store.py on the other, and between them *)
(* the adapter of orchestrator/http_client.py: one HTTP attempt, no retry. *)
(*                                                                         *)
(* An attempt is one call of submit.  Lifecycle values are immutable, so a *)
(* caller whose attempt failed still has the planned value and may submit  *)
(* the same intent again; several attempts may also be under way at once   *)
(* in different processes.  A request that was sent may reach the          *)
(* orchestrator late, more than once or never; its answer may be lost.     *)
(* While submit runs its intermediate lifecycle values are local: the      *)
(* caller sees the value it returns and nothing else.                      *)
(***************************************************************************)
EXTENDS Lifecycle, OperationPolicy

CONSTANTS
  Attempts,          \* calls of submit
  IntentRecords,     \* the operational records that can be submitted
  Evidence,          \* review evidence a caller can present
  NoReview,          \* no review evidence
  RemoteRefused,     \* operations the orchestrator itself refuses
  Faults,            \* what the transport may do, see below
  None               \* no receipt stored

(* "lost": a request or its answer may not arrive within the timeout;      *)
(* "misrouted": the port may return a receipt meant for another attempt;   *)
(* "unreadable": the body of an HTTP error may fail to be read.            *)
ASSUME HandoffAssumption ==
  /\ Faults \subseteq {"lost", "misrouted", "unreadable"}
  /\ IntentRecords \subseteq
       [key: ReceiptIds, correlation_id: Correlations, capability_id: STRING,
        operation: STRING, version: Nat, defect: Defects]
  /\ {"accepted_for_review", "duplicate", "rejected_by_policy", "conflict"}
       \subseteq ReceiptStatuses
  /\ NoReview \notin Evidence
  /\ None \notin [receipt_id: ReceiptIds,
                  status: {"accepted_for_review", "duplicate",
                           "rejected_by_policy", "conflict"},
                  payload: IntentRecords, review: Evidence \cup {NoReview}]
  /\ None \notin [intent: IntentRecords, review: Evidence \cup {NoReview}]

VARIABLES
  request,     \* the intent and the evidence each attempt is called with
  pc,          \* "idle", "waiting" for the port, "returned" or "raised"
  lifecycle,   \* the lifecycle value each attempt's caller holds
  error,       \* error_code of the result
  store,       \* the orchestrator's stored receipt per idempotency key
  answers      \* every receipt the orchestrator has issued, and to whom

vars == <<request, pc, lifecycle, error, store, answers>>

Reviews == Evidence \cup {NoReview}

Request == [intent: IntentRecords, review: Reviews]

(* HandoffReceipt: the payload stands for the fields copied from it and    *)
(* for payload_fingerprint.  The fake names a receipt after its key.       *)
Receipt ==
  [receipt_id: ReceiptIds,
   status: {"accepted_for_review", "duplicate", "rejected_by_policy", "conflict"},
   payload: IntentRecords, review: Reviews]

MakeReceipt(intent, status, review) ==
  [receipt_id |-> intent.key, status |-> status, payload |-> intent, review |-> review]

(* A lifecycle its caller has advanced to "planned". *)
Planned(correlation) ==
  Advanced(Advanced(NewLifecycle(correlation), "classified", NoRef), "planned", NoRef)

Init ==
  /\ request \in [Attempts -> Request]
  /\ pc = [a \in Attempts |-> "idle"]
  /\ \E correlation \in [Attempts -> Correlations] :
       lifecycle = [a \in Attempts |-> Planned(correlation[a])]
  /\ error = [a \in Attempts |-> ""]
  /\ store = [k \in ReceiptIds |-> None]
  /\ answers = {}

----------------------------------------------------------------------------

(* to_handoff_payload copies the record field by field, so that the payload *)
(* stands for the record.  A record of another type, or one whose priority, *)
(* window or retry policy is no text, makes submit raise (ValueError,       *)
(* ValidationError) before it has done anything; such a record is not among *)
(* the intents.                                                             *)
Intent(a) == request[a].intent
Review(a) == request[a].review

(* submit returns to its caller. *)
Return(a, lc, code) ==
  /\ pc' = [pc EXCEPT ![a] = "returned"]
  /\ lifecycle' = [lifecycle EXCEPT ![a] = lc]
  /\ error' = [error EXCEPT ![a] = code]

(* _require_matching_context and the state check; otherwise submit raises  *)
(* before it has done anything.                                            *)
MatchingContext(a) ==
  /\ lifecycle[a].correlation_id = Intent(a).correlation_id
  /\ lifecycle[a].state = "planned"

(* The record, or then the payload, is refused before the port is called.  *)
LocallyAccepted(a) ==
  /\ RecordAccepted(Intent(a))
  /\ PayloadAccepted(Intent(a), Review(a) # NoReview)

RejectLocally(a) ==
  /\ pc[a] = "idle"
  /\ MatchingContext(a)
  /\ ~LocallyAccepted(a)
  /\ Return(a, Advanced(lifecycle[a], "rejected", NoRef), "local_validation")
  /\ UNCHANGED <<request, store, answers>>

Submit(a) ==
  /\ pc[a] = "idle"
  /\ MatchingContext(a)
  /\ LocallyAccepted(a)
  /\ pc' = [pc EXCEPT ![a] = "waiting"]
  /\ UNCHANGED <<request, lifecycle, error, store, answers>>

(* The coordinator's local value while the port is working. *)
Requested(a) ==
  Advanced(Advanced(lifecycle[a], "validated_for_handoff", NoRef),
           "handoff_requested", NoRef)

----------------------------------------------------------------------------
(* The orchestrator.  It may see any request that was sent, at any later   *)
(* time and any number of times.                                           *)

Sent(a) == pc[a] # "idle" /\ error[a] # "local_validation"

Answer(a, receipt) ==
  /\ answers' = answers \cup {[to |-> a, receipt |-> receipt]}
  /\ UNCHANGED <<request, pc, lifecycle, error>>

(* The idempotency key is looked up before anything is validated. *)
AnswerDuplicate(a) ==
  /\ Sent(a)
  /\ store[Intent(a).key] # None
  /\ store[Intent(a).key].payload = Intent(a)
  /\ Answer(a, [store[Intent(a).key] EXCEPT !.status = "duplicate"])
  /\ UNCHANGED store

(* Bug: the evidence is part of what makes a payload different. *)
BugAnswerConflictOnReview(a) ==
  /\ Sent(a)
  /\ store[Intent(a).key] # None
  /\ store[Intent(a).key].payload # Intent(a) \/ store[Intent(a).key].review # Review(a)
  /\ Answer(a, MakeReceipt(Intent(a), "conflict", Review(a)))
  /\ UNCHANGED store

(* Bug: the conflict receipt is a copy of the winner's. *)
BugAnswerConflictCopies(a) ==
  /\ Sent(a)
  /\ store[Intent(a).key] # None
  /\ store[Intent(a).key].payload # Intent(a)
  /\ Answer(a, [store[Intent(a).key] EXCEPT !.status = "conflict"])
  /\ UNCHANGED store

AnswerConflict(a) ==
  /\ Sent(a)
  /\ store[Intent(a).key] # None
  /\ store[Intent(a).key].payload # Intent(a)
  /\ Answer(a, MakeReceipt(Intent(a), "conflict", Review(a)))
  /\ UNCHANGED store

(* The orchestrator applies the same validation, and may refuse more. *)
RemotelyAccepted(a) ==
  /\ PayloadAccepted(Intent(a), Review(a) # NoReview)
  /\ Intent(a).operation \notin RemoteRefused

AnswerAccepted(a) ==
  /\ Sent(a)
  /\ store[Intent(a).key] = None
  /\ RemotelyAccepted(a)
  /\ LET receipt == MakeReceipt(Intent(a), "accepted_for_review", Review(a))
     IN /\ store' = [store EXCEPT ![Intent(a).key] = receipt]
        /\ Answer(a, receipt)

(* A rejected payload is answered and not stored. *)
AnswerRejected(a) ==
  /\ Sent(a)
  /\ store[Intent(a).key] = None
  /\ ~RemotelyAccepted(a)
  /\ Answer(a, MakeReceipt(Intent(a), "rejected_by_policy", Review(a)))
  /\ UNCHANGED store

----------------------------------------------------------------------------
(* The port returns to the coordinator, or raises. *)

(* Bug: the payload is not compared. *)
BugReceiptMatchesPayload(a, receipt) == receipt.review = Review(a)

(* _receipt_mismatch *)
ReceiptMatches(a, receipt) ==
  /\ receipt.payload = Intent(a)
  /\ receipt.review = Review(a)

(* Bug: a duplicate is taken for a refusal. *)
BugRefusingStatuses == {"rejected_by_policy", "conflict", "duplicate"}

RefusingStatuses == {"rejected_by_policy", "conflict"}

(* The result of submit for a receipt the port returned. *)
HandleReceipt(a, receipt) ==
  LET observed == Observed(Requested(a),
                    [receipt_id |-> receipt.receipt_id, status |-> receipt.status,
                     correlation_id |-> receipt.payload.correlation_id])
  IN \/ /\ ~ReceiptMatches(a, receipt)
        /\ Return(a, Advanced(Requested(a), "failed", NoRef), "receipt_context_mismatch")
     \/ /\ ReceiptMatches(a, receipt)
        /\ receipt.status \in RefusingStatuses
        /\ Return(a, Advanced(observed, "rejected", NoRef), receipt.status)
     \/ /\ ReceiptMatches(a, receipt)
        /\ receipt.status \notin RefusingStatuses
        /\ Return(a, observed, "")

Deliver(a) ==
  /\ pc[a] = "waiting"
  /\ \E m \in answers :
       /\ m.to = a \/ "misrouted" \in Faults
       /\ HandleReceipt(a, m.receipt)
  /\ UNCHANGED <<request, store, answers>>

(* OrchestratorPortError: no answer in time, no token, an HTTP status that *)
(* carries no receipt, or a body that is not one.                          *)
PortFails(a) ==
  /\ "lost" \in Faults
  /\ pc[a] = "waiting"
  /\ Return(a, Advanced(Requested(a), "failed", NoRef), "orchestrator_port_error")
  /\ UNCHANGED <<request, store, answers>>

(* An HTTP error whose body cannot be read: exc.read() raises inside the   *)
(* handler of HTTPError, where only ValueError is caught, so the transport *)
(* exception leaves submit and the caller keeps the planned value.         *)
ErrorBodyUnreadable(a) ==
  /\ "unreadable" \in Faults
  /\ pc[a] = "waiting"
  /\ pc' = [pc EXCEPT ![a] = "raised"]
  /\ UNCHANGED <<request, lifecycle, error, store, answers>>

Coordinator(a) ==
  RejectLocally(a) \/ Submit(a) \/ Deliver(a) \/ PortFails(a) \/ ErrorBodyUnreadable(a)

Orchestrator(a) ==
  AnswerDuplicate(a) \/ AnswerConflict(a) \/ AnswerAccepted(a) \/ AnswerRejected(a)

Next == \E a \in Attempts : Coordinator(a) \/ Orchestrator(a)

Spec == Init /\ [][Next]_vars

----------------------------------------------------------------------------

(* Variables keep the shapes the code gives them. *)
TypeOK ==
  /\ request \in [Attempts -> Request]
  /\ pc \in [Attempts -> {"idle", "waiting", "returned", "raised"}]
  /\ lifecycle \in [Attempts -> AgentLifecycleValue]
  /\ error \in [Attempts -> {"", "local_validation", "orchestrator_port_error",
                             "receipt_context_mismatch"} \cup RefusingStatuses]
  /\ store \in [ReceiptIds -> Receipt \cup {None}]
  /\ answers \subseteq [to: Attempts, receipt: Receipt]

(* Nothing the catalogue blocks, and no patch without review evidence, is  *)
(* ever stored as a handoff, although the orchestrator answers duplicates  *)
(* before it validates anything.                                           *)
StoredHandoffsArePermitted ==
  \A k \in ReceiptIds : store[k] # None =>
    LET intent == store[k].payload IN
      /\ intent.capability_id = HandoffCapability
      /\ intent.operation \in AllowedInitialOperations \ RemoteRefused
      /\ intent.operation \in HumanReviewRequiredOperations => store[k].review # NoReview

Registered(a) ==
  /\ store[Intent(a).key] # None
  /\ store[Intent(a).key].payload = Intent(a)
  /\ store[Intent(a).key].review = Review(a)

(* A caller that is told "handoff_requested" can rely on it: exactly its   *)
(* payload and its evidence are what the orchestrator holds under the key, *)
(* whatever late, repeated or foreign receipts were in flight.             *)
RequestedIsRegistered ==
  \A a \in Attempts :
    lifecycle[a].state = "handoff_requested" => Registered(a)

(* A caller that is told "rejected" can rely on that too: its request is   *)
(* not, and will not become, the registered handoff.                       *)
RejectedIsNotRegistered ==
  \A a \in Attempts : lifecycle[a].state = "rejected" => ~Registered(a)

(* "conflict" means another payload won the key. *)
ConflictMeansAnotherPayload ==
  \A a \in Attempts : error[a] = "conflict" =>
    /\ store[Intent(a).key] # None
    /\ store[Intent(a).key].payload # Intent(a)

(* With answers routed correctly the binding check only fails an attempt   *)
(* that presented other evidence than the registered attempt of the same   *)
(* payload: a plain retry never fails on it.                               *)
MismatchMeansOtherEvidence ==
  "misrouted" \notin Faults =>
    \A a \in Attempts : error[a] = "receipt_context_mismatch" =>
      /\ store[Intent(a).key] # None
      /\ store[Intent(a).key].payload = Intent(a)
      /\ store[Intent(a).key].review # Review(a)

(* The first accepted receipt of a key is final. *)
StoreIsWriteOnce ==
  [][\A k \in ReceiptIds : store[k] # None => store'[k] = store[k]]_vars

(* The port raises normalised errors only (port.py, OrchestratorPortError),*)
(* so an attempt always ends with a result and never with an exception.    *)
TransportErrorsAreNormalized == \A a \in Attempts : pc[a] # "raised"

----------------------------------------------------------------------------
(* Handoff implements HandoffContract. *)

RefusedPairs ==
  {r \in Request :
     \/ ~RecordAccepted(r.intent)
     \/ ~PayloadAccepted(r.intent, r.review # NoReview)
     \/ r.intent.operation \in RemoteRefused}

OutcomeOf(a) ==
  CASE pc[a] = "idle" -> "none"
    [] pc[a] = "waiting" -> "pending"
    [] pc[a] = "raised" -> "failed"
    [] pc[a] = "returned" /\ lifecycle[a].state = "handoff_requested" -> "requested"
    [] OTHER -> lifecycle[a].state

Contract ==
  INSTANCE HandoffContract WITH
    Keys <- ReceiptIds,
    Pairs <- Request,
    Refused <- RefusedPairs,
    submitted <- [a \in Attempts |-> [key |-> Intent(a).key, pair |-> request[a]]],
    registry <- [k \in ReceiptIds |->
                   IF store[k] = None THEN None
                   ELSE [intent |-> store[k].payload, review |-> store[k].review]],
    outcome <- [a \in Attempts |-> OutcomeOf(a)]

(* Every behaviour of the coordinator, the adapter and the orchestrator is *)
(* one the contract allows.                                                *)
ImplementsContract == Contract!Spec
=============================================================================
