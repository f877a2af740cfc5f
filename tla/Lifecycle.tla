------------------------------ MODULE Lifecycle ------------------------------
(***************************************************************************)
(* The immutable AgentLifecycle value of src/app/agents/lifecycle.py and   *)
(* the functions that derive a new value from an old one.  The module has  *)
(* no variables: AgentLifecycle keeps such values for callers that drive   *)
(* them directly, Handoff keeps the ones the coordinator drives.           *)
(*                                                                         *)
(* A transition keeps the end points and, for an ownership acceptance, the *)
(* receipt it cites (input_ref); actor, reason, output_ref and timestamps  *)
(* are text no property is about.                                          *)
(***************************************************************************)
EXTENDS Integers, Sequences

CONSTANTS
  Correlations,     \* correlation ids a lifecycle or a receipt can carry
  ReceiptIds,       \* ids the external orchestrator gives its receipts
  ReceiptStatuses,  \* statuses an external receipt can report
  NoRef             \* the input_ref of a transition that cites no receipt

OwnershipAccepted == "execution_ownership_accepted"

ASSUME LifecycleAssumption ==
  /\ OwnershipAccepted \in ReceiptStatuses
  /\ NoRef \notin ReceiptIds

LifecycleStates ==
  {"requested", "classified", "planned", "validated_for_handoff",
   "handoff_requested", "handoff_accepted", "completed", "failed", "rejected"}

(* Bug: the external owner's acceptance can still be rejected locally. *)
BugAllowedTransitions ==
  [requested             |-> {"classified", "rejected", "failed"},
   classified            |-> {"planned", "rejected", "failed"},
   planned               |-> {"validated_for_handoff", "rejected", "failed"},
   validated_for_handoff |-> {"handoff_requested", "rejected", "failed"},
   handoff_requested     |-> {"handoff_accepted", "rejected", "failed"},
   handoff_accepted      |-> {"completed", "rejected", "failed"},
   completed             |-> {},
   failed                |-> {},
   rejected              |-> {}]

(* ALLOWED_LIFECYCLE_TRANSITIONS *)
AllowedTransitions ==
  [requested             |-> {"classified", "rejected", "failed"},
   classified            |-> {"planned", "rejected", "failed"},
   planned               |-> {"validated_for_handoff", "rejected", "failed"},
   validated_for_handoff |-> {"handoff_requested", "rejected", "failed"},
   handoff_requested     |-> {"handoff_accepted", "rejected", "failed"},
   handoff_accepted      |-> {"completed", "failed"},
   completed             |-> {},
   failed                |-> {},
   rejected              |-> {}]

Transition ==
  [from: LifecycleStates, to: LifecycleStates, input_ref: ReceiptIds \cup {NoRef}]

Observation ==
  [receipt_id: ReceiptIds, status: ReceiptStatuses, correlation_id: Correlations]

AgentLifecycleValue ==
  [correlation_id: Correlations,
   state: LifecycleStates,
   history: Seq(Transition),
   external_receipts: Seq(Observation)]

NewLifecycle(correlation) ==
  [correlation_id |-> correlation, state |-> "requested",
   history |-> <<>>, external_receipts |-> <<>>]

----------------------------------------------------------------------------

(* validate_history, run by the constructor on every value: the history is *)
(* a path of allowed transitions from "requested" to the state, and every  *)
(* receipt carries the lifecycle's own correlation id.                     *)
Contiguous(history) ==
  \A k \in DOMAIN history :
    history[k].from = IF k = 1 THEN "requested" ELSE history[k - 1].to

HistoryState(history) ==
  IF history = <<>> THEN "requested" ELSE history[Len(history)].to

ValidLifecycle(lc) ==
  /\ Contiguous(lc.history)
  /\ \A k \in DOMAIN lc.history :
       lc.history[k].to \in AllowedTransitions[lc.history[k].from]
  /\ lc.state = HistoryState(lc.history)
  /\ \A k \in DOMAIN lc.external_receipts :
       lc.external_receipts[k].correlation_id = lc.correlation_id

(* _advance *)
CanAdvance(lc, to) == to \in AllowedTransitions[lc.state]

Advanced(lc, to, ref) ==
  [lc EXCEPT !.state = to,
             !.history = Append(@, [from |-> lc.state, to |-> to, input_ref |-> ref])]

(* Bug: the new value keeps only the newest observation. *)
BugObserved(lc, observation) ==
  [lc EXCEPT !.external_receipts = <<observation>>]

(* record_external_receipt: allowed in every state; the constructor raises *)
(* when the new value is not valid.                                        *)
Observed(lc, observation) ==
  [lc EXCEPT !.external_receipts = Append(@, observation)]

(* Bug: any observation of the receipt will do, not the latest. *)
BugLatestAccepts(receipts, id) ==
  \E k \in DOMAIN receipts :
    /\ receipts[k].receipt_id = id
    /\ receipts[k].status = OwnershipAccepted

(* matching_receipts[-1].status == acceptance.status: the latest           *)
(* observation of the receipt accepts execution ownership.                 *)
LatestAccepts(receipts, id) ==
  \E k \in DOMAIN receipts :
    /\ receipts[k].receipt_id = id
    /\ receipts[k].status = OwnershipAccepted
    /\ \A m \in DOMAIN receipts : m > k => receipts[m].receipt_id # id
=============================================================================
