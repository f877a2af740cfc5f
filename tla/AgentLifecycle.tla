--------------------------- MODULE AgentLifecycle ----------------------------
(***************************************************************************)
(* A program that holds one current lifecycle value per operation intent   *)
(* and applies advance_lifecycle, record_external_receipt and              *)
(* accept_external_handoff_ownership to it, in any order.  Receipts and    *)
(* acceptances come from outside: they may be repeated, reordered, late,   *)
(* contradictory or addressed to another correlation id.  A call whose     *)
(* checks fail raises ValueError and the caller keeps the value it had, so *)
(* a refused call is a step that is not enabled.                           *)
(***************************************************************************)
EXTENDS Lifecycle, FiniteSetsExt

CONSTANTS
  Intents,       \* operation intents, each with a lifecycle
  MaxReceipts    \* bound: observations recorded per lifecycle

ASSUME IntentAssumption == MaxReceipts \in Nat

VARIABLE lifecycles   \* the current value of each intent's lifecycle

LifecyclesInit ==
  \E correlation \in [Intents -> Correlations] :
    lifecycles = [i \in Intents |-> NewLifecycle(correlation[i])]

(* Bug: the guard that reserves handoff_accepted is dropped. *)
BugAdvanceLifecycle(i, to) ==
  /\ CanAdvance(lifecycles[i], to)
  /\ lifecycles' = [lifecycles EXCEPT ![i] = Advanced(@, to, NoRef)]

(* advance_lifecycle: every allowed transition but the ownership one. *)
AdvanceLifecycle(i, to) ==
  /\ to # "handoff_accepted"
  /\ CanAdvance(lifecycles[i], to)
  /\ lifecycles' = [lifecycles EXCEPT ![i] = Advanced(@, to, NoRef)]

(* Bug: the new value is built without running the validator. *)
BugRecordExternalReceipt(i, observation) ==
  /\ Len(lifecycles[i].external_receipts) < MaxReceipts
  /\ lifecycles' = [lifecycles EXCEPT ![i] = Observed(@, observation)]

RecordExternalReceipt(i, observation) ==
  /\ Len(lifecycles[i].external_receipts) < MaxReceipts
  /\ ValidLifecycle(Observed(lifecycles[i], observation))
  /\ lifecycles' = [lifecycles EXCEPT ![i] = Observed(@, observation)]

(* The acceptance presents a receipt id and a correlation id. *)
AcceptExternalHandoffOwnership(i, id, correlation) ==
  /\ correlation = lifecycles[i].correlation_id
  /\ LatestAccepts(lifecycles[i].external_receipts, id)
  /\ CanAdvance(lifecycles[i], "handoff_accepted")
  /\ lifecycles' = [lifecycles EXCEPT ![i] = Advanced(@, "handoff_accepted", id)]

LifecyclesNext ==
  \E i \in Intents :
    \/ \E to \in LifecycleStates : AdvanceLifecycle(i, to)
    \/ \E observation \in Observation : RecordExternalReceipt(i, observation)
    \/ \E id \in ReceiptIds, c \in Correlations :
         AcceptExternalHandoffOwnership(i, id, c)

LifecyclesSpec == LifecyclesInit /\ [][LifecyclesNext]_lifecycles

----------------------------------------------------------------------------

(* Every value has the fields and field types of AgentLifecycle. *)
LifecyclesTypeOK == lifecycles \in [Intents -> AgentLifecycleValue]

(* Every value any sequence of calls produces is one the constructor's     *)
(* validate_history accepts: the functions never build a value that the    *)
(* next model_validate of the same data would refuse.                      *)
AlwaysValid == \A i \in Intents : ValidLifecycle(lifecycles[i])

(* Work this repository may not execute is only ever shown as accepted or  *)
(* completed on evidence: for each such entry of the history there is an   *)
(* acceptance at or before it, and the receipt that acceptance cites was   *)
(* observed, with the ownership status and the lifecycle's correlation id, *)
(* whatever was recorded afterwards.                                       *)
EvidencedOwnership(lc) ==
  \A k \in DOMAIN lc.history :
    lc.history[k].to \in {"handoff_accepted", "completed"} =>
      \E a \in 1..k :
        /\ lc.history[a].to = "handoff_accepted"
        /\ \E r \in DOMAIN lc.external_receipts :
             /\ lc.external_receipts[r].receipt_id = lc.history[a].input_ref
             /\ lc.external_receipts[r].status = OwnershipAccepted
             /\ lc.external_receipts[r].correlation_id = lc.correlation_id

OwnershipIsEvidenced == \A i \in Intents : EvidencedOwnership(lifecycles[i])

(* Once the orchestrator owns the work the local side cannot declare it    *)
(* rejected, nor fall back to a state before the handoff: in those states  *)
(* the history has no acceptance.                                          *)
NeverOwned(lc) ==
  \A k \in DOMAIN lc.history : lc.history[k].to # "handoff_accepted"

OwnershipIsOneWay ==
  \A i \in Intents :
    lifecycles[i].state \notin {"handoff_accepted", "completed", "failed"} =>
      NeverOwned(lifecycles[i])

(* The audit trail is append-only and a terminal lifecycle's history is    *)
(* final: late receipts may still be observed, but they move nothing.      *)
Extends(new, old) ==
  /\ Len(old) <= Len(new)
  /\ \A k \in DOMAIN old : new[k] = old[k]

AppendOnly(new, old) ==
  /\ new.correlation_id = old.correlation_id
  /\ Extends(new.history, old.history)
  /\ Extends(new.external_receipts, old.external_receipts)
  /\ AllowedTransitions[old.state] = {} =>
       new.history = old.history /\ new.state = old.state

AuditTrailIsAppendOnly ==
  [][\A i \in Intents : AppendOnly(lifecycles'[i], lifecycles[i])]_lifecycles

(* When receipts arrive out of order the latest observation decides: a     *)
(* step that enters handoff_accepted cites a receipt whose last recorded   *)
(* status, among possibly contradictory ones, is the ownership status.     *)
LatestObservationDecides ==
  [][\A i \in Intents :
       lifecycles'[i].state = "handoff_accepted"
         /\ lifecycles[i].state # "handoff_accepted" =>
           LET receipts == lifecycles[i].external_receipts
               cited    == lifecycles'[i].history[Len(lifecycles'[i].history)].input_ref
               observed == {k \in DOMAIN receipts : receipts[k].receipt_id = cited}
           IN observed # {} /\ receipts[Max(observed)].status = OwnershipAccepted]_lifecycles
=============================================================================
