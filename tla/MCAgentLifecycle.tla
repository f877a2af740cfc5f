-------------------------- MODULE MCAgentLifecycle ---------------------------
(***************************************************************************)
(* A small instance: one intent, a correlation id of its own and a foreign *)
(* one, two receipts and up to three observations, so that a receipt can   *)
(* be observed twice with contradictory statuses and interleaved with the  *)
(* other.                                                                  *)
(***************************************************************************)
EXTENDS AgentLifecycle

MCStatuses == {"accepted_for_review", "rejected_by_policy", OwnershipAccepted}
=============================================================================
