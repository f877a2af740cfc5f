----------------------------- MODULE MCHandoff -------------------------------
(***************************************************************************)
(* Small instances of Handoff.  The intents share one idempotency key      *)
(* where retries, edited payloads and fresh evidence are to meet.          *)
(***************************************************************************)
EXTENDS Handoff, TLC

MCStatuses ==
  {"accepted_for_review", "duplicate", "rejected_by_policy", "conflict",
   OwnershipAccepted}

MCIntent(key, correlation, operation, version) ==
  [key |-> key, correlation_id |-> correlation, capability_id |-> HandoffCapability,
   operation |-> operation, version |-> version, defect |-> "none"]

(* One key: a safe operation, an edited copy of it, and a patch. *)
ContendedIntents ==
  {MCIntent("k1", "c1", "workspace.generate_bundle", 1),
   MCIntent("k1", "c1", "workspace.generate_bundle", 2),
   MCIntent("k1", "c1", "workspace.apply_patch", 1)}

(* Two keys and two correlation ids, and one intent for every way a        *)
(* validation can fail.                                                    *)
MixedIntents ==
  LET safe == MCIntent("k1", "c1", "workspace.generate_bundle", 1)
  IN {safe,
      MCIntent("k2", "c2", "user_history.propose_update", 1),
      MCIntent("k1", "c2", "workspace.apply_patch", 1),
      MCIntent("k1", "c1", "server.restart_service", 1),
      MCIntent("k2", "c1", "totally.unknown", 1),
      MCIntent("k1", "c1", "", 1),
      [safe EXCEPT !.capability_id = "capability.other"],
      [safe EXCEPT !.capability_id = "capability.other", !.operation = "totally.unknown"],
      [safe EXCEPT !.defect = "record"],
      [safe EXCEPT !.defect = "created_at"]}

OneKey == {"k1"}
TwoKeys == {"k1", "k2"}
OneCorrelation == {"c1"}
TwoCorrelations == {"c1", "c2"}
NothingRefused == {}
HistoryRefused == {"user_history.propose_update"}
LossyHttp == {"lost", "unreadable"}
AnyPort == {"lost", "misrouted", "unreadable"}

Symmetric == Permutations(Attempts) \cup Permutations(Evidence)
=============================================================================
