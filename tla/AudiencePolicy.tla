---------------------------- MODULE AudiencePolicy ----------------------------
(***************************************************************************)
(* The verdicts of AudiencePolicyEngine (audience_access/policy.py) on a   *)
(* principal, on one envelope of context and on what a provider says.  The *)
(* engine tries its rules in order and the first that applies names the    *)
(* decision.                                                               *)
(*                                                                         *)
(* A text is abstracted to the patterns found in it, a payload to its      *)
(* fields and to whether any of its values is sensitive or personal.       *)
(***************************************************************************)
EXTENDS Integers, Sequences

Missing == ""

StakeholderEntitlement == "sst.metrics.read_global"

MinimumCohortSize == 10

Audiences == {"sst_user", "sst_stakeholder"}

Classifications == {"public", "internal", "private", "derived_safe", "restricted", "secret"}

Sources == {"sst_backend", "approved_analytics", "approved_methodology"}

(* rules is a sequence of pairs: does the rule apply, and its code.        *)
FirstCode(rules) ==
  IF \E k \in DOMAIN rules : rules[k][1]
  THEN rules[CHOOSE k \in DOMAIN rules :
               rules[k][1] /\ \A j \in 1 .. k - 1 : ~rules[j][1]][2]
  ELSE "allowed"

PrincipalRules(p) ==
  LET user == p.audience = "sst_user"
      stakeholder == p.audience = "sst_stakeholder"
      scoped == p.scope.tenant # Missing \/ p.scope.user # Missing
  IN <<
    <<~p.asserted, "identity_not_asserted_by_sst">>,
    <<p.audience \notin Audiences, "unknown_audience">>,
    <<user /\ Missing \in {p.scope.application, p.scope.tenant, p.scope.user}, "incomplete_scope">>,
    <<stakeholder /\ (p.scope.application = Missing \/ scoped), "incomplete_scope">>,
    <<~p.current, "policy_version_mismatch">> >>

(* What the rules of an envelope demand of each audience. *)
ApprovedSources(audience) ==
  IF audience = "sst_user" THEN {"sst_backend"} ELSE {"approved_analytics", "approved_methodology"}

(* Bug: public data is taken to be for the users only. *)
BugApprovedClassifications(audience) ==
  IF audience = "sst_user" THEN {"public", "internal", "private"} ELSE {"derived_safe"}

ApprovedClassifications(audience) ==
  IF audience = "sst_user" THEN {"public", "internal", "private"} ELSE {"public", "derived_safe"}

GlobalScope(application) == [application |-> application, tenant |-> Missing, user |-> Missing]

ScopeMatches(p, e) ==
  e.scope = IF p.audience = "sst_user" THEN p.scope ELSE GlobalScope(p.scope.application)

(* The field that looks like a credential, if one does. *)
Sensitive(e) == e.sensitive # Missing

EnvelopeRules(p, e) == <<
    <<e.classification \notin Classifications, "unknown_classification">>,
    <<e.source \notin Sources, "unknown_source">>,
    <<e.classification \in {"restricted", "secret"}, "prohibited_classification">>,
    <<Sensitive(e), "sensitive_value_detected">>,
    <<~(e.entitlements \subseteq p.entitlements), "missing_entitlement">>,
    <<p.audience = "sst_stakeholder" /\ StakeholderEntitlement \notin p.entitlements,
        "missing_entitlement">>,
    <<e.source \notin ApprovedSources(p.audience), "unapproved_source">>,
    <<e.classification \notin ApprovedClassifications(p.audience), "classification_not_allowed">>,
    <<~ScopeMatches(p, e), "scope_mismatch">>,
    <<p.audience = "sst_stakeholder" /\ e.personal, "personal_identifier_detected">> >>

PrincipalVerdict(p) == FirstCode(PrincipalRules(p))

EnvelopeVerdict(p, e) == FirstCode(EnvelopeRules(p, e))

(* prepare_provider_request looks at the message before anything else. *)
MessageVerdict(p, message) == FirstCode(<<
    <<message = "credential", "sensitive_user_input">>,
    <<p.audience = "sst_stakeholder" /\ message = "individual", "unsupported_stakeholder_request">> >>)

(* validate_disclosure: a claim is backed by a snapshot that shows a value.*)
Backed(claim, snapshot) ==
  /\ ~snapshot.suppressed
  /\ claim.key = snapshot.key /\ claim.value = snapshot.value

DisclosureVerdict(answer, snapshot) == FirstCode(<<
    <<"credential" \in answer.text, "credential_pattern_detected">>,
    <<"personal" \in answer.text, "personal_identifier_detected">>,
    <<answer.structured, "sensitive_structured_output">>,
    <<\E c \in answer.claims : ~Backed(c, snapshot), "unsupported_metric_claim">> >>)
=============================================================================
