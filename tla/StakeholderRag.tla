---------------------------- MODULE StakeholderRag ----------------------------
(***************************************************************************)
(* GroundedStakeholderRagRuntime.explain (audience_access/stakeholder_rag) *)
(* for one question about a metric: AudienceReadRuntime reads its snapshot *)
(* and suppresses small cohorts, the policy engine prepares its envelope,  *)
(* methodology is authorized and ranked, the provider answers and its      *)
(* claims and citations are validated.  Each port may raise, and may       *)
(* return what was not asked for, but for the retriever, which ranks as    *)
(* the repository's own does.  The policy engine is AudienceRequest:       *)
(* explain calls it, and so may anyone else, directly.                     *)
(***************************************************************************)
EXTENDS AudienceRequest, Ranking

CONSTANTS
  Queries,      \* MetricQuery values; a snapshot says which one it answers
  Snapshots,    \* MetricSnapshot values the metrics port may return
  Methodology,  \* MethodologyRecord values the methodology port may return
  SourceIds,    \* their source ids
  Values,       \* metric values
  Null,         \* a suppressed value
  Lists,        \* the lists of them the methodology source may return
  MethodologyLimit

MetricIds == {"active_accounts", "active_users", "new_accounts", "retention_rate",
              "operation_volume", "module_adoption"}

(* Module adoption, and nothing else, has a dimension. *)
ValidQuery(q) ==
  /\ q.metric \in MetricIds
  /\ q.metric = "module_adoption" <=> q.module # Missing

(* A provenance may be blank, and a value missing without a suppression.   *)
ValidSnapshot(s) ==
  s \in [key: Queries, value: Values \cup {Null}, cohort: Nat, suppressed: BOOLEAN,
         provenance: BOOLEAN, sensitive: STRING, personal: BOOLEAN]

ValidMethodology(r) ==
  /\ r.id \in SourceIds /\ SourceIds \subseteq Int
  /\ r.metric \in MetricIds
  /\ r.classification \in Classifications
  /\ {r.active, r.indexable} \subseteq BOOLEAN
  /\ r.score \in Nat

ASSUME StakeholderAssumption ==
  /\ MethodologyLimit \in Nat \ {0}
  /\ Null \notin Values
  /\ \A q \in Queries : ValidQuery(q)
  /\ \A s \in Snapshots : ValidSnapshot(s)
  /\ \A r \in Methodology : ValidMethodology(r)
  /\ Lists \subseteq Seq(Methodology)

VARIABLES
  query,
  stage,       \* of explain; "uncorrelated" when it is called without a correlation
               \* id, "direct" when the policy engine is called alone
  consulted,   \* the ports called so far
  snapshot,    \* what the metrics port returned, as the runtime goes on with it
  candidates,  \* the list of methodology records read
  authorized,  \* places in it that the policy let through
  retrieved,   \* the ranked places
  answer,      \* the provider's StakeholderGroundedAnswer
  result       \* the StakeholderRagResult

explain == <<query, stage, consulted, snapshot, candidates, authorized, retrieved, answer, result>>

NoSnapshot == [value |-> Null]
NoResult == [code |-> "none"]

StakeholderInit ==
  /\ \/ /\ stage = "direct"
        /\ query = CHOOSE q \in Queries : TRUE
        /\ Init
     \/ /\ stage \in {"asked", "uncorrelated"} /\ query \in Queries
        /\ principal \in Principals
        /\ message \in {"clean", "credential", "individual"}
        /\ envelopes = <<>> /\ approved = <<>> /\ input = <<>>
        /\ pc = "idle" /\ position = 1 /\ code = "none"
  /\ consulted = {}
  /\ snapshot = NoSnapshot
  /\ candidates = <<>>
  /\ authorized = {}
  /\ retrieved = <<>>
  /\ answer = NoResult
  /\ result = NoResult

----------------------------------------------------------------------------
(* _result, with the snapshot the caller is shown and what the trace says. *)
Stop(accepted, verdict, shown, citations, called) ==
  /\ stage' = "done"
  /\ result' = [accepted |-> accepted, code |-> verdict, snapshot |-> shown,
                citations |-> citations, providerCalled |-> called]

Refuse(verdict, shown, called) == Stop(FALSE, verdict, shown, {}, called)

Calls(port) == consulted' = consulted \cup {port}

----------------------------------------------------------------------------
(* AudienceReadRuntime.read_stakeholder_metric *)

(* explain raises before it reads anything. *)
RaiseUncorrelated ==
  /\ stage = "uncorrelated"
  /\ stage' = "raised"
  /\ UNCHANGED <<vars, query, consulted, snapshot, candidates, authorized, retrieved, answer, result>>

ReaderVerdict == FirstCode(<<
  <<principal.audience # "sst_stakeholder", "audience_mismatch">>,
  <<StakeholderEntitlement \notin principal.entitlements, "missing_entitlement">> >>)

RefuseReader ==
  /\ stage = "asked" /\ ReaderVerdict # "allowed"
  /\ Refuse(ReaderVerdict, NoSnapshot, FALSE)
  /\ UNCHANGED <<vars, query, consulted, snapshot, candidates, authorized, retrieved, answer>>

FetchSnapshot ==
  /\ stage = "asked" /\ ReaderVerdict = "allowed"
  /\ Calls("metrics")
  /\ snapshot' \in Snapshots
  /\ stage' = "screening"
  /\ UNCHANGED <<vars, query, candidates, authorized, retrieved, answer, result>>

(* MetricSourceUnavailable is caught, any other exception leaves explain.  *)
MetricsFail ==
  /\ stage = "asked" /\ ReaderVerdict = "allowed"
  /\ Calls("metrics")
  /\ \/ Refuse("metric_source_unavailable", NoSnapshot, FALSE)
     \/ stage' = "raised" /\ UNCHANGED result
  /\ UNCHANGED <<vars, query, snapshot, candidates, authorized, retrieved, answer>>

SnapshotVerdict == FirstCode(<<
  <<snapshot.key # query, "snapshot_mismatch">>,
  <<~snapshot.provenance, "missing_provenance">> >>)

RefuseSnapshot ==
  /\ stage = "screening" /\ SnapshotVerdict # "allowed"
  /\ Refuse(SnapshotVerdict, NoSnapshot, FALSE)
  /\ UNCHANGED <<vars, query, consulted, snapshot, candidates, authorized, retrieved, answer>>

(* Bug: a cohort of exactly one less than the minimum is disclosed. *)
BugSmallCohort == snapshot.cohort < MinimumCohortSize - 1

SmallCohort == snapshot.cohort < MinimumCohortSize

SourceSuppressed == snapshot.suppressed \/ snapshot.value = Null

Suppressed(s) == [s EXCEPT !.suppressed = TRUE, !.value = Null]

Suppress ==
  /\ stage = "screening" /\ SnapshotVerdict = "allowed"
  /\ SmallCohort \/ SourceSuppressed
  /\ Stop(TRUE, IF SmallCohort THEN "small_cohort_suppressed" ELSE "source_suppressed",
          Suppressed(snapshot), {}, FALSE)
  /\ UNCHANGED <<vars, query, consulted, snapshot, candidates, authorized, retrieved, answer>>

(* What of a snapshot may pass: not its source nor its provenance. *)
MetricFields == {"metric_id", "period", "granularity", "value", "definition", "cohort_size",
                 "dimension", "dimension_value"}

MetricEnvelope ==
  [source |-> "approved_analytics", classification |-> "derived_safe",
   scope |-> GlobalScope(principal.scope.application),
   fields |-> MetricFields \cup {"source", "provenance", "suppressed"},
   allowed |-> MetricFields,
   sensitive |-> snapshot.sensitive, personal |-> snapshot.personal,
   entitlements |-> {StakeholderEntitlement}]

(* prepare_provider_request is called with the one envelope. *)
AskPolicy ==
  /\ stage = "screening" /\ SnapshotVerdict = "allowed"
  /\ ~SmallCohort /\ ~SourceSuppressed
  /\ stage' = "preparing"
  /\ envelopes' = <<MetricEnvelope>>
  /\ pc' = "asked"
  /\ UNCHANGED <<principal, message, position, approved, code, input, query, consulted, snapshot,
                 candidates, authorized, retrieved, answer, result>>

PolicyStep ==
  /\ stage \in {"direct", "preparing"}
  /\ Next
  /\ UNCHANGED explain

PrepareMetric ==
  /\ stage = "preparing" /\ pc = "done"
  /\ \/ code = "allowed" /\ stage' = "loading" /\ UNCHANGED result
     \/ code # "allowed" /\ Refuse(code, snapshot, FALSE)
  /\ UNCHANGED <<vars, query, consulted, snapshot, candidates, authorized, retrieved, answer>>

----------------------------------------------------------------------------
(* Methodology *)

LoadMethodology ==
  /\ stage = "loading"
  /\ Calls("methodology")
  /\ candidates' \in Lists
  /\ stage' = "authorizing"
  /\ UNCHANGED <<vars, query, snapshot, authorized, retrieved, answer, result>>

MethodologyFails ==
  /\ stage = "loading"
  /\ Calls("methodology")
  /\ Refuse("methodology_source_error", snapshot, FALSE)
  /\ UNCHANGED <<vars, query, snapshot, candidates, authorized, retrieved, answer>>

MethodologyEnvelope(r) ==
  [source |-> "approved_methodology", classification |-> r.classification,
   scope |-> GlobalScope(principal.scope.application),
   sensitive |-> r.sensitive, personal |-> r.personal, entitlements |-> r.entitlements]

(* Bug: methodology of another metric is let through. *)
BugAuthorizeMethodology(r) ==
  /\ r.active /\ r.indexable
  /\ r.classification \in {"public", "derived_safe"}
  /\ PrincipalVerdict(principal) = "allowed"
  /\ EnvelopeVerdict(principal, MethodologyEnvelope(r)) = "allowed"

AuthorizeMethodology(r) ==
  /\ r.metric = query.metric
  /\ r.active /\ r.indexable
  /\ r.classification \in {"public", "derived_safe"}
  /\ PrincipalVerdict(principal) = "allowed"
  /\ EnvelopeVerdict(principal, MethodologyEnvelope(r)) = "allowed"

AuthorizeAll ==
  /\ stage = "authorizing"
  /\ authorized' = {i \in DOMAIN candidates : AuthorizeMethodology(candidates[i])}
  /\ \/ authorized' # {} /\ stage' = "retrieving" /\ UNCHANGED result
     \/ authorized' = {} /\ Refuse("no_authorized_methodology", snapshot, FALSE)
  /\ UNCHANGED <<vars, query, consulted, snapshot, candidates, retrieved, answer>>

(* A candidate is no MethodologyRecord. *)
PolicyFails ==
  /\ stage = "authorizing" /\ candidates # <<>>
  /\ Refuse("methodology_policy_error", snapshot, FALSE)
  /\ UNCHANGED <<vars, query, consulted, snapshot, candidates, authorized, retrieved, answer>>

Retrieve ==
  /\ stage = "retrieving"
  /\ Calls("retriever")
  /\ retrieved' \in Rankings(candidates, authorized, MethodologyLimit)
  /\ stage' = "answering"
  /\ UNCHANGED <<vars, query, snapshot, candidates, authorized, answer, result>>

(* It raises, or finds nothing relevant. *)
RetrieverFails ==
  /\ stage = "retrieving"
  /\ Calls("retriever")
  /\ \E verdict \in {"methodology_retriever_error", "insufficient_methodology"} :
       Refuse(verdict, snapshot, FALSE)
  /\ UNCHANGED <<vars, query, snapshot, candidates, authorized, retrieved, answer>>

----------------------------------------------------------------------------
(* The provider *)

Claims == [key : Queries, value : Values]

(* StakeholderGroundedAnswer: "numeric" and "text" are what is found in    *)
(* the narrative, "structured" whether a claim holds a sensitive value.    *)
Answers ==
  [numeric : BOOLEAN, text : {{}, {"credential"}, {"personal"}}, structured : BOOLEAN,
   claims : (SUBSET Claims) \ {{}}, cites : (SUBSET SourceIds) \ {{}}]

(* The methodology the provider is handed. *)
Context == {candidates[i] : i \in Range(retrieved)}

RetrievedIds == {r.id : r \in Context}

(* by_id: of records with one source id the last one retrieved is cited.   *)
ById(id) ==
  LET cited(k) == candidates[retrieved[k]].id = id
      last == CHOOSE k \in DOMAIN retrieved :
                cited(k) /\ \A j \in DOMAIN retrieved : cited(j) => j <= k
  IN  candidates[retrieved[last]]

(* Bug: the claims of an answer with a clean text are not looked at. *)
BugAnswerVerdict(a) == FirstCode(<<
  <<a.numeric, "numeric_narrative_forbidden">>,
  <<a.text # {}, DisclosureVerdict(a, snapshot)>>,
  <<~(a.cites \subseteq RetrievedIds), "unknown_methodology_citation">> >>)

AnswerVerdict(a) == FirstCode(<<
  <<a.numeric, "numeric_narrative_forbidden">>,
  <<DisclosureVerdict(a, snapshot) # "allowed", DisclosureVerdict(a, snapshot)>>,
  <<~(a.cites \subseteq RetrievedIds), "unknown_methodology_citation">> >>)

Answer ==
  /\ stage = "answering"
  /\ Calls("provider")
  /\ answer' \in Answers
  /\ \/ /\ AnswerVerdict(answer') = "allowed"
        /\ Stop(TRUE, "grounded_stakeholder_answer", snapshot, {ById(id) : id \in answer'.cites}, TRUE)
     \/ AnswerVerdict(answer') # "allowed" /\ Refuse(AnswerVerdict(answer'), snapshot, TRUE)
  /\ UNCHANGED <<vars, query, snapshot, candidates, authorized, retrieved>>

(* It raises, or what it returns cannot be validated. *)
ProviderFails ==
  /\ stage = "answering"
  /\ Calls("provider")
  /\ Refuse("provider_error", snapshot, TRUE)
  /\ UNCHANGED <<vars, query, snapshot, candidates, authorized, retrieved, answer>>

StakeholderNext ==
  \/ RaiseUncorrelated \/ RefuseReader \/ FetchSnapshot \/ MetricsFail
  \/ RefuseSnapshot \/ Suppress \/ AskPolicy \/ PolicyStep \/ PrepareMetric
  \/ LoadMethodology \/ MethodologyFails \/ AuthorizeAll \/ PolicyFails
  \/ Retrieve \/ RetrieverFails \/ Answer \/ ProviderFails

StakeholderSpec == StakeholderInit /\ [][StakeholderNext]_<<vars, explain>>

----------------------------------------------------------------------------

(* A cohort below 10, or one its source suppressed, is suppressed "antes   *)
(* de consultar metodologia o provider" (grounded-stakeholder-metrics-     *)
(* rag.md): no port but the metrics port hears of the question, and the    *)
(* reader is shown no value, whatever the outcome is called.  Nor does any *)
(* of them before the policy engine has approved the metric; what that     *)
(* engine passes on is the approved fields alone.  (explain lets the       *)
(* engine decide and hands its provider the snapshot itself, whole.)       *)
HiddenValuesStayHidden ==
  /\ snapshot # NoSnapshot /\ (snapshot.cohort < 10 \/ snapshot.suppressed) =>
       /\ consulted = {"metrics"}
       /\ input = <<>>
       /\ stage = "done" => result.snapshot.value = Null
  /\ consulted \ {"metrics"} # {} =>
       /\ code = "allowed" /\ Len(input) = 1
       /\ {"source", "provenance"} \cap input[1].data = {}

(* An answer that is handed out says of the metric what the snapshot says  *)
(* and nothing else, for the metric and the period that were asked for, of *)
(* a cohort that is large enough; and what the trace says of the provider  *)
(* is so: it was called exactly when its port was.                         *)
AnswersAreExact ==
  stage = "done" =>
    /\ result.providerCalled <=> "provider" \in consulted
    /\ result.citations # {} =>
         /\ result.accepted
         /\ snapshot.key = query /\ snapshot.cohort >= 10
         /\ answer.claims = {[key |-> query, value |-> snapshot.value]}
         /\ ~answer.numeric /\ answer.text = {} /\ ~answer.structured

(* The methodology a reader is entitled to: of the metric of the question, *)
(* public or safe, and of no person.                                       *)
EntitledMethodology ==
  IF principal.asserted /\ principal.current
  THEN {r \in Methodology :
          /\ r.metric = query.metric
          /\ r.active /\ r.indexable
          /\ r.classification \in {"public", "derived_safe"}
          /\ r.sensitive = Missing /\ ~r.personal
          /\ r.entitlements \subseteq principal.entitlements}
  ELSE {}

Phase ==
  CASE stage = "done" -> IF result.citations # {} THEN "answered" ELSE "refused"
    [] stage = "raised" -> "refused"
    [] stage = "answering" -> "consulting"
    [] OTHER -> "asked"

Abstract == INSTANCE Grounding WITH
  Material <- Methodology,
  phase    <- Phase,
  entitled <- EntitledMethodology,
  context  <- IF stage = "answering" \/ "provider" \in consulted THEN Context ELSE {},
  cited    <- IF stage = "done" THEN result.citations ELSE {}

(* This pipeline grounds its answers too: the provider sees methodology    *)
(* its reader is entitled to, whatever the sources return, and an answer   *)
(* cites some of what it saw.                                              *)
ImplementsGrounding == Abstract!Spec
=============================================================================
