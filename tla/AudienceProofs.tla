--------------------------- MODULE AudienceProofs ---------------------------
(***************************************************************************)
(* Theorems about AudienceRequest, for any principals and envelopes and    *)
(* any number of envelopes, and about StakeholderRag, which calls it, for  *)
(* any metrics and methodology.                                            *)
(***************************************************************************)
EXTENDS StakeholderRag, FiniteSetTheorems, TLAPS

(* The contracts of principals and envelopes, written out. *)
LEMMA ContractFacts ==
  /\ MaxEnvelopes \in Nat
  /\ \A p \in Principals :
       /\ p.scope \in Scope
       /\ p.audience = "sst_user" => Missing \notin {p.scope.tenant, p.scope.user}
  /\ \A e \in Envelopes :
       e.scope \in Scope /\ e.allowed # {} /\ e.allowed \subseteq e.fields
BY AudienceAssumption DEF ValidPrincipal, ValidEnvelope

(* Among the rules that apply there is a first one. *)
LEMMA FirstExists ==
  ASSUME NEW n \in Nat, NEW S \in SUBSET (1 .. n), S # {}
  PROVE  \E m \in S : \A j \in 1 .. m - 1 : j \notin S
<1> DEFINE UpTo(k) == {j \in S : j <= k}
           C == {UpTo(k) : k \in S}
<1>1. IsFiniteSet(S)
  <2>1. IsFiniteSet(1 .. n)
    BY FS_Interval
  <2> QED BY <2>1, FS_Subset
<1>2. C \subseteq FiniteSubsetsOf(S)
  <2>1. \A k \in S : IsFiniteSet(UpTo(k)) /\ UpTo(k) \in SUBSET S
    BY <1>1, FS_Subset
  <2> QED BY <2>1 DEF FiniteSubsetsOf
<1>3. C # {}
  OBVIOUS
<1>4. PICK X \in C : \A Y \in C : ~(<<Y, X>> \in StrictSubsetOrdering(S))
  BY <1>2, <1>3, WFMin, FS_StrictSubsetOrderingWellFounded
<1>5. PICK m \in S : X = UpTo(m)
  OBVIOUS
<1>6. ASSUME NEW j \in 1 .. m - 1, j \in S PROVE FALSE
  <2>1. UpTo(j) \subseteq UpTo(m)
    <3>1. \A k \in S : k <= j => k <= m
      BY <1>6
    <3> QED BY <3>1
  <2>2. m \in UpTo(m) /\ m \notin UpTo(j)
    BY <1>6
  <2>3. <<UpTo(j), UpTo(m)>> \in StrictSubsetOrdering(S)
    BY <2>1, <2>2 DEF StrictSubsetOrdering
  <2> QED BY <1>4, <1>5, <1>6, <2>3
<1> QED BY <1>6

(* Something passes a list of rules exactly when none of them applies.     *)
LEMMA PassesIffNoRuleApplies ==
  ASSUME NEW n \in Nat, NEW rules, DOMAIN rules = 1 .. n,
         \A k \in 1 .. n : rules[k][1] => rules[k][2] # "allowed"
  PROVE  FirstCode(rules) = "allowed" <=> \A k \in 1 .. n : ~rules[k][1]
<1> DEFINE S == {k \in 1 .. n : rules[k][1]}
           First(k) == rules[k][1] /\ \A j \in 1 .. k - 1 : ~rules[j][1]
<1>1. CASE S = {}
  <2>1. \A k \in 1 .. n : ~rules[k][1]
    BY <1>1
  <2> QED BY <2>1 DEF FirstCode
<1>2. CASE S # {}
  <2>1. PICK m \in S : \A j \in 1 .. m - 1 : j \notin S
    BY <1>2, FirstExists
  <2>2. \A j \in 1 .. m - 1 : j \in 1 .. n
    OBVIOUS
  <2>3. \E k \in DOMAIN rules : First(k)
    BY <2>1, <2>2
  <2> DEFINE first == CHOOSE k \in DOMAIN rules : First(k)
  <2>4. first \in 1 .. n /\ rules[first][1]
    BY <2>3
  <2>5. FirstCode(rules) = rules[first][2]
    BY <2>3 DEF FirstCode
  <2> HIDE DEF first
  <2>6. FirstCode(rules) # "allowed"
    BY <2>4, <2>5
  <2> QED BY <2>4, <2>6
<1> QED BY <1>1, <1>2

LEMMA EnvelopePasses ==
  ASSUME NEW p \in Principals, NEW e, e.scope \in Scope, p.audience \in Audiences
  PROVE  EnvelopeVerdict(p, e) = "allowed" <=> Entitled(p, e) /\ e.sensitive = Missing
<1> DEFINE rules == EnvelopeRules(p, e)
<1>1. DOMAIN rules = 1 .. 10 /\ \A k \in 1 .. 10 : rules[k][2] # "allowed"
  BY DEF EnvelopeRules
<1>2. FirstCode(rules) = "allowed" <=> \A k \in 1 .. 10 : ~rules[k][1]
  <2> HIDE DEF rules
  <2> QED BY <1>1, PassesIffNoRuleApplies
<1>3. (\A k \in 1 .. 10 : ~rules[k][1]) <=>
        /\ ~rules[1][1] /\ ~rules[2][1] /\ ~rules[3][1] /\ ~rules[4][1] /\ ~rules[5][1]
        /\ ~rules[6][1] /\ ~rules[7][1] /\ ~rules[8][1] /\ ~rules[9][1] /\ ~rules[10][1]
  <2> HIDE DEF rules
  <2> QED OBVIOUS
<1>4. (/\ ~rules[1][1] /\ ~rules[2][1] /\ ~rules[3][1] /\ ~rules[4][1] /\ ~rules[5][1]
       /\ ~rules[6][1] /\ ~rules[7][1] /\ ~rules[8][1] /\ ~rules[9][1] /\ ~rules[10][1]) <=>
        /\ e.classification \in Classifications \ {"restricted", "secret"}
        /\ e.source \in Sources
        /\ e.sensitive = Missing
        /\ e.entitlements \subseteq p.entitlements
        /\ ~(p.audience = "sst_stakeholder" /\ StakeholderEntitlement \notin p.entitlements)
        /\ e.source \in ApprovedSources(p.audience)
        /\ e.classification \in ApprovedClassifications(p.audience)
        /\ ScopeMatches(p, e)
        /\ ~(p.audience = "sst_stakeholder" /\ e.personal)
  BY DEF EnvelopeRules, Sensitive
<1> QED BY <1>2, <1>3, <1>4, ContractFacts DEF EnvelopeVerdict, Entitled, ApprovedSources,
     ApprovedClassifications, ScopeMatches, GlobalScope, Scope, Audiences, Classifications,
     Sources

LEMMA PrincipalPasses ==
  ASSUME NEW p \in Principals
  PROVE  PrincipalVerdict(p) = "allowed" <=>
           /\ p.asserted /\ p.current /\ p.audience \in Audiences
           /\ p.scope.application # Missing
           /\ p.audience = "sst_stakeholder" => p.scope = GlobalScope(p.scope.application)
<1> DEFINE rules == PrincipalRules(p)
<1>1. DOMAIN rules = 1 .. 5 /\ \A k \in 1 .. 5 : rules[k][2] # "allowed"
  BY DEF PrincipalRules
<1>2. FirstCode(rules) = "allowed" <=> \A k \in 1 .. 5 : ~rules[k][1]
  <2> HIDE DEF rules
  <2> QED BY <1>1, PassesIffNoRuleApplies
<1>3. (\A k \in 1 .. 5 : ~rules[k][1]) <=>
        /\ ~rules[1][1] /\ ~rules[2][1] /\ ~rules[3][1] /\ ~rules[4][1] /\ ~rules[5][1]
  <2> HIDE DEF rules
  <2> QED OBVIOUS
<1>4. (/\ ~rules[1][1] /\ ~rules[2][1] /\ ~rules[3][1] /\ ~rules[4][1] /\ ~rules[5][1]) <=>
        /\ p.asserted /\ p.current /\ p.audience \in Audiences
        /\ p.audience = "sst_user" =>
             Missing \notin {p.scope.application, p.scope.tenant, p.scope.user}
        /\ p.audience = "sst_stakeholder" =>
             /\ p.scope.application # Missing
             /\ p.scope.tenant = Missing /\ p.scope.user = Missing
  BY DEF PrincipalRules
<1> QED BY <1>2, <1>3, <1>4, ContractFacts DEF PrincipalVerdict, GlobalScope, Scope, Audiences

LEMMA MessagePasses ==
  ASSUME NEW p, NEW m
  PROVE  MessageVerdict(p, m) = "allowed" <=>
           (m # "credential" /\ ~(p.audience = "sst_stakeholder" /\ m = "individual"))
<1> DEFINE rules == <<
       <<m = "credential", "sensitive_user_input">>,
       <<p.audience = "sst_stakeholder" /\ m = "individual", "unsupported_stakeholder_request">> >>
<1>1. DOMAIN rules = 1 .. 2 /\ \A k \in 1 .. 2 : rules[k][2] # "allowed"
  OBVIOUS
<1>2. FirstCode(rules) = "allowed" <=> \A k \in 1 .. 2 : ~rules[k][1]
  <2> HIDE DEF rules
  <2> QED BY <1>1, PassesIffNoRuleApplies
<1>3. (\A k \in 1 .. 2 : ~rules[k][1]) <=> ~rules[1][1] /\ ~rules[2][1]
  <2> HIDE DEF rules
  <2> QED OBVIOUS
<1>4. (~rules[1][1] /\ ~rules[2][1]) <=>
        (m # "credential" /\ ~(p.audience = "sst_stakeholder" /\ m = "individual"))
  OBVIOUS
<1>5. MessageVerdict(p, m) = FirstCode(rules)
  BY DEF MessageVerdict
<1> QED BY <1>2, <1>3, <1>4, <1>5

----------------------------------------------------------------------------
(* The inductive invariant: what the loop has approved is the envelopes    *)
(* before its position, each minimized, and nothing is input before the    *)
(* last of them has passed.                                                *)

Admitted ==
  MessageVerdict(principal, message) = "allowed" /\ PrincipalVerdict(principal) = "allowed"

IInv ==
  /\ principal \in Principals
  /\ Len(envelopes) \in Nat /\ DOMAIN envelopes = 1 .. Len(envelopes)
  /\ \A k \in DOMAIN envelopes : ValidEnvelope(envelopes[k])
  /\ pc \in {"idle", "asked", "reading", "done"}
  /\ position \in 1 .. Len(envelopes) + 1
  /\ \A k \in 1 .. position - 1 : EnvelopeVerdict(principal, envelopes[k]) = "allowed"
  /\ approved = [k \in 1 .. position - 1 |-> Minimized(envelopes[k])]
  /\ pc \in {"idle", "asked"} => position = 1
  /\ pc = "reading" => Admitted
  /\ pc # "done" => code = "none" /\ input = <<>>
  /\ pc = "done" =>
       \/ code = "allowed" /\ Admitted /\ position = Len(envelopes) + 1 /\ input = approved
       \/ /\ code # "allowed" /\ input = <<>>
          /\ \/ ~Admitted
             \/ \E k \in DOMAIN envelopes : EnvelopeVerdict(principal, envelopes[k]) # "allowed"

LEMMA InitIInv == Init => IInv
<1> SUFFICES ASSUME Init PROVE IInv
  OBVIOUS
<1>1. PICK n \in 0 .. MaxEnvelopes : envelopes \in [1 .. n -> Envelopes]
  BY DEF Init
<1>2. n \in Nat
  BY ContractFacts
<1>3. Len(envelopes) = n /\ DOMAIN envelopes = 1 .. n
  BY <1>1, <1>2
<1>4. \A k \in DOMAIN envelopes : ValidEnvelope(envelopes[k])
  BY <1>1, AudienceAssumption
<1> QED BY <1>2, <1>3, <1>4 DEF Init, IInv

LEMMA StepIInv == IInv /\ [Next]_vars => IInv'
<1> SUFFICES ASSUME IInv, [Next]_vars PROVE IInv'
  OBVIOUS
<1> USE DEF IInv, Admitted, request
<1>1. CASE RefuseMessage
  BY <1>1 DEF RefuseMessage, Deny
<1>2. CASE RefusePrincipal
  BY <1>2 DEF RefusePrincipal, Deny
<1>3. CASE Admit
  BY <1>3 DEF Admit
<1>4. CASE Approve
  <2>1. /\ position \in Nat /\ position' = position + 1 /\ position' \in 1 .. Len(envelopes) + 1
        /\ UNCHANGED <<principal, message, envelopes, pc, code, input>> /\ pc = "reading"
    BY <1>4 DEF Approve
  <2>2. \A k \in 1 .. position' - 1 : EnvelopeVerdict(principal, envelopes[k]) = "allowed"
    BY <1>4, <2>1 DEF Approve
  <2>3. approved' = [k \in 1 .. position' - 1 |-> Minimized(envelopes[k])]
    <3>1. approved' = Append(approved, Minimized(envelopes[position]))
      BY <1>4 DEF Approve
    <3>2. Len(approved) = position - 1
      BY <2>1
    <3> QED BY <2>1, <3>1, <3>2
  <2> QED BY <2>1, <2>2, <2>3
<1>5. CASE RefuseEnvelope
  BY <1>5 DEF RefuseEnvelope, Deny
<1>6. CASE Prepare
  BY <1>6 DEF Prepare
<1>7. CASE UNCHANGED vars
  BY <1>7 DEF vars
<1> QED BY <1>1, <1>2, <1>3, <1>4, <1>5, <1>6, <1>7 DEF Next

LEMMA Invariance == Spec => []IInv
BY InitIInv, StepIInv, PTL DEF Spec

LEMMA WholeRequests == IInv => InputIsAllOrNothing
<1> SUFFICES ASSUME IInv, input # <<>> PROVE InputIsAllOrNothing
  BY DEF IInv, InputIsAllOrNothing
<1>1. /\ principal \in Principals /\ code = "allowed" /\ Admitted
      /\ DOMAIN envelopes = 1 .. Len(envelopes) /\ Len(envelopes) \in Nat
      /\ \A k \in DOMAIN envelopes :
           /\ envelopes[k].scope \in Scope
           /\ EnvelopeVerdict(principal, envelopes[k]) = "allowed"
      /\ input = [k \in 1 .. Len(envelopes) |-> Minimized(envelopes[k])]
  BY DEF IInv, ValidEnvelope
<1>2. /\ principal.asserted /\ principal.current /\ principal.audience \in Audiences
      /\ message # "credential"
      /\ principal.audience = "sst_stakeholder" =>
           principal.scope = GlobalScope(principal.scope.application)
  BY <1>1, PrincipalPasses, MessagePasses DEF Admitted
<1>3. \A k \in DOMAIN envelopes :
        Entitled(principal, envelopes[k]) /\ envelopes[k].sensitive = Missing
  BY <1>1, <1>2, EnvelopePasses
<1>4. principal.audience = "sst_stakeholder" =>
        \A k \in DOMAIN envelopes : envelopes[k].scope = principal.scope
  BY <1>1, <1>2, <1>3, ContractFacts DEF Entitled, GlobalScope, Scope
<1>5. Len(input) = Len(envelopes) /\ \A k \in DOMAIN input : input[k].data = envelopes[k].allowed
  BY <1>1 DEF Minimized
<1> QED BY <1>1, <1>2, <1>3, <1>4, <1>5 DEF InputIsAllOrNothing

(* A provider is given all the envelopes of a request, each one its        *)
(* principal's to see, or nothing.                                         *)
THEOREM RequestsAreWhole == Spec => []InputIsAllOrNothing
BY Invariance, WholeRequests, PTL

LEMMA EntitledPass == IInv => EntitledRequestsPass
<1> SUFFICES ASSUME IInv, pc = "done", message = "clean",
                    principal.asserted, principal.current, principal.audience \in Audiences,
                    principal.audience = "sst_stakeholder" =>
                      principal.scope = GlobalScope(principal.scope.application),
                    principal.scope.application # Missing,
                    \A k \in DOMAIN envelopes :
                      Entitled(principal, envelopes[k]) /\ envelopes[k].sensitive = Missing
             PROVE  code = "allowed" /\ Len(input) = Len(envelopes)
  BY DEF EntitledRequestsPass
<1>1. Admitted
  BY PrincipalPasses, MessagePasses DEF Admitted, IInv
<1>2. \A k \in DOMAIN envelopes : EnvelopeVerdict(principal, envelopes[k]) = "allowed"
  BY EnvelopePasses DEF IInv, ValidEnvelope
<1>3. code = "allowed" /\ input = [k \in 1 .. Len(envelopes) |-> Minimized(envelopes[k])]
  BY <1>1, <1>2 DEF IInv
<1> QED BY <1>3 DEF IInv

(* Nobody entitled is turned away. *)
THEOREM NobodyEntitledIsRefused == Spec => []EntitledRequestsPass
BY Invariance, EntitledPass, PTL

----------------------------------------------------------------------------
(* The pipeline.  The engine keeps its invariant when explain drives it.   *)

LEMMA EngineInit == StakeholderInit => IInv
<1> SUFFICES ASSUME StakeholderInit PROVE IInv
  OBVIOUS
<1>1. CASE Init
  BY <1>1, InitIInv
<1>2. CASE /\ principal \in Principals /\ envelopes = <<>> /\ approved = <<>> /\ input = <<>>
           /\ pc = "idle" /\ position = 1 /\ code = "none"
  <2>1. Len(envelopes) = 0 /\ DOMAIN envelopes = 1 .. 0
    BY <1>2
  <2>2. approved = [k \in 1 .. position - 1 |-> Minimized(envelopes[k])]
    BY <1>2
  <2> QED BY <1>2, <2>1, <2>2 DEF IInv
<1> QED BY <1>1, <1>2 DEF StakeholderInit

(* What explain asks the engine to let through. *)
LEMMA MetricEnvelopeIsValid ==
  ASSUME principal \in Principals
  PROVE  ValidEnvelope(MetricEnvelope) /\ MetricEnvelope.allowed = MetricFields
<1>1. principal.scope.application \in STRING
  BY ContractFacts DEF Scope
<1>2. GlobalScope(principal.scope.application) \in Scope
  BY <1>1 DEF GlobalScope, Scope
<1> QED BY <1>2 DEF MetricEnvelope, ValidEnvelope, MetricFields

LEMMA EngineStep == IInv /\ (stage \in {"asked", "screening"} => pc = "idle")
                      /\ [StakeholderNext]_<<vars, explain>> => IInv'
<1> SUFFICES ASSUME IInv, stage \in {"asked", "screening"} => pc = "idle",
                    [StakeholderNext]_<<vars, explain>>
             PROVE  IInv'
  OBVIOUS
<1>1. CASE AskPolicy
  <2>1. ValidEnvelope(MetricEnvelope)
    BY MetricEnvelopeIsValid DEF IInv
  <2>2. /\ pc = "idle" /\ pc' = "asked" /\ envelopes' = <<MetricEnvelope>>
        /\ UNCHANGED <<principal, message, position, approved, code, input>>
    BY <1>1 DEF AskPolicy
  <2>3. Len(envelopes') = 1 /\ DOMAIN envelopes' = 1 .. 1 /\ envelopes'[1] = MetricEnvelope
    BY <2>2
  <2>4. position = 1 /\ approved = [k \in 1 .. 0 |-> Minimized(envelopes[k])]
    BY <2>2 DEF IInv
  <2>5. approved = [k \in 1 .. 0 |-> Minimized(envelopes'[k])]
    BY <2>4
  <2> QED BY <2>1, <2>2, <2>3, <2>4, <2>5 DEF IInv
<1>2. CASE [Next]_vars
  BY <1>2, StepIInv
<1>3. ASSUME ~AskPolicy, ~[Next]_vars PROVE FALSE
  BY <1>3 DEF StakeholderNext, RaiseUncorrelated, RefuseReader, FetchSnapshot, MetricsFail, RefuseSnapshot, Suppress,
              PolicyStep, PrepareMetric, LoadMethodology, MethodologyFails, AuthorizeAll,
              PolicyFails, Retrieve, RetrieverFails, Answer, ProviderFails
<1> QED BY <1>1, <1>2, <1>3

----------------------------------------------------------------------------
(* Where explain is: which ports have been called, that the snapshot may   *)
(* be shown beyond the screening, and that the engine approved it before   *)
(* methodology is touched.                                                 *)

Working == {"loading", "authorizing", "retrieving", "answering"}

Cleared ==
  /\ snapshot \in Snapshots /\ snapshot.key = query
  /\ snapshot.cohort >= MinimumCohortSize
  /\ ~snapshot.suppressed /\ snapshot.value # Null

MetricAsked == Len(envelopes) = 1 /\ envelopes[1].allowed = MetricFields

Approved == pc = "done" /\ code = "allowed" /\ MetricAsked

Journey ==
  /\ stage \in {"direct", "uncorrelated", "asked", "screening", "preparing", "done", "raised"}
               \cup Working
  /\ stage \in {"direct", "uncorrelated", "asked"} => consulted = {} /\ snapshot = NoSnapshot
  /\ stage \in {"uncorrelated", "asked", "screening", "raised"} => pc = "idle"
  /\ stage = "screening" => consulted = {"metrics"} /\ snapshot \in Snapshots
  /\ stage = "raised" => consulted \subseteq {"metrics"} /\ snapshot = NoSnapshot
  /\ stage = "preparing" => consulted = {"metrics"} /\ Cleared /\ MetricAsked
  /\ stage \in Working => Cleared /\ Approved /\ "provider" \notin consulted
  /\ consulted \ {"metrics"} # {} => Approved
  /\ stage \in {"screening", "preparing"} \cup Working =>
       principal.audience = "sst_stakeholder"

(* How it ended: of a metric that may be shown, or before any other port   *)
(* heard of it; and an answer was examined.                                *)
HiddenEnd ==
  /\ pc = "idle" /\ result.snapshot.value = Null /\ result.citations = {}
  /\ consulted \subseteq {"metrics"}
  /\ snapshot = NoSnapshot \/ consulted = {"metrics"}

Outcome ==
  /\ stage = "done" => Cleared \/ HiddenEnd
  /\ AnswersAreExact

SnapshotFacts ==
  /\ NoSnapshot.value = Null
  /\ \A s \in Snapshots :
       /\ s.key \in Queries /\ s.value \in Values \cup {Null} /\ s.cohort \in Nat
       /\ s.suppressed \in BOOLEAN /\ s.provenance \in BOOLEAN
       /\ Suppressed(s).value = Null

LEMMA SnapshotsAreValid == SnapshotFacts
<1>1. \A s \in Snapshots :
        s \in [key: Queries, value: Values \cup {Null}, cohort: Nat, suppressed: BOOLEAN,
               provenance: BOOLEAN, sensitive: STRING, personal: BOOLEAN]
  BY StakeholderAssumption DEF ValidSnapshot
<1>2. \A s \in Snapshots : Suppressed(s).value = Null
  BY <1>1 DEF Suppressed
<1> QED BY <1>1, <1>2 DEF SnapshotFacts, NoSnapshot

(* The lists of rules of explain. *)
LEMMA ReaderPasses == ReaderVerdict = "allowed" => principal.audience = "sst_stakeholder"
<1> DEFINE rules == <<
      <<principal.audience # "sst_stakeholder", "audience_mismatch">>,
      <<StakeholderEntitlement \notin principal.entitlements, "missing_entitlement">> >>
<1>1. DOMAIN rules = 1 .. 2 /\ \A k \in 1 .. 2 : rules[k][2] # "allowed"
  OBVIOUS
<1>2. FirstCode(rules) = "allowed" <=> \A k \in 1 .. 2 : ~rules[k][1]
  <2> HIDE DEF rules
  <2> QED BY <1>1, PassesIffNoRuleApplies
<1>3. rules[1][1] <=> principal.audience # "sst_stakeholder"
  OBVIOUS
<1>4. ReaderVerdict = FirstCode(rules)
  BY DEF ReaderVerdict
<1> HIDE DEF rules
<1> QED BY <1>2, <1>3, <1>4

LEMMA SnapshotPasses == SnapshotVerdict = "allowed" => snapshot.key = query
<1> DEFINE rules == <<
      <<snapshot.key # query, "snapshot_mismatch">>,
      <<~snapshot.provenance, "missing_provenance">> >>
<1>1. DOMAIN rules = 1 .. 2 /\ \A k \in 1 .. 2 : rules[k][2] # "allowed"
  OBVIOUS
<1>2. FirstCode(rules) = "allowed" <=> \A k \in 1 .. 2 : ~rules[k][1]
  <2> HIDE DEF rules
  <2> QED BY <1>1, PassesIffNoRuleApplies
<1>3. rules[1][1] <=> snapshot.key # query
  OBVIOUS
<1>4. SnapshotVerdict = FirstCode(rules)
  BY DEF SnapshotVerdict
<1> HIDE DEF rules
<1> QED BY <1>2, <1>3, <1>4

(* A snapshot that goes on to the engine may be shown. *)
LEMMA ClearedByScreening ==
  ASSUME snapshot \in Snapshots, SnapshotVerdict = "allowed", ~SmallCohort, ~SourceSuppressed
  PROVE  Cleared
BY SnapshotPasses, SnapshotsAreValid DEF SnapshotFacts, Cleared, SmallCohort, SourceSuppressed,
   MinimumCohortSize

LEMMA JourneyInit == StakeholderInit => Journey /\ Outcome
BY DEF StakeholderInit, Journey, Outcome, Working, AnswersAreExact

LEMMA JourneyStep == IInv /\ Journey /\ [StakeholderNext]_<<vars, explain>> => Journey'
<1> SUFFICES ASSUME IInv, Journey, [StakeholderNext]_<<vars, explain>> PROVE Journey'
  OBVIOUS
<1> USE DEF Journey, Working, Cleared, MetricAsked, Approved
<1>1. CASE RefuseReader
  BY <1>1 DEF RefuseReader, Refuse, Stop, vars
<1>18. CASE RaiseUncorrelated
  BY <1>18 DEF RaiseUncorrelated, vars
<1>2. CASE FetchSnapshot
  BY <1>2, ReaderPasses DEF FetchSnapshot, Calls, vars
<1>3. CASE MetricsFail
  BY <1>3 DEF MetricsFail, Calls, Refuse, Stop, vars
<1>4. CASE RefuseSnapshot
  BY <1>4 DEF RefuseSnapshot, Refuse, Stop, vars
<1>5. CASE Suppress
  BY <1>5 DEF Suppress, Stop, vars
<1>6. CASE AskPolicy
  <2>1. Cleared
    BY <1>6, ClearedByScreening DEF AskPolicy
  <2>2. envelopes' = <<MetricEnvelope>> /\ MetricEnvelope.allowed = MetricFields
    BY <1>6, MetricEnvelopeIsValid DEF AskPolicy, IInv
  <2>3. MetricAsked'
    BY <2>2
  <2> QED BY <1>6, <2>1, <2>3 DEF AskPolicy
<1>7. CASE PolicyStep
  <2>1. UNCHANGED <<principal, envelopes>>
    BY <1>7 DEF PolicyStep, Next, RefuseMessage, RefusePrincipal, Admit, Approve, RefuseEnvelope,
                Prepare, Deny, request
  <2> QED BY <1>7, <2>1 DEF PolicyStep, explain
<1>8. CASE PrepareMetric
  BY <1>8 DEF PrepareMetric, Refuse, Stop, vars
<1>9. CASE LoadMethodology
  BY <1>9 DEF LoadMethodology, Calls, vars
<1>10. CASE MethodologyFails
  BY <1>10 DEF MethodologyFails, Calls, Refuse, Stop, vars
<1>11. CASE AuthorizeAll
  BY <1>11 DEF AuthorizeAll, Refuse, Stop, vars
<1>12. CASE PolicyFails
  BY <1>12 DEF PolicyFails, Refuse, Stop, vars
<1>13. CASE Retrieve
  BY <1>13 DEF Retrieve, Calls, vars
<1>14. CASE RetrieverFails
  BY <1>14 DEF RetrieverFails, Calls, Refuse, Stop, vars
<1>15. CASE Answer
  BY <1>15 DEF Answer, Calls, Refuse, Stop, vars
<1>16. CASE ProviderFails
  BY <1>16 DEF ProviderFails, Calls, Refuse, Stop, vars
<1>17. CASE UNCHANGED <<vars, explain>>
  BY <1>17 DEF vars, explain
<1> QED BY <1>1, <1>2, <1>3, <1>4, <1>5, <1>6, <1>7, <1>8, <1>9, <1>10, <1>11, <1>12, <1>13,
           <1>14, <1>15, <1>16, <1>17, <1>18 DEF StakeholderNext

(* An answer that passes says what the snapshot says. *)
LEMMA DisclosurePasses ==
  ASSUME NEW a \in Answers, NEW s, DisclosureVerdict(a, s) = "allowed"
  PROVE  /\ a.text = {} /\ ~a.structured
         /\ \A c \in a.claims : c.key = s.key /\ c.value = s.value
<1> DEFINE rules == <<
      <<"credential" \in a.text, "credential_pattern_detected">>,
      <<"personal" \in a.text, "personal_identifier_detected">>,
      <<a.structured, "sensitive_structured_output">>,
      <<\E c \in a.claims : ~Backed(c, s), "unsupported_metric_claim">> >>
<1>1. DOMAIN rules = 1 .. 4 /\ \A k \in 1 .. 4 : rules[k][2] # "allowed"
  OBVIOUS
<1>2. FirstCode(rules) = "allowed" <=> \A k \in 1 .. 4 : ~rules[k][1]
  <2> HIDE DEF rules
  <2> QED BY <1>1, PassesIffNoRuleApplies
<1>3. /\ rules[1][1] <=> "credential" \in a.text
      /\ rules[2][1] <=> "personal" \in a.text
      /\ rules[3][1] <=> a.structured
      /\ rules[4][1] <=> \E c \in a.claims : ~Backed(c, s)
  OBVIOUS
<1>4. DisclosureVerdict(a, s) = FirstCode(rules)
  BY DEF DisclosureVerdict
<1> HIDE DEF rules
<1>5. /\ "credential" \notin a.text /\ "personal" \notin a.text /\ ~a.structured
      /\ \A c \in a.claims : Backed(c, s)
  BY <1>2, <1>3, <1>4
<1>6. a.text \in {{}, {"credential"}, {"personal"}}
  BY DEF Answers
<1> QED BY <1>5, <1>6 DEF Backed

LEMMA AnswerPasses ==
  ASSUME NEW a \in Answers, AnswerVerdict(a) = "allowed"
  PROVE  /\ ~a.numeric /\ a.text = {} /\ ~a.structured
         /\ a.claims = {[key |-> snapshot.key, value |-> snapshot.value]}
         /\ a.cites \subseteq RetrievedIds /\ a.cites # {}
<1> DEFINE d == DisclosureVerdict(a, snapshot)
           known == a.cites \subseteq RetrievedIds
           rules == <<
      <<a.numeric, "numeric_narrative_forbidden">>,
      <<d # "allowed", d>>,
      <<~known, "unknown_methodology_citation">> >>
<1>1. AnswerVerdict(a) = FirstCode(rules)
  BY DEF AnswerVerdict
<1>2. /\ DOMAIN rules = 1 .. 3
      /\ rules[1][1] <=> a.numeric
      /\ rules[2][1] <=> d # "allowed"
      /\ rules[3][1] <=> ~known
      /\ rules[1][2] # "allowed" /\ rules[2][2] = d /\ rules[3][2] # "allowed"
  <2> HIDE DEF d, known
  <2>1. DOMAIN rules = 1 .. 3
    OBVIOUS
  <2>2. rules[1][1] <=> a.numeric
    OBVIOUS
  <2>3. rules[2][1] <=> d # "allowed"
    OBVIOUS
  <2>4. rules[3][1] <=> ~known
    OBVIOUS
  <2>5. rules[1][2] # "allowed" /\ rules[3][2] # "allowed"
    OBVIOUS
  <2>6. rules[2][2] = d
    OBVIOUS
  <2> QED BY <2>1, <2>2, <2>3, <2>4, <2>5, <2>6
<1> HIDE DEF rules
<1>3. \A k \in 1 .. 3 : rules[k][1] => rules[k][2] # "allowed"
  <2> HIDE DEF d, known
  <2>1. \A k \in 1 .. 3 : k = 1 \/ k = 2 \/ k = 3
    OBVIOUS
  <2> QED BY <1>2, <2>1, Zenon
<1>4. \A k \in 1 .. 3 : ~rules[k][1]
  <2>1. FirstCode(rules) = "allowed" <=> \A k \in 1 .. 3 : ~rules[k][1]
    BY <1>2, <1>3, PassesIffNoRuleApplies
  <2> QED BY <1>1, <2>1
<1>5. ~rules[1][1] /\ ~rules[2][1] /\ ~rules[3][1]
  BY <1>4
<1>6. ~a.numeric /\ d = "allowed" /\ known
  <2> HIDE DEF d, known
  <2> QED BY <1>2, <1>5
<1>7. a.claims \in (SUBSET [key : Queries, value : Values]) \ {{}} /\ a.cites # {}
  BY DEF Answers, Claims
<1>8. \A c \in a.claims : c = [key |-> snapshot.key, value |-> snapshot.value]
  BY <1>6, <1>7, DisclosurePasses
<1>9. a.claims = {[key |-> snapshot.key, value |-> snapshot.value]}
  BY <1>7, <1>8
<1> QED BY <1>6, <1>7, <1>9, DisclosurePasses

LEMMA OutcomeStep ==
  IInv /\ Journey /\ Outcome /\ [StakeholderNext]_<<vars, explain>> => Outcome'
<1> SUFFICES ASSUME IInv, Journey, Outcome, [StakeholderNext]_<<vars, explain>> PROVE Outcome'
  OBVIOUS
<1> USE DEF Outcome, HiddenEnd, AnswersAreExact, Journey, Working, Stop, Refuse, Calls
<1>1. CASE RefuseReader
  BY <1>1, SnapshotsAreValid DEF RefuseReader, SnapshotFacts, vars
<1>18. CASE RaiseUncorrelated
  BY <1>18 DEF RaiseUncorrelated
<1>2. CASE FetchSnapshot
  BY <1>2 DEF FetchSnapshot
<1>3. CASE MetricsFail
  BY <1>3, SnapshotsAreValid DEF MetricsFail, SnapshotFacts, vars
<1>4. CASE RefuseSnapshot
  BY <1>4, SnapshotsAreValid DEF RefuseSnapshot, SnapshotFacts, vars
<1>5. CASE Suppress
  BY <1>5, SnapshotsAreValid DEF Suppress, SnapshotFacts, vars
<1>6. CASE AskPolicy
  BY <1>6 DEF AskPolicy
<1>7. CASE PolicyStep
  BY <1>7 DEF PolicyStep, explain
<1>8. CASE PrepareMetric
  BY <1>8 DEF PrepareMetric, Cleared
<1>9. CASE LoadMethodology
  BY <1>9 DEF LoadMethodology
<1>10. CASE MethodologyFails
  BY <1>10 DEF MethodologyFails, Cleared
<1>11. CASE AuthorizeAll
  BY <1>11 DEF AuthorizeAll, Cleared
<1>12. CASE PolicyFails
  BY <1>12 DEF PolicyFails, Cleared
<1>13. CASE Retrieve
  BY <1>13 DEF Retrieve
<1>14. CASE RetrieverFails
  BY <1>14 DEF RetrieverFails, Cleared
<1>15. CASE Answer
  <2>1. answer' \in Answers /\ stage' = "done" /\ "provider" \in consulted' /\ Cleared
        /\ UNCHANGED <<query, snapshot>> /\ result'.providerCalled
    BY <1>15 DEF Answer
  <2>2. Cleared'
    BY <2>1 DEF Cleared
  <2>3. ASSUME result'.citations # {}
        PROVE  result'.accepted /\ AnswerVerdict(answer') = "allowed"
    BY <1>15, <2>3 DEF Answer
  <2>4. ASSUME AnswerVerdict(answer') = "allowed"
        PROVE  /\ ~answer'.numeric /\ answer'.text = {} /\ ~answer'.structured
               /\ answer'.claims = {[key |-> snapshot.key, value |-> snapshot.value]}
    BY <2>1, <2>4, AnswerPasses
  <2>5. snapshot.key = query /\ snapshot.cohort >= 10
    BY <2>1 DEF Cleared, MinimumCohortSize
  <2>6. AnswersAreExact'
    BY <2>1, <2>3, <2>4, <2>5
  <2> QED BY <2>2, <2>6
<1>16. CASE ProviderFails
  BY <1>16 DEF ProviderFails, Cleared
<1>17. CASE UNCHANGED <<vars, explain>>
  BY <1>17 DEF vars, explain, Cleared
<1> QED BY <1>1, <1>2, <1>3, <1>4, <1>5, <1>6, <1>7, <1>8, <1>9, <1>10, <1>11, <1>12, <1>13,
           <1>14, <1>15, <1>16, <1>17, <1>18 DEF StakeholderNext

PipelineInv == IInv /\ Journey /\ Outcome

LEMMA PipelineInvariance == StakeholderSpec => []PipelineInv
<1>1. StakeholderInit => PipelineInv
  BY EngineInit, JourneyInit DEF PipelineInv
<1>2. PipelineInv /\ [StakeholderNext]_<<vars, explain>> => PipelineInv'
  <2>1. Journey => (stage \in {"asked", "screening"} => pc = "idle")
    BY DEF Journey
  <2> QED BY <2>1, EngineStep, JourneyStep, OutcomeStep DEF PipelineInv
<1> QED BY <1>1, <1>2, PTL DEF StakeholderSpec

(* A small cohort's value is shown to nobody, and no port but the metrics  *)
(* port hears of the question before the engine approved the metric.       *)
THEOREM SuppressionPrecedes == StakeholderSpec => []HiddenValuesStayHidden
<1>1. PipelineInv => HiddenValuesStayHidden
  <2> SUFFICES ASSUME PipelineInv PROVE HiddenValuesStayHidden
    OBVIOUS
  <2>1. ASSUME snapshot # NoSnapshot, snapshot.cohort < 10 \/ snapshot.suppressed
        PROVE  /\ consulted = {"metrics"} /\ input = <<>>
               /\ stage = "done" => result.snapshot.value = Null
    <3>1. ~Cleared
      BY <2>1, SnapshotsAreValid DEF Cleared, SnapshotFacts, MinimumCohortSize
    <3>2. stage = "screening" \/ (stage = "done" /\ HiddenEnd)
      BY <2>1, <3>1 DEF PipelineInv, Journey, Outcome, Working
    <3> QED BY <2>1, <3>2 DEF PipelineInv, Journey, HiddenEnd, IInv
  <2>2. ASSUME consulted \ {"metrics"} # {}
        PROVE  /\ code = "allowed" /\ Len(input) = 1
               /\ {"source", "provenance"} \cap input[1].data = {}
    <3>1. Approved
      BY <2>2 DEF PipelineInv, Journey
    <3>2. code = "allowed" /\ input = [k \in 1 .. 1 |-> Minimized(envelopes[k])]
      BY <3>1 DEF PipelineInv, IInv, Approved, MetricAsked
    <3>3. Len(input) = 1 /\ input[1].data = MetricFields
      BY <3>1, <3>2 DEF Minimized, Approved, MetricAsked
    <3> QED BY <3>2, <3>3 DEF MetricFields
  <2> QED BY <2>1, <2>2 DEF HiddenValuesStayHidden
<1> QED BY <1>1, PipelineInvariance, PTL

(* An answer says what the snapshot says, of what was asked for.           *)
THEOREM AnswersSayWhatTheSnapshotSays == StakeholderSpec => []AnswersAreExact
<1>1. PipelineInv => AnswersAreExact
  BY DEF PipelineInv, Outcome
<1> QED BY <1>1, PipelineInvariance, PTL

(* InputIsAllOrNothing holds when the pipeline is the engine's caller.      *)
THEOREM PipelineRequestsAreWhole == StakeholderSpec => []InputIsAllOrNothing
<1>1. PipelineInv => InputIsAllOrNothing
  BY WholeRequests DEF PipelineInv
<1> QED BY <1>1, PipelineInvariance, PTL

(* EntitledRequestsPass likewise: explain refuses nobody who is entitled to *)
(* the metric on the engine's word.                                        *)
THEOREM PipelineRefusesNobodyEntitled == StakeholderSpec => []EntitledRequestsPass
<1>1. PipelineInv => EntitledRequestsPass
  BY EntitledPass DEF PipelineInv
<1> QED BY <1>1, PipelineInvariance, PTL

----------------------------------------------------------------------------
(* The pipeline implements Grounding.  What it authorized is methodology   *)
(* its reader is entitled to, and what it retrieved is some of that.       *)

LEMMA LastExists ==
  ASSUME NEW n \in Nat, NEW S \in SUBSET (1 .. n), S # {}
  PROVE  \E m \in S : \A j \in S : j <= m
<1> DEFINE T == {n + 1 - k : k \in S}
<1>1. T \subseteq 1 .. n /\ T # {}
  <2>1. \A k \in S : n + 1 - k \in 1 .. n
    OBVIOUS
  <2>2. T \subseteq 1 .. n
    BY <2>1
  <2>3. PICK k \in S : TRUE
    OBVIOUS
  <2>4. n + 1 - k \in T
    OBVIOUS
  <2> QED BY <2>2, <2>4
<1>2. PICK t \in T : \A j \in 1 .. t - 1 : j \notin T
  <2> HIDE DEF T
  <2> QED BY <1>1, FirstExists
<1>3. PICK m \in S : t = n + 1 - m
  OBVIOUS
<1>4. ASSUME NEW j \in S, ~(j <= m) PROVE FALSE
  <2>1. n + 1 - j \in T /\ n + 1 - j \in 1 .. t - 1
    BY <1>3, <1>4
  <2> QED BY <1>2, <2>1
<1> QED BY <1>4

(* A citation resolves to something the provider was given. *)
LEMMA CitationResolves ==
  ASSUME NEW n \in Nat, DOMAIN retrieved = 1 .. n, NEW id \in RetrievedIds
  PROVE  ById(id) \in Context
<1> DEFINE cited(k) == candidates[retrieved[k]].id = id
           S == {k \in 1 .. n : cited(k)}
           Last(k) == cited(k) /\ \A j \in DOMAIN retrieved : cited(j) => j <= k
           last == CHOOSE k \in DOMAIN retrieved : Last(k)
<1>1. S \in SUBSET (1 .. n) /\ S # {}
  BY DEF RetrievedIds, Context, Range
<1>2. PICK m \in S : \A j \in S : j <= m
  <2> HIDE DEF S
  <2> QED BY <1>1, LastExists
<1>3. \E k \in DOMAIN retrieved : Last(k)
  BY <1>2
<1>4. last \in DOMAIN retrieved
  <2> HIDE DEF Last
  <2> QED BY <1>3
<1>5. ById(id) = candidates[retrieved[last]]
  BY DEF ById
<1> HIDE DEF last
<1> QED BY <1>4, <1>5 DEF Context, Range

LEMMA RankingTakesSome ==
  ASSUME NEW n \in Nat, NEW S \in SUBSET (1 .. n), S # {}, NEW list,
         NEW s \in Rankings(list, S, MethodologyLimit)
  PROVE  /\ \E k \in Nat : DOMAIN s = 1 .. k
         /\ Range(s) # {} /\ Range(s) \subseteq S
<1> DEFINE k == AtMost(MethodologyLimit, Cardinality(S))
<1>1. IsFiniteSet(S)
  <2>1. IsFiniteSet(1 .. n)
    BY FS_Interval
  <2> QED BY <2>1, FS_Subset
<1>2. Cardinality(S) \in Nat \ {0}
  BY <1>1, FS_CardinalityType, FS_EmptySet
<1>3. k \in Nat \ {0}
  BY <1>2, StakeholderAssumption DEF AtMost
<1>4. s \in [1 .. k -> S]
  BY DEF Rankings
<1> HIDE DEF k
<1>5. 1 \in DOMAIN s /\ \A i \in DOMAIN s : s[i] \in S
  BY <1>3, <1>4
<1> QED BY <1>3, <1>4, <1>5 DEF Range

LEMMA AuthorizedIsEntitled ==
  ASSUME principal \in Principals, principal.audience = "sst_stakeholder",
         NEW r \in Methodology, AuthorizeMethodology(r)
  PROVE  r \in EntitledMethodology
<1>1. principal.asserted /\ principal.current
  BY PrincipalPasses DEF AuthorizeMethodology
<1>2. MethodologyEnvelope(r).scope \in Scope
  BY MetricEnvelopeIsValid DEF MethodologyEnvelope, MetricEnvelope, ValidEnvelope
<1>3. /\ Entitled(principal, MethodologyEnvelope(r))
      /\ MethodologyEnvelope(r).sensitive = Missing
  BY <1>2, EnvelopePasses DEF AuthorizeMethodology, Audiences
<1>4. /\ r.sensitive = Missing /\ ~r.personal /\ r.entitlements \subseteq principal.entitlements
  BY <1>3 DEF Entitled, MethodologyEnvelope
<1> QED BY <1>1, <1>4 DEF EntitledMethodology, AuthorizeMethodology

(* The list that was read, and what of it has passed so far. *)
Grounded ==
  /\ stage = "authorizing" =>
       /\ \E n \in Nat : DOMAIN candidates = 1 .. n
       /\ \A i \in DOMAIN candidates : candidates[i] \in Methodology
  /\ stage = "retrieving" =>
       /\ \E n \in Nat : authorized \in SUBSET (1 .. n)
       /\ authorized # {}
       /\ \A i \in authorized : candidates[i] \in EntitledMethodology
  /\ stage = "answering" =>
       /\ \E n \in Nat : DOMAIN retrieved = 1 .. n
       /\ Context # {} /\ Context \subseteq EntitledMethodology

LEMMA EntitledStays == [StakeholderNext]_<<vars, explain>> => EntitledMethodology' = EntitledMethodology
<1> SUFFICES ASSUME [StakeholderNext]_<<vars, explain>> PROVE UNCHANGED <<principal, query>>
  BY DEF EntitledMethodology
<1>1. CASE PolicyStep
  BY <1>1 DEF PolicyStep, Next, RefuseMessage, RefusePrincipal, Admit, Approve, RefuseEnvelope,
              Prepare, Deny, request, explain
<1>2. CASE ~PolicyStep
  BY <1>2 DEF StakeholderNext, RaiseUncorrelated, RefuseReader, FetchSnapshot, MetricsFail, RefuseSnapshot, Suppress,
              AskPolicy, PrepareMetric, LoadMethodology, MethodologyFails, AuthorizeAll,
              PolicyFails, Retrieve, RetrieverFails, Answer, ProviderFails, vars, explain
<1> QED BY <1>1, <1>2

LEMMA GroundedStep ==
  IInv /\ Journey /\ Grounded /\ [StakeholderNext]_<<vars, explain>> => Grounded'
<1> SUFFICES ASSUME IInv, Journey, Grounded, [StakeholderNext]_<<vars, explain>> PROVE Grounded'
  OBVIOUS
<1>e. EntitledMethodology' = EntitledMethodology
  BY EntitledStays
<1>1. CASE LoadMethodology
  <2>1. candidates' \in Seq(Methodology) /\ stage' = "authorizing"
    BY <1>1, StakeholderAssumption DEF LoadMethodology
  <2>2. /\ Len(candidates') \in Nat /\ DOMAIN candidates' = 1 .. Len(candidates')
        /\ \A i \in DOMAIN candidates' : candidates'[i] \in Methodology
    BY <2>1
  <2> QED BY <2>1, <2>2 DEF Grounded
<1>2. CASE AuthorizeAll
  <2>1. \A i \in DOMAIN candidates :
          AuthorizeMethodology(candidates[i]) => candidates[i] \in EntitledMethodology
    BY <1>2, AuthorizedIsEntitled DEF AuthorizeAll, Grounded, IInv, Journey, Working
  <2>2. \A i \in authorized' : candidates[i] \in EntitledMethodology
    BY <1>2, <2>1 DEF AuthorizeAll
  <2>3. \E n \in Nat : authorized' \in SUBSET (1 .. n)
    BY <1>2 DEF AuthorizeAll, Grounded
  <2> QED BY <1>2, <1>e, <2>2, <2>3 DEF AuthorizeAll, Grounded, Refuse, Stop
<1>3. CASE Retrieve
  <2>1. /\ authorized # {}
        /\ \A i \in authorized : candidates[i] \in EntitledMethodology
    BY <1>3 DEF Retrieve, Grounded
  <2>2. PICK n \in Nat : authorized \in SUBSET (1 .. n)
    BY <1>3 DEF Retrieve, Grounded
  <2>3. /\ retrieved' \in Rankings(candidates, authorized, MethodologyLimit)
        /\ stage' = "answering" /\ UNCHANGED candidates
    BY <1>3 DEF Retrieve
  <2>4. /\ \E k \in Nat : DOMAIN retrieved' = 1 .. k
        /\ Range(retrieved') # {} /\ Range(retrieved') \subseteq authorized
    BY <2>1, <2>2, <2>3, RankingTakesSome
  <2>5. Context' # {} /\ Context' \subseteq EntitledMethodology
    BY <2>1, <2>3, <2>4 DEF Context
  <2> QED BY <1>e, <2>3, <2>4, <2>5 DEF Grounded
<1>4. CASE UNCHANGED <<vars, explain>>
  BY <1>4, <1>e DEF explain, Grounded, Context
<1>5. CASE PolicyStep
  BY <1>5, <1>e DEF PolicyStep, explain, Grounded, Context
<1>6. CASE ~LoadMethodology /\ ~AuthorizeAll /\ ~Retrieve /\ ~PolicyStep /\ StakeholderNext
  <2>1. stage' \notin {"authorizing", "retrieving", "answering"}
    BY <1>6 DEF StakeholderNext, RaiseUncorrelated, RefuseReader, FetchSnapshot, MetricsFail, RefuseSnapshot,
                Suppress, AskPolicy, PrepareMetric, MethodologyFails, PolicyFails, RetrieverFails,
                Answer, ProviderFails, Refuse, Stop
  <2> QED BY <2>1 DEF Grounded
<1> QED BY <1>1, <1>2, <1>3, <1>4, <1>5, <1>6

LEMMA GroundingInit == StakeholderInit => Abstract!Init
<1> SUFFICES ASSUME StakeholderInit PROVE Abstract!Init
  OBVIOUS
<1>1. stage \in {"direct", "asked", "uncorrelated"} /\ consulted = {}
  BY DEF StakeholderInit
<1>2. Phase = "asked"
  BY <1>1 DEF Phase
<1>3. EntitledMethodology \in SUBSET Methodology
  BY DEF EntitledMethodology
<1> QED BY <1>1, <1>2, <1>3 DEF Abstract!Init

(* What the mapping shows of a state, by its stage. *)
Provided == IF stage = "answering" \/ "provider" \in consulted THEN Context ELSE {}
Cited == IF stage = "done" THEN result.citations ELSE {}

Refused == stage = "raised" \/ (stage = "done" /\ result.citations = {})

LEMMA GroundingStep ==
  IInv /\ Journey /\ Grounded /\ [StakeholderNext]_<<vars, explain>> => [Abstract!Next]_Abstract!vars
<1> SUFFICES ASSUME IInv, Journey, Grounded, [StakeholderNext]_<<vars, explain>>
             PROVE  [Abstract!Next]_Abstract!vars
  OBVIOUS
<1> DEFINE same == EntitledMethodology' = EntitledMethodology
           Steps == \/ UNCHANGED <<Phase, EntitledMethodology, Provided, Cited>>
                    \/ /\ Phase = "asked" /\ Phase' = "consulting"
                       /\ Provided' \in (SUBSET EntitledMethodology) \ {{}}
                       /\ UNCHANGED <<EntitledMethodology, Cited>>
                    \/ /\ Phase = "consulting" /\ Phase' = "answered"
                       /\ Cited' \in (SUBSET Provided) \ {{}}
                       /\ UNCHANGED <<EntitledMethodology, Provided>>
                    \/ /\ Phase \in {"asked", "consulting"} /\ Phase' = "refused"
                       /\ UNCHANGED <<EntitledMethodology, Provided, Cited>>
<1>e. same
  BY EntitledStays
<1>s. SUFFICES Steps
  BY DEF Abstract!Next, Abstract!Consult, Abstract!Complete, Abstract!Refuse, Abstract!vars,
         Provided, Cited
<1>b. ASSUME stage \notin {"answering", "done", "raised"}
      PROVE  Phase = "asked" /\ Provided = {} /\ Cited = {}
  BY <1>b DEF Phase, Provided, Cited, Journey, Working
<1>c. ASSUME stage = "answering"
      PROVE  Phase = "consulting" /\ Provided = Context /\ Cited = {}
  BY <1>c DEF Phase, Provided, Cited
(* Before the provider is called, explain goes on or ends in a refusal. *)
<1>1. ASSUME stage \notin {"answering", "done", "raised"}, "provider" \notin consulted',
             stage' \notin {"answering", "done", "raised"}
      PROVE  Steps
  <2>1. Phase' = "asked" /\ Provided' = {} /\ Cited' = {}
    BY <1>1 DEF Phase, Provided, Cited
  <2> QED BY <1>1, <1>b, <1>e, <2>1
<1>2. ASSUME stage \notin {"answering", "done", "raised"}, "provider" \notin consulted', Refused'
      PROVE  Steps
  <2>1. Phase' = "refused" /\ Provided' = {} /\ Cited' = {}
    BY <1>2 DEF Phase, Provided, Cited, Refused
  <2> QED BY <1>2, <1>b, <1>e, <2>1
<1>3. CASE Retrieve
  <2>1. stage = "retrieving" /\ stage' = "answering"
    BY <1>3 DEF Retrieve
  <2>2. Grounded'
    BY GroundedStep
  <2>3. Phase' = "consulting" /\ Provided' = Context' /\ Cited' = {}
    BY <2>1 DEF Phase, Provided, Cited
  <2>4. Provided' # {} /\ Provided' \subseteq EntitledMethodology
    BY <1>e, <2>1, <2>2, <2>3 DEF Grounded
  <2> QED BY <1>b, <1>e, <2>1, <2>3, <2>4
<1>4. ASSUME stage = "answering", stage' = "done", "provider" \in consulted',
             UNCHANGED <<candidates, retrieved>>, result'.citations = {}
      PROVE  Steps
  <2>1. Phase' = "refused" /\ Provided' = Context /\ Cited' = {}
    BY <1>4 DEF Phase, Provided, Cited, Context
  <2> QED BY <1>4, <1>c, <1>e, <2>1
<1>5. CASE Answer
  <2>1. /\ stage = "answering" /\ stage' = "done" /\ "provider" \in consulted'
        /\ UNCHANGED <<candidates, retrieved>> /\ answer' \in Answers
    BY <1>5 DEF Answer, Calls, Stop, Refuse
  <2>2. CASE AnswerVerdict(answer') # "allowed"
    <3>1. result'.citations = {}
      BY <1>5, <2>2 DEF Answer, Refuse, Stop
    <3> QED BY <1>4, <2>1, <3>1
  <2>3. CASE AnswerVerdict(answer') = "allowed"
    <3>1. result'.citations = {ById(id) : id \in answer'.cites}
      BY <1>5, <2>3 DEF Answer, Refuse, Stop
    <3>2. answer'.cites # {} /\ answer'.cites \subseteq RetrievedIds
      BY <2>1, <2>3, AnswerPasses
    <3>3. PICK n \in Nat : DOMAIN retrieved = 1 .. n
      BY <2>1 DEF Grounded
    <3>4. \A id \in answer'.cites : ById(id) \in Context
      BY <3>2, <3>3, CitationResolves
    <3>5. result'.citations # {} /\ result'.citations \subseteq Context
      BY <3>1, <3>2, <3>4
    <3>6. /\ Phase' = "answered" /\ Provided' = Context
          /\ Cited' = result'.citations
      BY <2>1, <3>5 DEF Phase, Provided, Cited, Context
    <3> QED BY <1>c, <1>e, <2>1, <3>5, <3>6
  <2> QED BY <2>2, <2>3
<1>6. CASE ProviderFails
  BY <1>4, <1>6 DEF ProviderFails, Calls, Refuse, Stop
<1>7. CASE UNCHANGED <<vars, explain>>
  BY <1>7, <1>e DEF explain, Phase, Provided, Cited, Context
<1>8. CASE PolicyStep
  BY <1>8, <1>e DEF PolicyStep, explain, Phase, Provided, Cited, Context
<1>9. CASE \/ RaiseUncorrelated \/ RefuseReader \/ MetricsFail \/ RefuseSnapshot \/ Suppress
           \/ MethodologyFails \/ PolicyFails \/ RetrieverFails
  BY <1>9, <1>2 DEF RaiseUncorrelated, RefuseReader, MetricsFail, RefuseSnapshot, Suppress,
     MethodologyFails, PolicyFails, RetrieverFails, Calls, Refuse, Stop, Refused, Journey, Working
<1>10. CASE FetchSnapshot \/ AskPolicy \/ LoadMethodology
  BY <1>10, <1>1 DEF FetchSnapshot, AskPolicy, LoadMethodology, Calls, Journey, Working
<1>11. CASE PrepareMetric \/ AuthorizeAll
  BY <1>11, <1>1, <1>2 DEF PrepareMetric, AuthorizeAll, Refuse, Stop, Refused, Journey, Working
<1> QED BY <1>3, <1>5, <1>6, <1>7, <1>8, <1>9, <1>10, <1>11 DEF StakeholderNext

(* Whatever the metrics port, the methodology source and the provider      *)
(* return, the pipeline behaves as Grounding promises.                     *)
THEOREM PipelineGroundsItsAnswers == StakeholderSpec => ImplementsGrounding
<1>1. StakeholderInit => Grounded
  BY DEF StakeholderInit, Grounded
<1>2. PipelineInv /\ Grounded /\ [StakeholderNext]_<<vars, explain>> => Grounded'
  BY GroundedStep DEF PipelineInv
<1>3. StakeholderSpec => []Grounded
  BY <1>1, <1>2, PipelineInvariance, PTL DEF StakeholderSpec
<1>4. PipelineInv /\ Grounded /\ [StakeholderNext]_<<vars, explain>> => [Abstract!Next]_Abstract!vars
  BY GroundingStep DEF PipelineInv
<1> QED BY <1>3, <1>4, GroundingInit, PipelineInvariance, PTL
        DEF StakeholderSpec, ImplementsGrounding, Abstract!Spec
=============================================================================
