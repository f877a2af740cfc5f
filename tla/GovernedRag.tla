----------------------------- MODULE GovernedRag -----------------------------
(***************************************************************************)
(* GovernedRagRuntime.answer (governed_rag/runtime.py) for one question:   *)
(* candidates from the source port, GovernedRetrievalPolicy, ranking by    *)
(* LexicalRetriever, the context budget, the provider port and the         *)
(* validation of what it answers.  Every port may raise, the source may    *)
(* return anything, repetitions included, and the provider may answer      *)
(* anything the contract can express.  The retriever is the repository's   *)
(* own: the runtime does not check what another one would return.          *)
(***************************************************************************)
EXTENDS Ranking

CONSTANTS
  Records,        \* GovernedMemoryRecord values
  Scopes,         \* RetrievalScope values
  Ids,            \* record ids; their order is that of the strings
  Lists,          \* the lists of records a source may return
  RetrievalLimit, MinimumScore, MaxContext,  \* parameters of the runtime
  MaxClaims       \* bound on the claims of an answer

Classifications == {"public", "internal", "private", "derived_safe", "restricted", "secret"}
Prohibited == {"restricted", "secret"}

(* GovernedMemoryRecord: "owner" is the triple of tenant, user and         *)
(* application, "score" counts the words shared with the question and      *)
(* "size" the characters.  Records that differ may have one id.            *)
ValidRecord(r) ==
  /\ r.id \in Ids /\ r.size \in Nat /\ r.score \in Nat
  /\ r.classification \in Classifications
  /\ {r.active, r.indexable, r.credential} \subseteq BOOLEAN

(* RetrievalScope: nothing restricted or secret can be asked for.          *)
ValidScope(s) == s.current \in BOOLEAN /\ s.classifications \cap Prohibited = {}

ASSUME RecordsAssumption ==
  /\ Ids \subseteq Int
  /\ \A r \in Records : ValidRecord(r)
  /\ Lists \subseteq Seq(Records)

(* The checks of __init__, and scopes that were accepted. *)
ASSUME ParametersAssumption ==
  /\ RetrievalLimit \in Nat \ {0}
  /\ MinimumScore \in Nat \ {0}
  /\ MaxContext \in Nat \ {0}
  /\ MaxClaims \in Nat \ {0}
  /\ \A s \in Scopes : ValidScope(s)

VARIABLES
  question,    \* "uncorrelated" (no correlation id), "empty", "credential" or "clean"
  scope,       \* the scope the question is asked with
  pc,          \* the stage of answer
  candidates,  \* the list the source returned
  authorized,  \* places in it that the policy let through
  ranked,      \* the places the retriever returned, in its order
  position,    \* loop index of _within_budget
  bounded,     \* places selected within the budget
  consumed,    \* characters they take
  claims,      \* the claims of the provider's answer
  result       \* the RagResult

vars == <<question, scope, pc, candidates, authorized, ranked, position, bounded,
          consumed, claims, result>>

inputs == <<question, scope>>
budget == <<position, bounded, consumed>>

Questions == {"uncorrelated", "empty", "credential", "clean"}

NoResult == [status |-> "none"]

Init ==
  /\ question \in Questions
  /\ scope \in Scopes
  /\ pc = "asked"
  /\ candidates = <<>>
  /\ authorized = {}
  /\ ranked = <<>>
  /\ position = 1
  /\ bounded = <<>>
  /\ consumed = 0
  /\ claims = <<>>
  /\ result = NoResult

----------------------------------------------------------------------------
(* _result: the trace counts what the stages so far have let through. *)
Result(status, code, cites, nCandidates, nAuthorized, nRetrieved) ==
  /\ pc' = "done"
  /\ result' = [status |-> status, code |-> code, citations |-> cites,
                candidates |-> nCandidates, authorized |-> nAuthorized,
                retrieved |-> nRetrieved]

Stop(status, code, nCandidates, nAuthorized, nRetrieved) ==
  Result(status, code, {}, nCandidates, nAuthorized, nRetrieved)

(* The checks that precede every port.  Without a correlation id answer    *)
(* raises.                                                                 *)
Ask ==
  /\ pc = "asked"
  /\ \/ question = "uncorrelated" /\ pc' = "raised" /\ UNCHANGED result
     \/ question = "empty" /\ Stop("denied", "empty_question", 0, 0, 0)
     \/ question \in {"credential", "clean"} /\ ~scope.current
          /\ Stop("denied", "policy_version_mismatch", 0, 0, 0)
     \/ question = "credential" /\ scope.current
          /\ Stop("denied", "sensitive_question_detected", 0, 0, 0)
     \/ question = "clean" /\ scope.current /\ pc' = "loading" /\ UNCHANGED result
  /\ UNCHANGED <<inputs, candidates, authorized, ranked, budget, claims>>

Load ==
  /\ pc = "loading"
  /\ pc' = "authorizing"
  /\ candidates' \in Lists
  /\ UNCHANGED <<inputs, authorized, ranked, budget, claims, result>>

SourceFails ==
  /\ pc = "loading"
  /\ Stop("error", "source_error", 0, 0, 0)
  /\ UNCHANGED <<inputs, candidates, authorized, ranked, budget, claims>>

(* Bug: the entitlements a record requires are not looked at. *)
BugAuthorize(r) ==
  /\ r.active /\ r.indexable
  /\ r.owner = scope.owner
  /\ r.source \in scope.sources
  /\ r.classification \in scope.classifications \ Prohibited
  /\ ~r.credential

(* GovernedRetrievalPolicy.authorize *)
Authorize(r) ==
  /\ r.active /\ r.indexable
  /\ r.owner = scope.owner
  /\ r.source \in scope.sources
  /\ r.classification \in scope.classifications \ Prohibited
  /\ r.entitlements \subseteq scope.entitlements
  /\ ~r.credential

AuthorizeAll ==
  /\ pc = "authorizing"
  /\ authorized' = {i \in DOMAIN candidates : Authorize(candidates[i])}
  /\ \/ /\ authorized' = {}
        /\ Stop("insufficient_context", "no_authorized_context", Len(candidates), 0, 0)
     \/ authorized' # {} /\ pc' = "retrieving" /\ UNCHANGED result
  /\ UNCHANGED <<inputs, candidates, ranked, budget, claims>>

(* A candidate is no GovernedMemoryRecord. *)
PolicyFails ==
  /\ pc = "authorizing"
  /\ candidates # <<>>
  /\ Stop("error", "policy_error", Len(candidates), 0, 0)
  /\ UNCHANGED <<inputs, candidates, authorized, ranked, budget, claims>>

Relevant(places) == {i \in places : candidates[i].score >= MinimumScore}

Retrieve ==
  /\ pc = "retrieving"
  /\ pc' = "bounding"
  /\ ranked' \in Rankings(candidates, Relevant(authorized), RetrievalLimit)
  /\ UNCHANGED <<inputs, candidates, authorized, budget, claims, result>>

RetrieverFails ==
  /\ pc = "retrieving"
  /\ Stop("error", "retriever_error", Len(candidates), Cardinality(authorized), 0)
  /\ UNCHANGED <<inputs, candidates, authorized, ranked, budget, claims>>

(* Bug: the loop stops at the first record that does not fit. *)
BugSkip ==
  /\ pc = "bounding" /\ position <= Len(ranked)
  /\ consumed + candidates[ranked[position]].size > MaxContext
  /\ position' = Len(ranked) + 1
  /\ UNCHANGED <<inputs, pc, candidates, authorized, ranked, bounded, consumed, claims, result>>

(* The loop of _within_budget: a record that fits, and one that does not.  *)
Select ==
  /\ pc = "bounding" /\ position <= Len(ranked)
  /\ consumed + candidates[ranked[position]].size <= MaxContext
  /\ bounded' = Append(bounded, ranked[position])
  /\ consumed' = consumed + candidates[ranked[position]].size
  /\ position' = position + 1
  /\ UNCHANGED <<inputs, pc, candidates, authorized, ranked, claims, result>>

Skip ==
  /\ pc = "bounding" /\ position <= Len(ranked)
  /\ consumed + candidates[ranked[position]].size > MaxContext
  /\ position' = position + 1
  /\ UNCHANGED <<inputs, pc, candidates, authorized, ranked, bounded, consumed, claims, result>>

Consult ==
  /\ pc = "bounding" /\ position > Len(ranked)
  /\ \/ bounded # <<>> /\ pc' = "consulting" /\ UNCHANGED result
     \/ bounded = <<>>
          /\ Stop("insufficient_context", "insufficient_context",
                  Len(candidates), Cardinality(authorized), 0)
  /\ UNCHANGED <<inputs, candidates, authorized, ranked, budget, claims>>

----------------------------------------------------------------------------
(* The provider.  A GroundedAnswer has a claim and a GroundedClaim a       *)
(* citation; anything else raises when it is validated.                    *)

Claims == [credential : BOOLEAN, cites : (SUBSET Ids) \ {{}}]

Answers == UNION {[1 .. n -> Claims] : n \in 1 .. MaxClaims}

(* The records the provider is handed. *)
Context == {candidates[i] : i \in Range(bounded)}

AllowedIds == {r.id : r \in Context}

ClaimError(claim) ==
  IF claim.credential THEN "sensitive_provider_output"
  ELSE IF claim.cites = {} THEN "uncited_claim"
  ELSE IF ~(claim.cites \subseteq AllowedIds) THEN "unknown_citation"
  ELSE "none"

(* The errors _validate_answer can return: the first claim with one wins.  *)
Errors(answer) ==
  {ClaimError(answer[k]) : k \in {j \in DOMAIN answer :
     /\ ClaimError(answer[j]) # "none"
     /\ \A i \in 1 .. j - 1 : ClaimError(answer[i]) = "none"}}

(* by_id: of records with one id the last one selected is cited. *)
ById(id) ==
  LET cited(k) == candidates[bounded[k]].id = id
      last == CHOOSE k \in DOMAIN bounded : cited(k) /\ \A j \in DOMAIN bounded : cited(j) => j <= k
  IN  candidates[bounded[last]]

(* Bug: the citations are those of the first claim. *)
BugCitedIds(answer) == answer[1].cites

CitedIds(answer) == UNION {answer[k].cites : k \in DOMAIN answer}

Validate(answer) ==
  \/ /\ Errors(answer) = {}
     /\ Result("completed", "grounded_answer", {ById(id) : id \in CitedIds(answer)},
               Len(candidates), Cardinality(authorized), Len(bounded))
  \/ \E error \in Errors(answer) :
       Stop("denied", error, Len(candidates), Cardinality(authorized), Len(bounded))

Answer ==
  /\ pc = "consulting"
  /\ claims' \in Answers
  /\ Validate(claims')
  /\ UNCHANGED <<inputs, candidates, authorized, ranked, budget>>

(* The provider raises, or what it returns cannot be validated. *)
ProviderFails ==
  /\ pc = "consulting"
  /\ \E outcome \in {<<"error", "provider_error">>, <<"denied", "invalid_provider_output">>} :
       Stop(outcome[1], outcome[2], Len(candidates), Cardinality(authorized), Len(bounded))
  /\ UNCHANGED <<inputs, candidates, authorized, ranked, budget, claims>>

Next ==
  \/ Ask \/ Load \/ SourceFails \/ AuthorizeAll \/ PolicyFails
  \/ Retrieve \/ RetrieverFails \/ Select \/ Skip \/ Consult
  \/ Answer \/ ProviderFails

Spec == Init /\ [][Next]_vars

----------------------------------------------------------------------------

(* Variables keep the shapes the code gives them. *)
TypeOK ==
  /\ question \in Questions
  /\ scope \in Scopes
  /\ pc \in {"asked", "loading", "authorizing", "retrieving", "bounding", "consulting", "done",
             "raised"}
  /\ candidates \in Seq(Records)
  /\ authorized \subseteq DOMAIN candidates
  /\ ranked \in Seq(authorized)
  /\ bounded \in Seq(authorized)
  /\ position \in 1 .. Len(ranked) + 1
  /\ consumed \in 0 .. MaxContext
  /\ claims \in Seq(Claims)

(* A relevant record the policy let through is kept from the provider for  *)
(* one of two reasons only: at least RetrievalLimit others rank no lower,  *)
(* or it does not fit beside what was selected.  A large record does not   *)
(* keep the smaller ones behind it out, and the context never exceeds the  *)
(* budget ("test_context_budget_never_sends_partial_or_oversized_chunk").  *)
(* Others are other places of the source's list: the runtime keeps a tuple *)
(* and looks for no repetitions, so that copies of one record may be the   *)
(* others, and may take the budget.                                        *)
LeftOutForAReason ==
  pc = "consulting" =>
    /\ consumed <= MaxContext
    /\ \A i \in Relevant(authorized) \ Range(bounded) :
         \/ Cardinality({k \in Relevant(authorized) \ {i} : Ahead(candidates, k, i)})
               >= RetrievalLimit
         \/ consumed + candidates[i].size > MaxContext

(* A result says what happened: it is completed exactly when it cites, all *)
(* its claims are free of credentials and every id they cite is resolved   *)
(* by a citation from the context; and its trace never counts more records *)
(* behind a gate than before it, and some behind the last one when the     *)
(* provider was asked (governed-user-memory-rag.md, "Grounding").          *)
OutcomesAreHonest ==
  pc = "done" =>
    /\ result.status = "completed" <=> result.citations # {}
    /\ result.citations \subseteq Context
    /\ result.status = "completed" =>
         \A k \in DOMAIN claims :
           ~claims[k].credential /\ claims[k].cites \subseteq {r.id : r \in result.citations}
    /\ result.retrieved <= result.authorized /\ result.authorized <= result.candidates
    /\ claims # <<>> => result.retrieved > 0

(* The records the scope's owner may see, whatever the source returns. *)
Entitled ==
  IF question = "clean" /\ scope.current
  THEN {r \in Records :
          /\ r.owner = scope.owner
          /\ r.active /\ r.indexable /\ ~r.credential
          /\ r.classification \notin Prohibited
          /\ r.classification \in scope.classifications /\ r.source \in scope.sources
          /\ \A e \in r.entitlements : e \in scope.entitlements}
  ELSE {}

Phase ==
  CASE pc = "done" -> IF result.status = "completed" THEN "answered" ELSE "refused"
    [] pc = "raised" -> "refused"
    [] pc = "consulting" -> "consulting"
    [] OTHER -> "asked"

(* What the provider is given is only handed over when it is consulted.    *)
Given == IF pc = "consulting" \/ (pc = "done" /\ result.retrieved > 0) THEN Context ELSE {}

Abstract == INSTANCE Grounding WITH
  Material <- Records,
  phase    <- Phase,
  entitled <- Entitled,
  context  <- Given,
  cited    <- IF pc = "done" THEN result.citations ELSE {}

(* The pipeline grounds its answers: whatever its source and its provider  *)
(* return, the provider sees only records its reader is entitled to, and   *)
(* never none, and an answer cites only what the provider saw.  (Of the    *)
(* retriever it is taken that it is LexicalRetriever.)                     *)
ImplementsGrounding == Abstract!Spec
=============================================================================
