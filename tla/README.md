# A verification project for sst-chatbot

sst-chatbot is the proposal side of SST: it answers chat turns, keeps local
operational records, and hands *intents* over to an external orchestrator that
alone may execute them.  This directory holds TLA+ models of its runtime, TLC
configurations that check them, and TLAPS proofs.  Paths below are relative to
`src/src/app/` unless they say otherwise.

## 1. The system

| Component | State it keeps | Operations | Talks to |
|---|---|---|---|
| `operation_policy.py` | none (a fixed catalogue) | `evaluate_operation` | called by both validations |
| `agents/lifecycle.py` | none of its own: immutable `AgentLifecycle` values with history and receipt observations | `advance_lifecycle`, `record_external_receipt`, `accept_external_handoff_ownership`, the validator | its callers hold the values |
| `orchestrator/service.py` | none; works on a lifecycle value | `IntentHandoffCoordinator.submit` | validations, lifecycle, an `OrchestratorPort` |
| `orchestrator/fake_client.py`, `store.py` | stored receipts and the idempotency index | `submit`, `append`, `find_by_idempotency` | the coordinator |
| `orchestrator/http_client.py` | none | one HTTP attempt per `submit` | the external orchestrator, the token provider |
| `service_auth.py` | token cache and its lock; the kept key set | `get_token`, `verify` | token endpoint, JWKS endpoint |
| `chat_runtime/` | none between turns; one thread per request | `do_POST`, `do_GET`, the runtimes' `process_turn` | SST backend (its client), a runtime |
| `user_memory/` | none; Bend keeps memory, audits, proposals | recall, audit, propose, `process_turn` | Bend over HTTP, the RAG runtime, a proposal builder |
| `governed_rag/` | none | `answer`: scope, recall, authorize, rank, budget, provider, citation check | memory source, retriever, provider |
| `memory/` | records and their idempotency index | `append`, `PhaseRunner.run`, visibility selection, conversion to a handoff | an agent provider |
| `audience_access/` | none | `read_stakeholder_metric`, `explain`, policy and disclosure decisions | metric source, methodology source, provider |
| `prompts/` | the catalogue of one process, behind an `lru_cache` | load, validate, resolve, render | the YAML files |
| `providers/`, `config/`, `llm/` | `os.environ`, settings | `load_settings`, request options, adapter selection | the `.env` file, a rendered prompt, vendor SDKs |
| `src/src/sst_chatbot/`, `src/scripts/` | files | demonstrations, linting, smoke tests | none of the above at run time |

Where it is hard, and what makes each part correct:

* **Handoff.** A request or its answer can be lost, delayed or repeated; the
  caller keeps the planned lifecycle value and may submit it again, from several
  processes, with an edited payload or with fresh evidence, under the same
  idempotency key.  Correct means: what a caller is told (requested, rejected,
  conflict) agrees with what the orchestrator holds, for ever; nothing blocked
  and no unreviewed patch is registered.
* **Lifecycle.** Receipts come from outside in any order.  Correct means:
  external ownership is shown only on evidence, never taken back, and the audit
  trail only grows.
* **Token provider.** Threads share one cache; the clock is read before the
  lock.  Correct means: no token is used that may have expired when the call
  began, none for another scope, no stampede, no thread left waiting.
* **Chat turns.** Ports fail before or after their effect, clients leave or
  send a message again, memories are withdrawn meanwhile.  Correct means: no
  word of an answer before its audit and proposal are stored, one proposal per
  message, only active memories of the turn's principal cited, one terminal
  event, which is last and reaches a client that stays, and no step tried twice.
* **Records and phases.** A phase stores up to two records one after the other
  and the second may fail; ids, keys and contexts are chosen by callers and
  reused; a phase is run again with other inputs or with a review at last.
  Correct means: one consistent, append-only store, no verdict "completed" that
  no call deserved, no provider work without its run, and every call repeatable.
* **Governed RAG.** Sources return what was not asked for or one record again
  and again, records share an id or a score, the budget skips a record and takes a later one, every port may
  raise.  Correct means: the provider sees only what the reader is entitled to and
  an answer cites some of it; nothing relevant is left out without a reason; the
  result and its trace say what happened.
* **Audience access.** Rules are tried in order and the first names the decision;
  a list of envelopes is approved one by one and a late one may refuse all; a
  cohort of 9 is hidden and one of 10 is not.  Correct means: everything or
  nothing of a request crosses, nobody entitled is refused, a hidden value
  reaches no other port, and an answer says of the metric what the snapshot says.
* **Prompts and providers.** Files are edited while a process reads them and after
  it has cached them; settings come from an environment that loading changes,
  even when the load fails; options depend on model, settings and prompt at once.
  Correct means: one text per version in a process, no unresolved variable, no
  option a registered model refuses, and a deployment that keeps the last word.
* **Token verifier.** Threads share one kept copy of a key set that rotates, and
  fetches answer late.  Correct means: a withdrawn key is not honoured for ever,
  and a genuine token is not refused because of a rotation.

The hazards are listed line by line in `PROJECT.json`.

## 2. Modules

| Module | Models | Kind |
|---|---|---|
| `Lifecycle` | the lifecycle value and its functions (`agents/lifecycle.py`) | operators |
| `AgentLifecycle` | callers that apply these functions in any order | state machine |
| `OperationPolicy` | catalogue, `validate_record` on intents, `validate_handoff_payload` | operators |
| `HandoffContract` | what a handoff promises, without messages | abstract state machine |
| `Handoff` | coordinator, HTTP adapter, orchestrator and the transport | state machine, implements `HandoffContract` |
| `TokenCache` | `ClientCredentialTokenProvider.get_token` in several threads | state machine |
| `TokenVerifier` | `JwksServiceTokenVerifier.verify` in several threads, the rotating key set | state machine |
| `ChatTurns` | `do_POST`, `ProviderChatRuntime`, `GovernedMemoryChatRuntime`, Bend | state machine |
| `MemoryPhases` | `InMemoryRecordStore.append`, `PhaseRunner.run`, `FakeAgentProvider` | state machine |
| `Grounding` | what both retrieval pipelines promise | abstract state machine |
| `Ranking` | the order and the cut of both retrievers | operators |
| `GovernedRag` | `GovernedRagRuntime.answer` with its policy, retriever, budget and validation | state machine, implements `Grounding` |
| `AudiencePolicy` | the verdicts of `AudiencePolicyEngine` | operators |
| `AudienceRequest` | `prepare_provider_request` and `authorize_context` over a list of envelopes | state machine |
| `StakeholderRag` | `GroundedStakeholderRagRuntime.explain`, `AudienceReadRuntime` and the engine they call | extends `AudienceRequest`, implements `Grounding` |
| `PromptEngine` | catalogue, registry, validation and `render_prompt` | state machine |
| `ProviderOptions` | `load_settings`, the request options, `build_chat_model` | extends `PromptEngine` |
| `LifecycleProofs`, `HandoffProofs`, `ServiceAuthProofs`, `MemoryPhasesProofs`, `ChatTurnsProofs`, `GovernedRagProofs`, `AudienceProofs`, `ProviderProofs` | | theorems |
| `MC*` | instances for TLC | |

### Lifecycle and AgentLifecycle

A lifecycle is a record `correlation_id, state, history, external_receipts`, as
in the code.  A transition keeps its end points and the receipt it cites
(`input_ref`); actor, reason and timestamps are text.  The functions are pure, so
`Lifecycle` defines them as operators (`Advanced` is `_advance`, `Observed` is
`record_external_receipt`, `LatestAccepts` the test on `matching_receipts[-1]`)
and both `AgentLifecycle` and `Handoff` use them.  A call that raises leaves the
caller with the value it had: the corresponding step is not enabled.
The model of the code's constructor check is `ValidLifecycle`; it guards only
`RecordExternalReceipt`, whose argument can make a value invalid, and
`AlwaysValid` says that the others cannot.

### OperationPolicy, HandoffContract and Handoff

An intent record is its idempotency key, correlation id, capability, operation, a
`version` for everything else in its payload, and a `defect`: the first group of
required fields that does not hold.  `"record"` stands for what `validate_record`
refuses; `"created_at"` for the one field only the payload validation asks for.
The two validations are kept apart because the first asks the catalogue as if
the operation had been reviewed.  A payload fingerprint is the payload.

One attempt is one call of `submit`.  `RejectLocally` and `Submit` are the code
up to the port call (service.py:43-117), `Deliver` and `PortFails` the code after
it, `ErrorBodyUnreadable` the exception that escapes the adapter.  Between them
the orchestrator may answer the request any number of times, also after the
caller has given up (`Sent` stays true): this is how a delayed or repeated
request looks.  Intermediate lifecycle values are local to the call and are not
visible: the variable `lifecycle` is what the caller holds.  `answers` is the set
of receipts issued, so that an answer can be lost, delayed or delivered for a
repeated request.  The constant `Faults` chooses what the transport does:
`lost`, `misrouted` (a replaceable port returns a receipt meant for another
attempt; service.py checks the binding for exactly this), `unreadable`.
The orchestrator is the external service; its idempotency is taken from
`fake_client.py` and `store.py`, and it may refuse operations the local catalogue
accepts (`RemoteRefused`).  It looks the key up before it validates, as the fake
does.  The status `received` of `HandoffStatus` is never issued by the fake and
would be treated as `accepted_for_review`; it is left out.

`HandoffContract` has a registry of (payload, evidence) pairs per key and an
outcome per attempt.  `Handoff!ImplementsContract` is the refinement: the stored
receipt's pair is the registry entry, `OutcomeOf` reads the outcome off the
caller's lifecycle.

`to_handoff_payload` is the identity on what is modelled of an intent; a record it
raises on leaves `submit` before any state is touched, and is no step.

### TokenCache

A call is `Call` (the key and the reading of `time.time()`), then, holding the
lock, one of `UseCached`, `RefuseUnconfigured` or `BeginFetch`; the lock is kept
until `FetchReturns` or `FetchFails`.  `Mint` is the endpoint: the token's life
begins there, not at the reading the provider computes `expires_at` from.  Time is
the variable `clock`, advanced by `Tick`.  Assumed: `time.time()` does not go
backwards, and `expires_in` is the lifetime the endpoint really gives the token; an
answer that names none is taken for 300 seconds (service_auth.py:112), so it is assumed
that the endpoint omits it for such tokens only.
A response without a token, a timeout and an unreadable body are all `FetchFails`.
`stored` keeps every refresh for `RefreshesAreSpaced` and drives nothing.

### ChatTurns

A request's thread is `pc`; what its generator has yielded and the handler has
not yet written is `outbox`, and the generator goes on only when it is empty
(`Running`), as a Python generator does.  `Refuse` is every early return of
`do_POST`, `RequestRaises` what its two `except` clauses let through: a body that is
JSON but no object, a principal that is a text, or a verifier that raises something
else; the connection is closed without a response.  `Yield`, `Raise` and `Abandon` are the three ends of its loop: an
event, an exception that becomes one `error` record, a connection error that ends
the response silently.  Bend is the variables `memory`, `audits` and `proposals`;
that it stores the first proposal of an idempotency key and confirms the
repetition of the same one is how `src/` uses it.  The key is a digest of
conversation and message joined by a colon, which an id may contain as well, so nothing
makes it injective: the constant `KeyOf` gives each message its key, and in the run two
messages share one.  `AuditFails` and `ProposeFails` may or may not have
had their effect.  The RAG pipeline appears as what it guarantees: a
provider context that is a non-empty subset of what `authorize` lets through
of what Bend returned, and an answer that cites a non-empty part of it.
Every other decision code is `Decline`.  `granted` is a history variable: what
the turn was entitled to when it recalled.

What `ChatTurns` takes of the pipeline is what `Grounding` promises and
`GovernedRag` is shown to keep; `TurnRetrieval(a)` reads the retrieval of one turn
off its stage and its material, and `EveryTurnImplementsGrounding` says that each
turn keeps that promise beside all the others.

`PortResets` applies to the streaming provider and to the proposal builder
because these are the two ports whose exceptions reach the handler unwrapped;
`BendUserMemoryClient` turns its own into `UserMemoryPortError`, and the RAG
runtime catches its ports' exceptions.

### MemoryPhases

`records` and `index` are the two dictionaries of the store, `calls` is a history
of the calls of `run` that stored something, kept for the properties only.  A record has
its id, key, type, status and sources; tenant, scope, user, correlation and
capability are its `context` (`Traceable` are those with what `validate_record`
asks of them), payload and body its `content`, and `sound` says that its other
fields are valid.  The text `phase-run-<phase>-<id>` of an id, and of the key, is the
record `DerivedName`; it is assumed that callers do not give their own records
such names.  The `phase_name` of a derived record is in its `content`.

One call is one step, because one thread uses the store; `CanAppend` is `append`
not raising, `RecordsWith` and `IndexWith` are what it leaves.  `RunPhase` is a call
that does not reach the provider, `RunProvider` and `RunProviderFails` the two ends of
one that does: the failure covers a runner without a provider, a provider that
raises and a provider record the store refuses.  Runners may share a store,
so whether there is a provider is decided per call.  Any phase may follow any
other: `allowed_next` is recorded, not enforced.  The code ignores what `append`
returns: after a first run without a review a second one with it reports
completed, and the stored record goes on saying rejected.  `RunPhase` does the
same, and `CompletedRunsWereEarned` is stated of what is stored.

### Grounding, Ranking and GovernedRag

`Grounding` has four variables: the phase, the material its reader is entitled
to, the context a provider was given and the citations of the answer.  It says
that a provider is consulted once at most, with a non-empty part of the first,
and that an answer cites a non-empty part of the second.

`GovernedRag` follows one call of `answer`.  A record is its id, owner (tenant,
user and application together), source, classification, entitlements, flags,
size in characters and `score`, the number of words shared with the question;
`credential` says that the patterns found one in it.  `Ask` is every check before
the first port, `Load`, `AuthorizeAll`, `Retrieve`, `Consult` and `Answer` are the
stages, the `...Fails` actions the `except` clauses around them; `Select` and `Skip`
are the two branches of the loop of `_within_budget`.  `ranked` is a sequence that a
sort on (-score, id) and a cut leave of the places of the source's list
(`Rankings`, unique because the sort is stable).  `candidates` is that list, as the source
returned it: the runtime keeps it as a tuple and removes no copies (runtime.py:73), so a
repeated record takes places in the limit and characters of the budget.  A blank
correlation id raises (`pc = "raised"`).  The retriever port is the repository's
`LexicalRetriever`: `answer` does not check that what a retriever returns is among what it was
given (runtime.py:99-114), so nothing here is claimed for another one.  The provider answers anything its
contract can express (`Answers`); `Errors` are the codes `_validate_answer` can
return (claims are tried in order), and `ById` is the dictionary in which a later
record of the same id replaces an earlier one.

### AudiencePolicy, AudienceRequest and StakeholderRag

A method of the policy engine that tries rules in order is a sequence of pairs,
condition and code (`PrincipalRules`, `EnvelopeRules`), and `FirstCode` is its
verdict.  `AudienceRequest` is the loop over the envelopes: `approved` grows while an
envelope is still to come that may refuse the whole request, and `input` is what
the provider is given at the end.  What may be true of a principal, an envelope, a
query, a snapshot or a record of methodology is written in `Valid...`, from the
validators of the contracts; an audience nobody knows and a classification nobody
knows are possible because the engine has branches for them.

`StakeholderRag` extends `AudienceRequest` and calls it: `AskPolicy` hands the metric's
envelope to the engine, `PolicyStep` is a step of the engine, `PrepareMetric` reads
its decision.  With `stage = "direct"` nobody calls `explain` and the engine is given
any list of envelopes, so that one run checks both uses.  `FetchSnapshot` and
`LoadMethodology` may return what was not asked for; `Suppress` is the rule on small
cohorts and comes before everything the snapshot could leak to.  `consulted` is the
set of ports that have been called and drives nothing.  `stage = "raised"` is an
exception of the metrics port other than `MetricSourceUnavailable`, which the code
does not catch, or the one for a blank correlation id (`RaiseUncorrelated`).  The
methodology is a list, as in `GovernedRag`, and the retriever the repository's own ranking.
`input` is what the engine's decision holds; `explain` looks at the verdict only and hands the
provider the snapshot itself (stakeholder_rag.py:138-142), which is why `HiddenValuesStayHidden`
speaks of the snapshot and not only of `input`.

### PromptEngine and ProviderOptions

`disk` is the file of every prompt and may be edited at any step, also between two
files of one load.  `Ask` starts a render, `LoadPrompt`, `LoadFails` and `KeepCatalog`
are the loading of `list_prompt_definitions` behind its `lru_cache` (an exception
is not cached), `Render` is the resolution of the version, the variables and the text.
A file is abstracted to what the validators look at; a value to its type and a token.
`str.format` is given keywords only, so a field that is empty or a number (`Positional`)
makes the render raise, whether it is declared or not.

`ProviderOptions` extends it with the configuration of the same process: `env` is
`os.environ`, which `LoadSettings` changes before it validates anything, `inherited`
what the process was started with.  `BuildOptions` derives the options for a prompt
that was rendered, or for none, and `BuildChatModel` picks the adapter.  A profile says
which efforts, verbosity and retention its model takes and whether it takes a previous
response or a conversation; `TakenBy` is the options that follow.
`RestartProcess` restarts both halves.  `Step` makes these calls between renders:
one thread does all of it.

### TokenVerifier

`jwkSet` is the key set PyJWKClient keeps, with the second it was put; `Lookup`,
`Respond`, `Receive` and `FetchRaises` are one `get_signing_key`, with the fetch split
where the issuer's answer is taken and where it arrives, and the second fetch when
the key named is not in the set.  PyJWKClient is external and modelled from how it is
constructed and called.  `Rotate` changes the issuer's set.  `unsteady` is a history
variable: the key of the handler's token was not published during the whole call, or
a fetch failed.  A failed fetch ends the call in a refusal or, because `verify` catches only
`PyJWTError` and an unparsable or reset answer is none (service_auth.py:55), in a raw
exception (`"raised"`).  A handler is one thread of the server.  `SecondPasses` cannot pass a fetch that is due to time out.

## 3. What TLC checks

Every run finishes within three minutes.  Deadlock checking is off everywhere because
every model is of a finite number of calls that may all be over.

| Run | Instance | Shows |
|---|---|---|
| `agent_lifecycle` | 1 intent, 2 correlation ids, 2 receipts, 3 statuses, 3 observations | validity, evidence for ownership, no way back, append-only trail, the latest of contradictory observations decides |
| `handoff_contention` | 3 attempts, 1 key, 3 intents (safe, its edited copy, a patch), 2 pieces of evidence | retries, edited payloads and fresh evidence meet on one key |
| `handoff_any_port` | 2 attempts, 2 keys, 2 correlation ids, one intent per way a validation fails, blocked and unreviewed operations among them, misrouted and lost answers, a remotely refused operation | the refinement, that callers are told what is registered, and that nothing blocked is stored |
| `handoff_errors` (violation) | 1 attempt | an unreadable error body leaves `submit` as a raw exception |
| `token_cache` | 2 threads, 2 grants of one audience, lifetimes 1 and 3, margin 1, 2 calls each, clock to 3 | the cache's promises with old clock readings; every call ends |
| `token_verifier` | 2 threads, 2 keys, 3 tokens, a lifespan and a fetch of 1 second, 2 rotations, clock to 3 | withdrawn keys expire, rotations are noticed |
| `chat_turns` | 2 requests, of one message or of two with one key, 2 principals, 1 memory, 2 candidates, 2 chunks | the promises to the client and to Bend; no turn goes in circles |
| `chat_turns_resets` (violation) | 2 attempts | a port's reset is taken for the client's |
| `memory_phases` | 7 drafted records on 2 ids, 2 keys and 3 contexts, 8 inputs, 2 phases, 3 calls | the store's and the runner's promises under reuse, repetition and failure |
| `governed_rag` | 5 records that pass (a tie, one id twice, an irrelevant one) and 8 that fail in one way, 3 scopes, all lists of 2 of these and of 4 that pass, copies included, limit 3, budget 5, 2 claims | the refinement of `Grounding`, the reasons for leaving out, honest results |
| `stakeholder_rag` | 12 principals, 26 envelopes in lists of up to 2, 2 queries, 7 snapshots, 10 records of methodology, 2 values | both uses of the engine and the pipeline |
| `provider_options` | 2 prompts, 7 and 3 files, 4 requests, an edit or restart, 2 renders; 3 environments, 3 `.env` files, 3 calls | the promises of the catalogue, of the environment and of the options |

Why the bounds are enough.  Lifecycle: intents do not interact; two receipts and
three observations allow a repetition with another status, before, between and
after the other receipt.  Handoff: the interesting conflicts are between two
attempts on one key, a third one is the late duplicate; keys do not interact, so
the run with two keys is there for misrouting only.  Tokens: lifetime 1 equals
the margin and 3 exceeds it, so a token can be fresh, within its margin and
expired before the clock stops, and a call can wait that long for the lock.
Verifier: with lifespan and fetch of one second each, a key withdrawn at second 0 or
1 is past its limit before the clock stops, and two rotations take a key off and
bring it back.  Chat: attempts interact through the proposal under one key and through
a withdrawn memory; two attempts show a repetition, a change of mind of the
builder, and a memory that is granted to one principal only.  Memory: the two
phases are the one that wants a review and the one that calls the provider, the
others being special cases of these; among the inputs are an edited copy, a moved
copy, a reused id, a reused key, an untraceable and an invalid record, and a pair;
three calls are a first run, its repetition and one in between.  Governed RAG: more
records pass than the limit admits and more characters than the budget, so that
both cuts happen, a smaller record follows one that does not fit, and three copies of one
record fill the limit before a fourth, other one; two claims
are the first and one after it.  Stakeholder: each principal, envelope, snapshot and record is
right, or wrong in one way, and the rules are independent but for their order;
two envelopes are one approved before one refused; cohorts of 9 and 10 are the boundary.
Prompts: one edit between two files of a load, between two renders or between a
render and a restart is what the cache is about; two prompts, since a bad file
concerns the others only through the load.  Options: each option depends on two or
three settings, which the files and environments combine; three calls are an edit, a load and
a use, or two loads and a use.

Fairness.  One run has a liveness property, `token_cache`.
`TokenCache!FairSpec` asks each thread that can go on to do so and a fetch to end,
by its timeout (5 seconds); weak fairness is enough because each thread makes only finitely
many calls in the model, so the lock cannot be taken from under a waiter for
ever (the bound `MaxCalls` is part of this claim).  Nothing of the kind is claimed elsewhere.
The chat server sets no socket timeout, so `wfile.write` (http_server.py:110) can block for
ever on a client that stays and stops reading, and the port of a streaming provider knows
no timeout: that a turn ends is not true of the code.  What is checked instead needs no
fairness: `TurnsRunOut`, that every step of a turn brings it nearer to its end and nobody
sends it back, and `FinishedTurnsAreTold`.  That a handoff attempt returns follows from the
socket timeout of http_client.py alone and would only repeat it.

Findings.  Two runs end in a violation on purpose, each of a sentence of the
repository: see `findings` in `PROJECT.json`.

Disagreements with the documentation that were met while modelling and have no
run of their own; the models do what the code does:

* `docs/architecture/grounded-stakeholder-metrics-rag.md:53` says that errors of
  source, retriever and provider become sanitized codes.  For the metrics port
  only `MetricSourceUnavailable` does (`audience_access/runtime.py:43`); any other
  exception leaves `explain` (`MetricsFail`, `stage = "raised"`).
* `docs/architecture/private-prompt-engine.md:20` says that the validators reject
  undeclared placeholders.  An anonymous one, `{}`, passes because its name is empty
  (`prompts/validators.py:15`), and fails in `template.format` at every render
  (`Formats`).
* `docs/architecture/provider-model-memory-configuration.md:24` says of models without a
  profile that no capabilities are assumed, as do playbook 04 and
  `test_custom_model_profile_does_not_assume_capabilities`.  Their profile says so, but
  `build_openai_responses_options` does not ask it: a configured conversation or previous
  response is sent for any model (`providers/openai_provider.py:47-52`).
  `OptionsAreAcceptable` makes this exception.
* `OPENAI_CHAT_MODEL` is the fallback of `LLM_MODEL`, so a deployment that sets only the
  former gets another model once a `.env` file with `LLM_MODEL` has been loaded, though
  nothing overrides its environment (`config/settings.py:57-60`).  `DeploymentDecides` makes
  this exception.
* `docs/architecture/provider-model-memory-configuration.md:40` says that
  `MEMORY_STORE_PROVIDER_STATE` makes persistence explicit.  The option `store` is sent
  only for the backend `openai_responses` (`providers/openai_provider.py:47`), so for every
  other one the provider's default decides.

Every property of a passing run has a mutant: a plausible defect of the code
(the `Bug...` operators, each next to the definition it would replace) under which
TLC finds that property violated.

## 4. What is proved

The proofs are for every value of the constants that satisfies the modules'
named assumptions; none bounds the number of attempts, threads, intents, keys or
tokens.

* `LifecycleProofs`, first part: the lemmas on the value, `Advanced` and `Observed` keep
  types and validity; `HandoffProofs` uses them too.
* `LifecycleProofs`, second part: the type invariant and all five properties of
  `agent_lifecycle`.  The
  inductive invariant is type, validity and evidence of each lifecycle together:
  evidence for *completed* is only inductive because a valid history ends in the
  state, so a step to `completed` starts from a history that already has its
  acceptance.  `LatestDecides` needs that the code's `matching_receipts[-1]` is the
  observation with the greatest index among those of the receipt (`LatestIsMax`).
* `HandoffProofs`: the type invariant, the agreement of what callers are told with
  the store, the catalogue and the evidence on everything stored, write-once, and
  the refinement of `HandoffContract`.  The inductive invariant relates every
  receipt in flight to the store: an accepting receipt (`accepted_for_review`,
  `duplicate`) *is* the stored one up to its status, a `conflict` is issued only
  while another payload holds the key, a `rejected_by_policy` only for a request
  that can never be stored.  Since the store is write-once these relations
  survive every later step, which is why late, repeated and misrouted receipts do
  no harm: the binding check needs nothing but them.  The refinement is proved in
  its two parts, initial states and steps, with this invariant.  For
  `MismatchMeansOtherEvidence` it is joined by what the faults could break: every
  answer on its way is about its addressee's payload, and about its evidence unless it is a
  duplicate (`AnswersAreTheirOwn`), so a mismatch is only ever a duplicate of other evidence.
* `ServiceAuthProofs`, first part: the safety properties of `token_cache`.  The inductive
  invariant says who may hold the lock (exactly the fetching thread), that a
  thread's reading and every minted token are not later than the clock, and that
  the cached expiry of a grant bounds every refresh stored for it; spacing needs
  the last because a waiting call's reading can be older than the refresh it
  waited for.
* `ServiceAuthProofs`, second part, about `TokenVerifier`: the type invariant,
  `WithdrawnKeysExpire` and `GenuineTokensPass`, for any handlers, keys, tokens, lifespan
  and fetch time.  `CopyIsRecent` and `RepliesAreRecent` say that the kept set, and every
  set on its way, was the issuer's at some second not longer than a fetch before it was put:
  a key withdrawn before that is not in it, whichever of several late answers was put
  last.  `CallsAreSteady` says that a call whose key was published all along, and whose
  fetches all answer, has the key in what it was answered, so the second fetch finds it.
* `MemoryPhasesProofs`: all six properties of `memory_phases`, for any drafted
  records.  Its lemmas are about one append to any store and are used once for
  `RunPhase` and twice for `RunProvider`.  The inductive invariant adds to the
  properties that every derived record is named after its phase and first
  source, from which follow both that the run backing the provider's work is found under that
  name and that a failed call can be taken up again.

* `ChatTurnsProofs`: the type invariant and the six properties of
  `chat_turns`, for any number of requests, messages, keys, principals and memories.
  The inductive invariant has five parts beside the types: `Words`
  (what the client has and what is still to be written, by stage: before the last
  word nothing or deltas only), `Material` (citations are part of the context, the
  context of what was granted), `Audited` and `Proposed` (what Bend stores names the
  turn it came from, one proposal per key) and `Accounted`, which states the
  property of words still in the outbox as well as of those written: without it
  an abandoned or delayed write would break the induction.
  `FinishedTellTheEnd`: a client that stays has been told the end of every turn that ran to
  its end and of every request that was refused.  `done` is where these end, `cut` where
  `PortResets` leaves a turn and `raised` where `RequestRaises` leaves a request: the two
  ways in which a client that stays is told nothing, of which the run `chat_turns_resets`
  shows the first.  Its invariant `LastWord` says that what is written last of a finishing
  turn is terminal.  `TurnsEndInBoundedSteps`: `Remaining`, the stages and words ahead of a
  turn and twice the chunks its stream may still bring, never exceeds `10 + 2 * MaxChunks`,
  every step of the turn's own thread makes it smaller and no other step makes it larger.
* `ChatTurnsProofs` also proves a statement no run holds, `TurnsImplementGrounding`:
  every turn implements `Grounding`, beside all other turns and while memories are
  withdrawn (what makes it true is that no step of another turn touches this one's
  material, and that withdrawing changes no owner).
* `GovernedRagProofs`: the type invariant, `LeftOutForAReason`, `OutcomesAreHonest`
  and the refinement of `Grounding`, for any records, any lists of them, with any
  repetitions, and any scopes, limits and budgets.
  `RankingFacts` says what a sort and a cut of the places of a list leave: a place that
  is left out of a full ranking has at least as many other places ahead of it as the limit.  The inductive
  invariant says what is still empty at each stage, that the loop has dealt with
  every position before its own (selected, or too large beside what is selected: the
  budget only fills up, so what did not fit never fits later), and what a
  result says.
* `AudienceProofs`, first part, about `AudienceRequest`: `InputIsAllOrNothing` and
  `EntitledRequestsPass`, for any envelopes and any number of them.
  `PassesIffNoRuleApplies` turns an ordered list of rules into a conjunction,
  `EnvelopePasses` this conjunction into the access matrix; the inductive invariant
  says that the approved context is the minimized prefix of the envelopes before the
  position, all of which pass.
* `AudienceProofs`, second part, about `StakeholderRag`: all five properties of
  `stakeholder_rag`, for any snapshots, methodology and answers.  The engine keeps its
  invariant when `explain` calls it (`EngineStep`), so its two theorems hold there
  as well.  `Journey` says which ports have been called at each stage, that
  the snapshot may be shown beyond the screening and that the engine approved it before
  methodology is touched; `Outcome` that `explain` ended either with a snapshot that may
  be shown or before any other port heard of the question (`HiddenEnd`).  `Grounded`
  says that what was authorized, and so what was retrieved, is methodology the reader
  is entitled to; the refinement of `Grounding` follows with `RankingTakesSome`
  (a ranking of something is never empty) and `CitationResolves` (a citation that passes
  names a retrieved record, the last of its id).

* `ProviderProofs`: the four properties of `provider_options` and both type invariants,
  for any catalogue, files, requests, environments and `.env` files.  `EngineIsUndisturbed`
  shows that a process that also loads settings and derives options is the prompt engine
  to its prompts, so what is proved of the engine holds in it.  The engine's invariant says
  that what has been read is a valid prefix of the allowlist in its order (`IsLoad`), that a
  process loads only without a catalogue (`LoadsOnce`) and that all it rendered is of the
  catalogue it still has (`FromCatalog`): two prompts of one id are one (`OnePromptPerId`)
  because the allowlist names an id once, from which follow the single text and that
  a request never has two versions to choose from.  `KindIsNoType` is why no required variable
  is left out: a missing value has the kind `none`, which is nobody's type.
  `OptionsAccept` is about one derivation, for any settings of their types and any policy
  (the memory options included: every registered model takes both, and for an unregistered
  one nothing is claimed of them);
  `Undisplaced` is what each load keeps of the environment the process was started with.

The assumptions are on shapes only: an allowlist with an entry per id, values of the kinds
YAML and JSON have, variables of the declared types in a well-formed file, lifetimes and
margins in the naturals, finitely many records.

Proved and not in a run: the type invariants, `Handoff!StoreIsWriteOnce`,
`TokenCache!CacheIsConservative`, `TokenCache!ExpiryMovesForward`,
`ChatTurns!EveryTurnImplementsGrounding`, and that matches are unique (`VersionIsNeverAmbiguous`).

Only model-checked: the liveness property `EveryCallEnds` (fairness and ENABLED are out of
the prover's reach).  The two violations are of course not theorems.

## 5. Not modelled

* `do_GET` (a constant answer) and `EchoChatRuntime` (a fixed stream, a special case of the
  provider's); the validation of a candidate's fields and the shape of Bend's
  records, beyond their failing.
* Visibility candidates: a pure selection nothing calls and nothing stores.
* `to_agent_result` (a reformatting) and, of `validate_record`, the fields that are
  one flag (`sound`) in `MemoryPhases`.
* `prompts/assembler.py`, the trace metadata and every other wording or log.
* The sampling parameters and the LangChain settings, the SDKs, and
  `llm/openai_client.py`, which always takes the OpenAI adapter.
* The patterns that find credentials and identifiers, and the word count of the
  retrievers: a text is what is found in it.
* The proof-of-concept package `src/src/sst_chatbot/` and the scripts: demonstrations,
  linting and start-up, not part of the runtime.
* The in-memory stores are used by one thread in this repository, so their
  concurrent use is not modelled.

Two things a reader of the code may expect and the models do not assume:
`allowed_next` is recorded with a phase and never enforced (any phase may follow any
other), and `MEMORY_MAX_MESSAGES=0` means 20 (`MaxMessages`).

## 6. Plan

1. A composition of `TokenCache` with the callers that need two grants in one turn.
2. A proof that `GovernedRag` gives a turn what `ChatTurns` takes of it, beyond `Grounding`:
   that the material is active, by which `AuditsCiteGrantedMemory` would follow from the
   pipeline's own theorem.
3. A variant for the calls of `TokenCache` (what every step of a call uses up, as
   `ChatTurns!TurnsRunOut` has it of a turn), and one for the attempts of `Handoff`.
4. Visibility candidates, once something stores them.
