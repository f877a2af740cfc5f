--------------------------- MODULE MCProviderOptions ---------------------------
(***************************************************************************)
(* Two prompts, files that are edited with and without a new version and   *)
(* files that are broken in one way each; deployments and .env files that  *)
(* set what the options depend on, one with a provider nobody knows.       *)
(***************************************************************************)
EXTENDS ProviderOptions

MCCatalogPaths == <<"agent.creator", "task.classify_request">>

Variable(name, type, required, default) ==
  [name |-> name, type |-> type, required |-> required, default |-> default]

Given(kind, token) == [kind |-> kind, token |-> token]

Request == Variable("user_request", "string", TRUE, None)
Limit == Variable("limit", "integer", TRUE, Given("integer", "3"))
Note == Variable("note", "string", FALSE, None)

Creator ==
  [wellformed |-> TRUE, odd |-> FALSE, id |-> "agent.creator", version |-> "1",
   messages |-> 1, text |-> "t1", cache |-> "none", fields |-> {"user_request", "limit"},
   variables |-> <<Request, Limit>>]

Task ==
  [Creator EXCEPT !.id = "task.classify_request", !.cache = "24h", !.fields = {"note"},
                  !.variables = <<Note>>]

MCFiles ==
  [p \in {"agent.creator", "task.classify_request"} |->
     IF p = "agent.creator"
     THEN { Creator,
            [Creator EXCEPT !.text = "t2", !.cache = "24h"],
            [Creator EXCEPT !.version = "2"],
            [Creator EXCEPT !.fields = {"user_request", "limit", "note"}],
            [Creator EXCEPT !.variables = <<Request, Request>>],
            [Creator EXCEPT !.odd = TRUE],
            Task }
     ELSE { Task,
            [Task EXCEPT !.wellformed = FALSE],
            [Task EXCEPT !.fields = {"", "0"}, !.variables = <<[Note EXCEPT !.name = "0"]>>] }]

Ask1(id, version, variables) == [id |-> id, version |-> version, variables |-> variables]

MCRequests ==
  { Ask1("agent.creator", "1", [user_request |-> Given("string", "hello")]),
    Ask1("agent.creator", "any",
         [user_request |-> Given("string", "hello"), limit |-> Given("boolean", "True")]),
    Ask1("task.classify_request", "any", [n \in {} |-> None]),
    Ask1("task.classify_request", "1", [other |-> Given("string", "x")]) }

Key == "OPENAI_API_KEY" :> "k"

MCEnvironments ==
  { Key @@ "LLM_MODEL" :> "gpt-4.1",
    Key @@ "OPENAI_CHAT_MODEL" :> "gpt-5.5" @@ "OPENAI_CONVERSATION_ID" :> "old",
    "OPENAI_PROMPT_CACHE_RETENTION" :> "in_memory" @@ "LLM_PROVIDER" :> "anthropic" }

Responses ==
  "MEMORY_BACKEND" :> "openai_responses" @@ "MEMORY_STRATEGY" :> "previous_response"
  @@ "OPENAI_PREVIOUS_RESPONSE_ID" :> "resp" @@ "OPENAI_CONVERSATION_ID" :> "conv"
  @@ "MEMORY_MAX_MESSAGES" :> "0"

Conversations ==
  "MEMORY_BACKEND" :> "openai_conversations" @@ "OPENAI_CONVERSATION_ID" :> "conv"
  @@ "OPENAI_PREVIOUS_RESPONSE_ID" :> "resp" @@ "OPENAI_CHAT_MODEL" :> "house-model"
  @@ "ANTHROPIC_API_KEY" :> "k"

MCDotEnvs ==
  { Responses @@ "LLM_MODEL" :> "gpt-5.4", Conversations,
    "LLM_PROVIDER" :> "unknown" @@ Key @@ "MEMORY_MAX_MESSAGES" :> "many" }
=============================================================================
