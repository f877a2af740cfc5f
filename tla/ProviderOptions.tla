---------------------------- MODULE ProviderOptions ----------------------------
(***************************************************************************)
(* Configuration of the model providers: load_settings reads a .env file   *)
(* into the process environment and the environment into Settings,         *)
(* build_openai_responses_options derives the options of a request from    *)
(* them, the capabilities of the model and the cache policy of the prompt  *)
(* that the prompt engine rendered for it, and build_chat_model picks the  *)
(* adapter.  One thread of the process does all of this.                   *)
(***************************************************************************)
EXTENDS PromptEngine, TLC

CONSTANTS
  Environments,  \* process environments: functions from keys to texts
  DotEnvs,       \* contents of the .env file, likewise
  MaxSteps,      \* bound on edits and calls
  MaxNumber      \* bound on the numerals of the environment

ASSUME BoundsAssumption == MaxSteps \in Nat /\ MaxNumber \in Nat

VARIABLES
  inherited,  \* the environment the process was started with
  env,        \* os.environ
  file,       \* the .env file
  overridden, \* a load has been asked to override the environment
  settings,   \* the Settings of the last load that succeeded
  policy,     \* provider_cache_policy of the prompt of options, or "no_prompt"
  options,    \* the options derived last, a function from their names
  outcome,    \* of the last call
  steps

configuration == <<inherited, env, file, overridden, settings, policy, options, outcome, steps>>

----------------------------------------------------------------------------
(* Literal types of providers/types.py.                                    *)
ProviderName == {"openai", "anthropic", "github_copilot", "deepseek", "local"}
ReasoningEffort == {"none", "low", "medium", "high", "xhigh"}
TextVerbosity == {"low", "medium", "high"}
PromptCacheRetention == {"auto", "in_memory", "24h"}
MemoryBackend == {"none", "local", "langgraph_checkpoint", "openai_responses",
                  "openai_conversations", "vector_store"}
MemoryStrategy == {"stateless", "window", "summary", "retrieval", "previous_response",
                   "conversation"}

(* The capabilities of a model, the last two those of provider memory:     *)
(* supports_previous_response_id and supports_conversations_api.           *)
ReasoningModel(retention) ==
  [family |-> "gpt-5", efforts |-> ReasoningEffort, verbosity |-> TRUE, retention |-> retention,
   previous |-> TRUE, conversations |-> TRUE]

OpenaiModelProfiles ==
  [m \in {"gpt-5.5", "gpt-5.4", "gpt-5.4-mini", "gpt-4.1"} |->
     CASE m = "gpt-5.5" -> ReasoningModel("24h")
       [] m \in {"gpt-5.4", "gpt-5.4-mini"} -> ReasoningModel("in_memory")
       [] m = "gpt-4.1" ->
            [family |-> m, efforts |-> {}, verbosity |-> FALSE, retention |-> "in_memory",
             previous |-> TRUE, conversations |-> TRUE]]

(* An unregistered model has no capability. *)
CustomProfile ==
  [family |-> "custom", efforts |-> {}, verbosity |-> FALSE, retention |-> "none",
   previous |-> FALSE, conversations |-> FALSE]

Profile(model) ==
  IF model \in DOMAIN OpenaiModelProfiles THEN OpenaiModelProfiles[model] ELSE CustomProfile

----------------------------------------------------------------------------
(* os.getenv *)
Getenv(e, key, default) == IF key \in DOMAIN e THEN e[key] ELSE default

Numerals == {ToString(n) : n \in 0 .. MaxNumber}

(* _optional_int, and the "or 20" that follows it: 0 is 20 too. *)
MaxMessages(text) ==
  IF text \in {"", "0"} THEN 20 ELSE CHOOSE n \in 0 .. MaxNumber : ToString(n) = text

KeyName(provider) ==
  CASE provider = "openai" -> "OPENAI_API_KEY" [] provider = "anthropic" -> "ANTHROPIC_API_KEY"
    [] OTHER -> "GITHUB_COPILOT_API_KEY"

SettingsOf(e) ==
  [provider |-> Getenv(e, "LLM_PROVIDER", "openai"),
   model |-> Getenv(e, "LLM_MODEL", Getenv(e, "OPENAI_CHAT_MODEL", "gpt-5.4-mini")),
   keys |-> [p \in {"openai", "anthropic", "github_copilot"} |-> Getenv(e, KeyName(p), "")],
   effort |-> Getenv(e, "LLM_REASONING_EFFORT", "medium"),
   verbosity |-> Getenv(e, "LLM_TEXT_VERBOSITY", "medium"),
   retention |-> Getenv(e, "OPENAI_PROMPT_CACHE_RETENTION", "auto"),
   backend |-> Getenv(e, "MEMORY_BACKEND", "none"),
   strategy |-> Getenv(e, "MEMORY_STRATEGY", "stateless"),
   messages |-> Getenv(e, "MEMORY_MAX_MESSAGES", ""),
   store |-> Getenv(e, "MEMORY_STORE_PROVIDER_STATE", "false"),
   conversation |-> Getenv(e, "OPENAI_CONVERSATION_ID", ""),
   previous |-> Getenv(e, "OPENAI_PREVIOUS_RESPONSE_ID", "")]

NoSettings == [SettingsOf(<<>>) EXCEPT !.provider = ""]

Loaded == settings.provider # ""

(* What the models of pydantic accept, and int() of a number.  A value     *)
(* refused for LLM_TEMPERATURE, LLM_MAX_OUTPUT_TOKENS, MEMORY_MAX_TOKENS   *)
(* or LANGCHAIN_TRACING_V2, which no option below depends on, fails the    *)
(* same way and is left out.                                               *)
Accepted(s) ==
  /\ s.provider \in ProviderName /\ s.effort \in ReasoningEffort
  /\ s.verbosity \in TextVerbosity /\ s.retention \in PromptCacheRetention
  /\ s.backend \in MemoryBackend /\ s.strategy \in MemoryStrategy
  /\ s.store \in {"true", "false"}
  /\ s.messages \in Numerals \cup {""}

----------------------------------------------------------------------------
OptionsInit ==
  /\ Init
  /\ inherited \in Environments
  /\ env = inherited
  /\ file \in DotEnvs
  /\ overridden = FALSE
  /\ settings = NoSettings
  /\ policy = "no_prompt"
  /\ options = <<>>
  /\ outcome = "none"
  /\ steps = 0

Step ==
  /\ pc = "idle"
  /\ steps < MaxSteps /\ steps' = steps + 1
  /\ UNCHANGED vars

(* The new process has the environment it is started with, and the files.  *)
RestartProcess ==
  /\ Restart
  /\ env' = inherited
  /\ overridden' = FALSE
  /\ settings' = NoSettings
  /\ policy' = "no_prompt"
  /\ options' = <<>>
  /\ outcome' = "none"
  /\ UNCHANGED <<inherited, file, steps>>

EditFile ==
  /\ Step
  /\ file' \in DotEnvs
  /\ UNCHANGED <<inherited, env, overridden, settings, policy, options, outcome>>

(* What os.environ holds when the first function is written over the other. *)
Overlay(over, under) ==
  [key \in DOMAIN over \cup DOMAIN under |->
     IF key \in DOMAIN over THEN over[key] ELSE under[key]]

(* Bug: load_dotenv(override=True), as some projects call it. *)
BugMerged(override) == Overlay(file, env)

(* load_dotenv: a variable that is set keeps its value unless overridden.  *)
Merged(override) == IF override THEN Overlay(file, env) ELSE Overlay(env, file)

(* load_settings.  The environment is changed before anything is checked,  *)
(* so a value that is refused stays in it.                                 *)
LoadSettings(override) ==
  /\ Step
  /\ env' = Merged(override)
  /\ overridden' = (overridden \/ override)
  /\ \/ /\ Accepted(SettingsOf(env'))
        /\ settings' = [SettingsOf(env') EXCEPT !.messages = MaxMessages(@)]
        /\ outcome' = "loaded"
     \/ /\ ~Accepted(SettingsOf(env'))
        /\ outcome' = "invalid_settings"
        /\ UNCHANGED settings
  /\ UNCHANGED <<inherited, file, policy, options>>

(* Bug: a prompt's policy overrides the configuration only if it has one.  *)
BugRetention(s, prompt) ==
  IF prompt \notin {"no_prompt", "none"} THEN prompt
  ELSE IF s.retention = "auto" THEN Profile(s.model).retention
  ELSE s.retention

(* _resolve_prompt_cache_retention: the prompt decides when there is one.  *)
Retention(s, prompt) ==
  IF prompt # "no_prompt" THEN prompt
  ELSE IF s.retention = "auto" THEN Profile(s.model).retention
  ELSE s.retention

(* The conditions under which build_openai_responses_options gives an      *)
(* option, whatever the configured provider is.  Those of provider memory  *)
(* look at the settings alone, not at the capabilities of the model.       *)
Passes(s, prompt, name) ==
  LET profile == Profile(s.model) IN
  \/ name = "model"
  \/ name = "reasoning" /\ profile.efforts # {}
  \/ name = "text" /\ profile.verbosity
  \/ /\ name = "prompt_cache_retention"
     /\ profile.retention # "none" /\ Retention(s, prompt) # "none"
  \/ name = "store" /\ s.backend = "openai_responses"
  \/ /\ name = "previous_response_id"
     /\ s.backend = "openai_responses" /\ s.strategy = "previous_response" /\ s.previous # ""
  \/ /\ name = "conversation"
     /\ s.backend = "openai_conversations" /\ s.conversation # ""

Options(s, prompt) ==
  LET values == [model |-> s.model, reasoning |-> s.effort, text |-> s.verbosity,
                 prompt_cache_retention |-> Retention(s, prompt), store |-> s.store,
                 previous_response_id |-> s.previous, conversation |-> s.conversation]
  IN  Restrict(values, {name \in DOMAIN values : Passes(s, prompt, name)})

BuildOptions ==
  /\ Step
  /\ Loaded
  /\ policy' \in {"no_prompt"} \cup {r.prompt.cache : r \in RenderedResults}
  /\ options' = Options(settings, policy')
  /\ outcome' = "options"
  /\ UNCHANGED <<inherited, env, file, overridden, settings>>

(* build_chat_model: only the adapter of OpenAI builds anything.           *)
BuildChatModel ==
  /\ Step
  /\ Loaded
  /\ outcome' =
       IF settings.provider \notin DOMAIN settings.keys THEN "not_implemented"
       ELSE IF settings.keys[settings.provider] = "" THEN "missing_key"
       ELSE IF settings.provider = "openai" THEN "chat_model"
       ELSE "not_implemented"
  /\ UNCHANGED <<inherited, env, file, overridden, settings, policy, options>>

OptionsNext ==
  \/ Serve /\ UNCHANGED configuration
  \/ RestartProcess \/ EditFile \/ BuildOptions \/ BuildChatModel
  \/ \E override \in BOOLEAN : LoadSettings(override)

OptionsSpec == OptionsInit /\ [][OptionsNext]_<<vars, configuration>>

----------------------------------------------------------------------------
(* Settings are of the Literal types once there are any, and the policy of *)
(* a prompt is one a file can have.                                        *)
OptionsTypeOK ==
  /\ inherited \in Environments /\ file \in DotEnvs
  /\ overridden \in BOOLEAN
  /\ steps \in 0 .. MaxSteps
  /\ policy \in {"no_prompt", "none", "in_memory", "24h"}
  /\ outcome \in {"none", "loaded", "invalid_settings", "options",
                  "not_implemented", "missing_key", "chat_model"}
  /\ settings = NoSettings \/
       /\ settings.provider \in ProviderName
       /\ settings.effort \in ReasoningEffort /\ settings.verbosity \in TextVerbosity
       /\ settings.retention \in PromptCacheRetention
       /\ settings.backend \in MemoryBackend /\ settings.strategy \in MemoryStrategy
       /\ settings.messages \in 0 .. MaxNumber \cup {20}

(* The options that a model of the profile takes; every model takes a name *)
(* and the word on whether a response is stored.                           *)
TakenBy(model) ==
  LET profile == Profile(model)
      Flag(name) == CASE name = "reasoning" -> profile.efforts # {}
                      [] name = "text" -> profile.verbosity
                      [] name = "prompt_cache_retention" -> profile.retention # "none"
                      [] name = "previous_response_id" -> profile.previous
                      [] name = "conversation" -> profile.conversations
  IN  {"model", "store"} \cup
      {name \in {"reasoning", "text", "prompt_cache_retention", "previous_response_id",
                 "conversation"} : Flag(name)}

(* The options of a request fit its model and its prompt: a registered     *)
(* model is given nothing its profile does not take, with an effort among  *)
(* its own; a retention is one the provider knows ("auto" is the           *)
(* repository's own word), and when a prompt was rendered it is exactly    *)
(* the one the prompt's policy names, so that a private prompt asks for    *)
(* none (ADR 0003), which leaves the provider's own default; and one kind  *)
(* of provider memory at most is named, for the two are refused together.  *)
(* An unregistered model gets no effort, verbosity or retention.  The code *)
(* does give it a conversation or a previous response that is configured,  *)
(* although its profile has neither capability: nothing is claimed of that.*)
OptionsAreAcceptable ==
  options # <<>> =>
    LET model == options["model"] given == DOMAIN options IN
    /\ model \in DOMAIN OpenaiModelProfiles => given \subseteq TakenBy(model)
    /\ given \ {"previous_response_id", "conversation"} \subseteq TakenBy(model)
    /\ "reasoning" \in given => options["reasoning"] \in Profile(model).efforts
    /\ "prompt_cache_retention" \in given =>
         /\ options["prompt_cache_retention"] \in {"in_memory", "24h"}
         /\ policy # "no_prompt" => options["prompt_cache_retention"] = policy
    /\ ~({"previous_response_id", "conversation"} \subseteq given)

(* The variable that a setting is read from as it stands. *)
SettingOf ==
  [provider |-> "LLM_PROVIDER", model |-> "LLM_MODEL", effort |-> "LLM_REASONING_EFFORT",
   verbosity |-> "LLM_TEXT_VERBOSITY", retention |-> "OPENAI_PROMPT_CACHE_RETENTION",
   backend |-> "MEMORY_BACKEND", strategy |-> "MEMORY_STRATEGY",
   store |-> "MEMORY_STORE_PROVIDER_STATE", conversation |-> "OPENAI_CONVERSATION_ID",
   previous |-> "OPENAI_PREVIOUS_RESPONSE_ID"]

(* A deployment's environment has the last word: until a caller asks for   *)
(* an override no .env file, in whatever order it is edited and loaded and *)
(* whether the load succeeds or not, displaces a variable the process was  *)
(* started with, in the environment or in the settings made from it.  The  *)
(* exception is OPENAI_CHAT_MODEL, which is only the fallback of           *)
(* LLM_MODEL: the environment keeps it, but it names the model only until  *)
(* some file that was loaded has set LLM_MODEL.                            *)
DeploymentDecides ==
  ~overridden =>
    /\ \A key \in DOMAIN inherited : key \in DOMAIN env /\ env[key] = inherited[key]
    /\ Loaded => \A field \in DOMAIN SettingOf :
         SettingOf[field] \in DOMAIN inherited =>
           settings[field] = inherited[SettingOf[field]]
    /\ Loaded => \A p \in DOMAIN settings.keys :
         KeyName(p) \in DOMAIN inherited => settings.keys[p] = inherited[KeyName(p)]
    /\ Loaded /\ "OPENAI_CHAT_MODEL" \in DOMAIN inherited /\ "LLM_MODEL" \notin DOMAIN env =>
         settings.model = inherited["OPENAI_CHAT_MODEL"]
================================================================================
