----------------------------- MODULE PromptEngine -----------------------------
(***************************************************************************)
(* The private prompt engine (prompts/): the catalogue of YAML files, the  *)
(* registry that reads it once per process behind an lru_cache, and        *)
(* render_prompt, which resolves a version, the variables and the text.    *)
(* Files may change at any time, also between two files of one load.       *)
(***************************************************************************)
EXTENDS Integers, Sequences, FiniteSets, Functions

CONSTANTS
  CatalogPaths,   \* the prompt ids of the allowlist, in its order
  Files,          \* what the file of each prompt may hold
  Requests,       \* PromptRenderRequest values
  MaxEdits, MaxRenders  \* bounds on edits and on renders of one process

PromptIds == Range(CatalogPaths)

None == [kind |-> "none", token |-> "None"]
EmptyText == [kind |-> "string", token |-> ""]

(* PromptVariableType, and the kinds a value given by a caller or by a     *)
(* file may be of: "number" is a type and no kind.                         *)
VariableTypes == {"string", "integer", "number", "boolean", "list", "object"}
ValueKinds == {"none", "string", "integer", "float", "boolean", "list", "object", "other"}

(* PromptDefinition, unless "wellformed" is false: unreadable, no YAML     *)
(* object or outside the Literal types.  "text" stands for the templates,  *)
(* "fields" for the replacement fields in them, "odd" for one with an      *)
(* attribute, an index, a format or a conversion, and "cache" is its       *)
(* provider_cache_policy.  An anonymous field, "{}", has the name "".      *)
FileShape(f) ==
  /\ {f.wellformed, f.odd} \subseteq BOOLEAN
  /\ f.messages \in Nat
  /\ f.cache \in {"none", "in_memory", "24h"}
  /\ \A v \in Range(f.variables) :
       /\ v.required \in BOOLEAN
       /\ v.default.kind \in ValueKinds
       /\ f.wellformed => v.type \in VariableTypes

(* The allowlist is a dict of its own, with an entry for every prompt.     *)
ASSUME CatalogAssumption ==
  CatalogPaths \in Seq(PromptIds) /\ CatalogPaths # <<>> /\ IsInjective(CatalogPaths)

ASSUME FilesAssumption ==
  /\ MaxEdits \in Nat /\ MaxRenders \in Nat
  /\ \A p \in PromptIds : \A f \in Files[p] : FileShape(f)

ASSUME RequestsAssumption ==
  /\ Requests # {}
  /\ \A r \in Requests : \A n \in DOMAIN r.variables : r.variables[n].kind \in ValueKinds

VARIABLES
  disk,      \* the file of every prompt
  edits,
  pc,        \* "idle", "loading" or "rendering"
  request,   \* the request served
  loading,   \* the prompts read so far by list_prompt_definitions
  catalog,   \* the value in its lru_cache; empty when there is none
  results    \* outcomes of this process, in order

vars == <<disk, edits, pc, request, loading, catalog, results>>

----------------------------------------------------------------------------
(* validate_prompt_definition, with the extract_placeholders it calls: an  *)
(* anonymous field is passed over.                                         *)
Placeholders(f) == f.fields \ {""}

Declared(f) == {v.name : v \in Range(f.variables)}

ValidDefinition(f) ==
  /\ f.wellformed
  /\ f.messages > 0
  /\ Cardinality(Declared(f)) = Len(f.variables)
  /\ ~f.odd
  /\ Placeholders(f) \subseteq Declared(f)
  /\ \A v \in Range(f.variables) : v.required /\ v.default = None => v.name \in f.fields

(* Bug: isinstance(value, int) alone, which a bool satisfies. *)
BugTypeAccepts(type, kind) ==
  \/ kind = type
  \/ type = "integer" /\ kind = "boolean"
  \/ type = "number" /\ kind \in {"integer", "float"}

(* _validate_type.  A bool is no number here, although Python has it so. *)
TypeAccepts(type, kind) ==
  \/ kind = type
  \/ type = "number" /\ kind \in {"integer", "float"}

(* validate_render_variables: what was supplied, else the default, else, of *)
(* an optional variable, the empty text.                                   *)
Resolved(v, supplied) ==
  IF v.name \in DOMAIN supplied THEN supplied[v.name]
  ELSE IF v.default # None THEN v.default
  ELSE IF v.required THEN None
  ELSE EmptyText

ValidVariables(f, supplied) ==
  /\ DOMAIN supplied \subseteq Declared(f)
  /\ \A v \in Range(f.variables) : TypeAccepts(v.type, Resolved(v, supplied).kind)

(* Names of fields that stand for a positional argument: none, or a number,*)
(* also when a variable of that name is declared and given.                *)
Positional == {"", "0", "1", "2", "3", "4", "5", "6", "7", "8", "9"}

(* template.format is given keywords only. *)
Formats(f) == f.fields \cap Positional = {}

Rendered(f, supplied) ==
  [outcome |-> "rendered", request |-> request, prompt |-> f,
   shown |-> [n \in Placeholders(f) |->
                Resolved(CHOOSE v \in Range(f.variables) : v.name = n, supplied)]]

Failed(outcome) == [outcome |-> outcome, request |-> request]

----------------------------------------------------------------------------
Init ==
  /\ disk \in {d \in [PromptIds -> UNION Range(Files)] : \A p \in PromptIds : d[p] \in Files[p]}
  /\ edits = 0
  /\ pc = "idle"
  /\ request = CHOOSE r \in Requests : TRUE
  /\ loading = <<>>
  /\ catalog = <<>>
  /\ results = <<>>

Edit(p) ==
  /\ edits < MaxEdits
  /\ edits' = edits + 1
  /\ \E f \in Files[p] : disk' = [disk EXCEPT ![p] = f]
  /\ UNCHANGED <<pc, request, loading, catalog, results>>

Restart ==
  /\ results # <<>>
  /\ edits < MaxEdits
  /\ edits' = edits + 1
  /\ pc' = "idle"
  /\ loading' = <<>>
  /\ catalog' = <<>>
  /\ results' = <<>>
  /\ UNCHANGED <<disk, request>>

Finish(result) ==
  /\ pc' = "idle"
  /\ results' = Append(results, result)

Ask ==
  /\ pc = "idle"
  /\ Len(results) < MaxRenders
  /\ request' \in Requests
  /\ pc' = IF catalog = <<>> THEN "loading" ELSE "rendering"
  /\ loading' = <<>>
  /\ UNCHANGED <<disk, edits, catalog, results>>

NextFile == disk[CatalogPaths[Len(loading) + 1]]

LoadPrompt ==
  /\ pc = "loading" /\ Len(loading) < Len(CatalogPaths)
  /\ NextFile.id = CatalogPaths[Len(loading) + 1] /\ ValidDefinition(NextFile)
  /\ loading' = Append(loading, NextFile)
  /\ UNCHANGED <<disk, edits, pc, request, catalog, results>>

(* One bad file fails the load, and a failed load is not kept. *)
LoadFails ==
  /\ pc = "loading" /\ Len(loading) < Len(CatalogPaths)
  /\ ~(NextFile.id = CatalogPaths[Len(loading) + 1] /\ ValidDefinition(NextFile))
  /\ Finish(Failed("invalid_catalog"))
  /\ UNCHANGED <<disk, edits, request, loading, catalog>>

(* Bug: the lru_cache is gone, every call reads the files again. *)
BugKeepCatalog ==
  /\ pc = "loading" /\ Len(loading) = Len(CatalogPaths)
  /\ pc' = "rendering"
  /\ UNCHANGED <<disk, edits, request, loading, catalog, results>>

(* The ids of the prompts are those of the allowlist, so that              *)
(* _validate_unique_prompt_keys finds nothing to refuse.                   *)
KeepCatalog ==
  /\ pc = "loading" /\ Len(loading) = Len(CatalogPaths)
  /\ pc' = "rendering"
  /\ catalog' = loading
  /\ UNCHANGED <<disk, edits, request, loading, results>>

(* get_prompt_definition. *)
Matches(prompts) ==
  {f \in Range(prompts) : f.id = request.id /\ request.version \in {"any", f.version}}

Render ==
  /\ pc = "rendering"
  /\ LET matches == Matches(IF catalog = <<>> THEN loading ELSE catalog) IN
       \/ matches = {} /\ Finish(Failed("not_found"))
       \/ \E f \in matches :
            \/ ~ValidVariables(f, request.variables) /\ Finish(Failed("invalid_variables"))
            \/ /\ ValidVariables(f, request.variables)
               /\ Finish(IF Formats(f) THEN Rendered(f, request.variables)
                                       ELSE Failed("format_error"))
  /\ UNCHANGED <<disk, edits, request, loading, catalog>>

(* A prompt is asked for, and its catalogue is loaded, while the files     *)
(* may be edited.                                                          *)
Serve ==
  \/ \E p \in PromptIds : Edit(p)
  \/ Ask \/ LoadPrompt \/ LoadFails \/ KeepCatalog \/ Render

Next == Serve \/ Restart

(* The renders this process has handed out. *)
RenderedResults == {r \in Range(results) : r.outcome = "rendered"}

Spec == Init /\ [][Next]_vars

----------------------------------------------------------------------------
Prompts == UNION {Files[p] : p \in PromptIds}

(* Whatever is read was in some file of its prompt, and every outcome is   *)
(* that of a request.                                                      *)
EngineTypeOK ==
  /\ disk \in [PromptIds -> Prompts] /\ \A p \in PromptIds : disk[p] \in Files[p]
  /\ edits \in 0 .. MaxEdits
  /\ pc \in {"idle", "loading", "rendering"}
  /\ request \in Requests
  /\ {loading, catalog} \subseteq Seq(Prompts)
  /\ Len(loading) <= Len(CatalogPaths)
  /\ results \in Seq(Range(results)) /\ Len(results) <= MaxRenders
  /\ \A r \in Range(results) :
       /\ r.request \in Requests
       /\ r.outcome \in {"rendered", "invalid_catalog", "not_found",
                          "invalid_variables", "format_error"}

(* A process has one text for a prompt and a version: two renders of it    *)
(* start from one definition although the file was edited between them     *)
(* and its author forgot to raise the version ("deterministic prompt       *)
(* resolution", private-prompt-engine.md), and once a prompt was rendered  *)
(* no later render fails on a file that was broken since.  Renders follow  *)
(* one another here: two threads that load for the first time at once, of  *)
(* which lru_cache keeps one result, are not modelled.                     *)
OneTextPerVersion ==
  /\ \A r, s \in RenderedResults :
       r.prompt.id = s.prompt.id => r.prompt = s.prompt
  /\ \A i, k \in DOMAIN results :
       i < k /\ results[i].outcome = "rendered"
         => results[k].outcome # "invalid_catalog"

(* What a rendered prompt shows in a named field is the caller's value, or *)
(* the catalogue's default, or nothing where the author declared the       *)
(* variable optional; never a truth value for a number, and nothing the    *)
(* caller gave is dropped because the prompt does not know it.             *)
RendersAreResolved ==
  \A r \in RenderedResults :
    /\ DOMAIN r.request.variables \subseteq Declared(r.prompt)
    /\ \A n \in r.prompt.fields \ {""} :
         \E v \in Range(r.prompt.variables) :
           /\ v.name = n
           /\ r.shown[n] # None
           /\ n \in DOMAIN r.request.variables => r.shown[n] = r.request.variables[n]
           /\ n \notin DOMAIN r.request.variables =>
                \/ r.shown[n] = v.default
                \/ ~v.required /\ r.shown[n] = EmptyText
           /\ v.type \in {"integer", "number"} => r.shown[n].kind \in {"integer", "float"}
=============================================================================
