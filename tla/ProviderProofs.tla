---------------------------- MODULE ProviderProofs ----------------------------
(***************************************************************************)
(* Theorems about the prompt engine and about the configuration of the     *)
(* providers that is derived next to it, in one process.                   *)
(***************************************************************************)
EXTENDS ProviderOptions, TLAPS

----------------------------------------------------------------------------
(* Appending: what a sequence holds afterwards.                            *)
LEMMA AppendedSeq ==
  ASSUME NEW s, s \in Seq(Range(s)), NEW x
  PROVE  /\ Append(s, x) \in Seq(Range(Append(s, x)))
         /\ Range(Append(s, x)) = Range(s) \cup {x}
         /\ Len(Append(s, x)) = Len(s) + 1
         /\ \A i \in 1 .. Len(s) : Append(s, x)[i] = s[i]
         /\ Append(s, x)[Len(s) + 1] = x
<1> DEFINE t == Append(s, x)
<1>1. /\ t \in Seq(Range(s) \cup {x}) /\ Len(t) = Len(s) + 1
      /\ DOMAIN t = 1 .. Len(s) + 1 /\ DOMAIN s = 1 .. Len(s) /\ Len(s) \in Nat
      /\ \A i \in 1 .. Len(s) : t[i] = s[i]
      /\ t[Len(s) + 1] = x
  OBVIOUS
<1>2. Range(t) = Range(s) \cup {x}
  <2>1. ASSUME NEW i \in DOMAIN t PROVE t[i] \in Range(s) \cup {x}
    BY <1>1 DEF Range
  <2>2. ASSUME NEW i \in DOMAIN s PROVE s[i] \in Range(t)
    <3>1. i \in DOMAIN t /\ t[i] = s[i]
      BY <1>1
    <3> QED BY <3>1 DEF Range
  <2>3. x \in Range(t)
    <3>1. Len(s) + 1 \in DOMAIN t /\ t[Len(s) + 1] = x
      BY <1>1
    <3> HIDE DEF t
    <3> QED BY <3>1 DEF Range
  <2> HIDE DEF t
  <2> QED BY <2>1, <2>2, <2>3 DEF Range
<1> HIDE DEF t
<1>3. t \in Seq(Range(t))
  BY <1>1, <1>2
<1> QED BY <1>1, <1>2, <1>3 DEF t

----------------------------------------------------------------------------
(* The prompt engine.                                                      *)

(* The prompts of a load so far: the valid files of the allowlist, in its  *)
(* order.                                                                  *)
IsLoad(prompts) ==
  \A i \in 1 .. Len(prompts) :
    /\ i \in DOMAIN CatalogPaths
    /\ prompts[i].id = CatalogPaths[i]
    /\ ValidDefinition(prompts[i])

(* Loading happens only without a catalogue and rendering only with one,   *)
(* and a request that is served has room for its outcome.                  *)
LoadsOnce ==
  /\ IsLoad(loading) /\ IsLoad(catalog)
  /\ pc = "loading" => catalog = <<>>
  /\ pc = "rendering" => catalog # <<>>
  /\ pc # "idle" => Len(results) < MaxRenders

(* A render is one of the catalogue this process still has.                *)
FromCatalog ==
  \A r \in RenderedResults :
    /\ r.prompt \in Range(catalog)
    /\ ValidVariables(r.prompt, r.request.variables)
    /\ r.shown = [n \in Placeholders(r.prompt) |->
         Resolved(CHOOSE v \in Range(r.prompt.variables) : v.name = n, r.request.variables)]

(* No load fails after a render.                                           *)
NoLateFailure ==
  \A i, k \in DOMAIN results :
    i < k /\ results[i].outcome = "rendered" => results[k].outcome # "invalid_catalog"

EngineInv == EngineTypeOK /\ LoadsOnce /\ FromCatalog /\ NoLateFailure

(* A catalogue has at most one prompt of an id, so that get_prompt_definition *)
(* never finds two versions to choose from.                                *)
LEMMA OnePromptPerId ==
  ASSUME NEW prompts, prompts \in Seq(Prompts), IsLoad(prompts),
         NEW f \in Range(prompts), NEW g \in Range(prompts), f.id = g.id
  PROVE  f = g
<1>1. PICK i \in 1 .. Len(prompts), k \in 1 .. Len(prompts) : f = prompts[i] /\ g = prompts[k]
  BY DEF Range
<1>2. i = k
  BY <1>1, CatalogAssumption DEF IsLoad, IsInjective
<1> QED BY <1>1, <1>2

LEMMA EngineInitInv == Init => EngineInv
<1> SUFFICES ASSUME Init PROVE EngineInv
  OBVIOUS
<1>1. EngineTypeOK
  <2>1. disk \in [PromptIds -> Prompts] /\ \A p \in PromptIds : disk[p] \in Files[p]
    BY DEF Init, Prompts
  <2>2. request \in Requests
    BY RequestsAssumption DEF Init
  <2>3. Range(results) = {} /\ results \in Seq(Range(results)) /\ Len(results) = 0
    BY DEF Init, Range
  <2>4. 0 <= Len(CatalogPaths)
    BY CatalogAssumption
  <2> QED BY <2>1, <2>2, <2>3, <2>4, FilesAssumption DEF Init, EngineTypeOK
<1>2. RenderedResults = {}
  BY DEF Init, RenderedResults, Range
<1> QED BY <1>1, <1>2 DEF Init, EngineInv, LoadsOnce, IsLoad, FromCatalog, NoLateFailure

(* An outcome that does not say "rendered" disturbs nothing but the order  *)
(* of failures and renders.                                                *)
LEMMA FinishKeeps ==
  ASSUME EngineInv, NEW result, Finish(result), UNCHANGED <<disk, edits, request, loading, catalog>>,
         Len(results) < MaxRenders,
         result.request = request,
         result.outcome \in {"rendered", "invalid_catalog", "not_found",
                             "invalid_variables", "format_error"}
  PROVE  /\ EngineTypeOK' /\ LoadsOnce'
         /\ RenderedResults' \subseteq
              RenderedResults \cup (IF result.outcome = "rendered" THEN {result} ELSE {})
         /\ (RenderedResults = {} \/ result.outcome # "invalid_catalog") => NoLateFailure'
<1> USE DEF EngineInv
<1>1. /\ results' \in Seq(Range(results'))
      /\ Range(results') = Range(results) \cup {result}
      /\ Len(results') = Len(results) + 1
      /\ \A i \in 1 .. Len(results) : results'[i] = results[i]
      /\ results'[Len(results) + 1] = result
  BY AppendedSeq DEF Finish, EngineTypeOK
<1>2. EngineTypeOK'
  BY <1>1, FilesAssumption DEF EngineTypeOK, Finish
<1>3. LoadsOnce'
  BY DEF LoadsOnce, Finish, IsLoad
<1>4. RenderedResults' \subseteq
        RenderedResults \cup (IF result.outcome = "rendered" THEN {result} ELSE {})
  BY <1>1 DEF RenderedResults
<1>5. ASSUME RenderedResults = {} \/ result.outcome # "invalid_catalog" PROVE NoLateFailure'
  <2> SUFFICES ASSUME NEW i \in DOMAIN results', NEW k \in DOMAIN results', i < k,
                      results'[i].outcome = "rendered"
               PROVE  results'[k].outcome # "invalid_catalog"
    BY DEF NoLateFailure
  <2>1. /\ DOMAIN results' = 1 .. Len(results) + 1 /\ DOMAIN results = 1 .. Len(results)
        /\ Len(results) \in Nat
    BY <1>1 DEF EngineTypeOK
  <2>2. i \in DOMAIN results /\ results[i].outcome = "rendered"
    BY <1>1, <2>1
  <2>3. results[i] \in RenderedResults
    BY <2>2 DEF RenderedResults, Range
  <2>4. CASE k \in DOMAIN results
    BY <1>1, <2>1, <2>2, <2>4 DEF NoLateFailure
  <2>5. CASE k = Len(results) + 1
    BY <1>1, <1>5, <2>3, <2>5
  <2> QED BY <2>1, <2>4, <2>5
<1> QED BY <1>2, <1>3, <1>4, <1>5

(* Without a catalogue nothing has been rendered.                          *)
LEMMA NoCatalogNoRender ==
  ASSUME FromCatalog, catalog = <<>>
  PROVE  RenderedResults = {}
<1>1. Range(catalog) = {}
  BY DEF Range
<1> QED BY <1>1 DEF FromCatalog

LEMMA UnservedKeeps ==
  ASSUME EngineInv, UNCHANGED <<loading, catalog, results, pc, request>>, EngineTypeOK'
  PROVE  EngineInv'
BY DEF EngineInv, LoadsOnce, IsLoad, FromCatalog, RenderedResults, NoLateFailure

LEMMA EditKeeps ==
  ASSUME EngineInv, NEW p \in PromptIds, Edit(p)
  PROVE  EngineInv'
<1>1. PICK f \in Files[p] : disk' = [disk EXCEPT ![p] = f]
  BY DEF Edit
<1>2. f \in Prompts
  BY DEF Prompts
<1>3. disk' \in [PromptIds -> Prompts] /\ \A q \in PromptIds : disk'[q] \in Files[q]
  BY <1>1, <1>2 DEF EngineInv, EngineTypeOK
<1>4. edits' \in 0 .. MaxEdits
  BY FilesAssumption DEF EngineInv, EngineTypeOK, Edit
<1>5. EngineTypeOK'
  BY <1>3, <1>4 DEF EngineInv, EngineTypeOK, Edit
<1> QED BY <1>5, UnservedKeeps DEF Edit

LEMMA RestartKeeps ==
  ASSUME EngineInv, Restart
  PROVE  EngineInv'
<1>1. Range(results') = {} /\ results' \in Seq(Range(results')) /\ Len(results') = 0
  BY DEF Restart, Range
<1>2. 0 <= Len(CatalogPaths)
  BY CatalogAssumption
<1>3. EngineTypeOK'
  BY <1>1, <1>2, FilesAssumption DEF EngineInv, EngineTypeOK, Restart
<1>4. RenderedResults' = {}
  BY <1>1 DEF RenderedResults
<1> QED BY <1>3, <1>4 DEF EngineInv, LoadsOnce, IsLoad, FromCatalog, NoLateFailure, Restart

LEMMA AskKeeps ==
  ASSUME EngineInv, Ask
  PROVE  EngineInv'
<1>1. 0 <= Len(CatalogPaths)
  BY CatalogAssumption
<1>2. EngineTypeOK'
  BY <1>1 DEF EngineInv, EngineTypeOK, Ask
<1>3. LoadsOnce'
  BY DEF EngineInv, LoadsOnce, IsLoad, Ask
<1> QED BY <1>2, <1>3 DEF EngineInv, FromCatalog, RenderedResults, NoLateFailure, Ask

LEMMA LoadPromptKeeps ==
  ASSUME EngineInv, LoadPrompt
  PROVE  EngineInv'
<1> DEFINE next == Len(loading) + 1
<1>1. /\ loading \in Seq(Prompts) /\ Len(loading) \in Nat
      /\ next \in 1 .. Len(CatalogPaths) /\ next \in DOMAIN CatalogPaths
  BY CatalogAssumption DEF EngineInv, EngineTypeOK, LoadPrompt
<1>2. CatalogPaths[next] \in PromptIds
  BY <1>1 DEF PromptIds, Range
<1>3. NextFile \in Prompts
  BY <1>2 DEF NextFile, EngineInv, EngineTypeOK
<1>4. /\ loading' \in Seq(Prompts) /\ Len(loading') = next
      /\ \A i \in 1 .. Len(loading) : loading'[i] = loading[i]
      /\ loading'[next] = NextFile
  BY <1>1, <1>3 DEF LoadPrompt
<1>5. EngineTypeOK'
  BY <1>1, <1>4 DEF EngineInv, EngineTypeOK, LoadPrompt
<1>6. IsLoad(loading')
  <2> SUFFICES ASSUME NEW i \in 1 .. Len(loading')
               PROVE  /\ i \in DOMAIN CatalogPaths
                      /\ loading'[i].id = CatalogPaths[i]
                      /\ ValidDefinition(loading'[i])
    BY DEF IsLoad
  <2>1. CASE i = next
    BY <1>1, <1>4, <2>1 DEF LoadPrompt
  <2>2. CASE i # next
    <3>1. i \in 1 .. Len(loading)
      BY <1>1, <1>4, <2>2
    <3> QED BY <1>4, <3>1 DEF EngineInv, LoadsOnce, IsLoad
  <2> QED BY <2>1, <2>2
<1>7. LoadsOnce'
  BY <1>6 DEF EngineInv, LoadsOnce, LoadPrompt, IsLoad
<1> QED BY <1>5, <1>7 DEF EngineInv, FromCatalog, RenderedResults, NoLateFailure, LoadPrompt

LEMMA LoadFailsKeeps ==
  ASSUME EngineInv, LoadFails
  PROVE  EngineInv'
<1>1. RenderedResults = {}
  BY NoCatalogNoRender DEF EngineInv, LoadsOnce, LoadFails
<1>2. Len(results) < MaxRenders
  BY DEF EngineInv, LoadsOnce, LoadFails
<1>3. /\ EngineTypeOK' /\ LoadsOnce' /\ NoLateFailure'
      /\ RenderedResults' \subseteq RenderedResults
  <2> DEFINE result == Failed("invalid_catalog")
  <2>1. result.request = request /\ result.outcome = "invalid_catalog"
    BY DEF Failed
  <2> HIDE DEF result
  <2>2. Finish(result) /\ UNCHANGED <<disk, edits, request, loading, catalog>>
    BY DEF LoadFails, result
  <2> QED BY <1>1, <1>2, <2>1, <2>2, FinishKeeps
<1>4. FromCatalog'
  BY <1>1, <1>3 DEF FromCatalog
<1> QED BY <1>3, <1>4 DEF EngineInv

LEMMA KeepCatalogKeeps ==
  ASSUME EngineInv, KeepCatalog
  PROVE  EngineInv'
<1>1. RenderedResults = {}
  BY NoCatalogNoRender DEF EngineInv, LoadsOnce, KeepCatalog
<1>2. EngineTypeOK'
  BY DEF EngineInv, EngineTypeOK, KeepCatalog
<1>3. loading # <<>>
  BY CatalogAssumption DEF EngineInv, EngineTypeOK, KeepCatalog
<1>4. LoadsOnce'
  BY <1>3 DEF EngineInv, LoadsOnce, IsLoad, KeepCatalog
<1>5. FromCatalog' /\ NoLateFailure'
  BY <1>1 DEF EngineInv, FromCatalog, RenderedResults, NoLateFailure, KeepCatalog
<1> QED BY <1>2, <1>4, <1>5 DEF EngineInv

LEMMA RenderKeeps ==
  ASSUME EngineInv, Render
  PROVE  EngineInv'
<1> DEFINE supplied == request.variables
<1>1. catalog # <<>> /\ Len(results) < MaxRenders
  BY DEF EngineInv, LoadsOnce, Render
<1>2. PICK result :
        /\ Finish(result)
        /\ \/ \E o \in {"not_found", "invalid_variables", "format_error"} : result = Failed(o)
           \/ \E f \in Range(catalog) :
                result = Rendered(f, supplied) /\ ValidVariables(f, supplied)
  BY <1>1 DEF Render, Matches
<1>3. /\ result.request = request
      /\ result.outcome \in {"rendered", "not_found", "invalid_variables", "format_error"}
  BY <1>2 DEF Failed, Rendered
<1>4. /\ EngineTypeOK' /\ LoadsOnce' /\ NoLateFailure'
      /\ RenderedResults' \subseteq
           RenderedResults \cup (IF result.outcome = "rendered" THEN {result} ELSE {})
  BY <1>1, <1>2, <1>3, FinishKeeps DEF Render
<1>5. FromCatalog'
  <2> SUFFICES ASSUME NEW r \in RenderedResults'
               PROVE  /\ r.prompt \in Range(catalog)
                      /\ ValidVariables(r.prompt, r.request.variables)
                      /\ r.shown = [n \in Placeholders(r.prompt) |->
                           Resolved(CHOOSE v \in Range(r.prompt.variables) : v.name = n,
                                    r.request.variables)]
    BY DEF FromCatalog, Render
  <2>1. CASE r \in RenderedResults
    BY <2>1 DEF EngineInv, FromCatalog
  <2>2. CASE r = result /\ result.outcome = "rendered"
    <3>1. PICK f \in Range(catalog) :
            result = Rendered(f, supplied) /\ ValidVariables(f, supplied)
      BY <1>2, <2>2 DEF Failed
    <3>2. r.prompt = f /\ r.request = request
          /\ r.shown = [n \in Placeholders(f) |->
               Resolved(CHOOSE v \in Range(f.variables) : v.name = n, supplied)]
      BY <2>2, <3>1 DEF Rendered
    <3> QED BY <3>1, <3>2
  <2> QED BY <1>4, <2>1, <2>2
<1> QED BY <1>4, <1>5 DEF EngineInv

LEMMA EngineStep == EngineInv /\ [Next]_vars => EngineInv'
<1> SUFFICES ASSUME EngineInv, [Next]_vars PROVE EngineInv'
  OBVIOUS
<1>1. ASSUME NEW p \in PromptIds, Edit(p) PROVE EngineInv'
  BY <1>1, EditKeeps
<1>2. CASE Ask
  BY <1>2, AskKeeps
<1>3. CASE LoadPrompt
  BY <1>3, LoadPromptKeeps
<1>4. CASE LoadFails
  BY <1>4, LoadFailsKeeps
<1>5. CASE KeepCatalog
  BY <1>5, KeepCatalogKeeps
<1>6. CASE Render
  BY <1>6, RenderKeeps
<1>7. CASE Restart
  BY <1>7, RestartKeeps
<1>8. CASE UNCHANGED vars
  <2>1. EngineTypeOK'
    BY <1>8 DEF vars, EngineInv, EngineTypeOK
  <2> QED BY <1>8, <2>1, UnservedKeeps DEF vars
<1> QED BY <1>1, <1>2, <1>3, <1>4, <1>5, <1>6, <1>7, <1>8 DEF Next, Serve

(* The engine alone is a part of the process that also derives options:    *)
(* what they do leaves its state alone.                                    *)
LEMMA StepIsEngineStep == [OptionsNext]_<<vars, configuration>> => [Next]_vars
BY DEF OptionsNext, Next, RestartProcess, EditFile, BuildOptions, BuildChatModel,
       LoadSettings, Step

(* Every behaviour of the process is one of the prompt engine: no load of  *)
(* settings, no derivation of options and no edit of a .env file between   *)
(* two of its steps changes what a prompt resolves to.                     *)
THEOREM EngineIsUndisturbed == OptionsSpec => Spec
<1>1. OptionsInit => Init
  BY DEF OptionsInit
<1> QED BY <1>1, StepIsEngineStep, PTL DEF OptionsSpec, Spec

(* The inductive invariant of the engine: what has been read is a prefix   *)
(* of a load, what has been rendered is of the catalogue that was kept.    *)
THEOREM EngineInvariance == Spec => []EngineInv
BY EngineInitInv, EngineStep, PTL DEF Spec

(* What the registry reads and what render_prompt returns is of its type.  *)
THEOREM EngineTypeCorrect == Spec => []EngineTypeOK
<1>1. EngineInv => EngineTypeOK
  BY DEF EngineInv
<1> QED BY <1>1, EngineInvariance, PTL

LEMMA OneText == EngineInv => OneTextPerVersion
<1> SUFFICES ASSUME EngineInv PROVE OneTextPerVersion
  OBVIOUS
<1>1. ASSUME NEW r \in RenderedResults, NEW s \in RenderedResults, r.prompt.id = s.prompt.id
      PROVE  r.prompt = s.prompt
  <2>1. r.prompt \in Range(catalog) /\ s.prompt \in Range(catalog)
    BY DEF EngineInv, FromCatalog
  <2>2. catalog \in Seq(Prompts) /\ IsLoad(catalog)
    BY DEF EngineInv, EngineTypeOK, LoadsOnce
  <2> QED BY <1>1, <2>1, <2>2, OnePromptPerId
<1>2. NoLateFailure
  BY DEF EngineInv
<1> QED BY <1>1, <1>2 DEF OneTextPerVersion, NoLateFailure

(* get_prompt_definition's "version must be explicit" is never reached:    *)
(* whatever the request, at most one prompt of a catalogue matches it.     *)
LEMMA MatchIsUnique ==
  ASSUME EngineInv, NEW f \in Matches(catalog), NEW g \in Matches(catalog)
  PROVE  f = g
<1>1. catalog \in Seq(Prompts) /\ IsLoad(catalog)
  BY DEF EngineInv, EngineTypeOK, LoadsOnce
<1> QED BY <1>1, OnePromptPerId DEF Matches

(* Matches has one element at most in every reachable state, so that the   *)
(* choice Render makes is none: a request decides its outcome.             *)
THEOREM VersionIsNeverAmbiguous ==
  Spec => [](\A f, g \in Matches(catalog) : f = g)
<1>1. EngineInv => \A f, g \in Matches(catalog) : f = g
  BY MatchIsUnique
<1> QED BY <1>1, EngineInvariance, PTL

(* Two renders of a prompt id by one process start from one definition,    *)
(* and no load fails after a render, whatever is edited in between.        *)
THEOREM OneTextAlways == OptionsSpec => []OneTextPerVersion
BY OneText, EngineInvariance, EngineIsUndisturbed, PTL

----------------------------------------------------------------------------
(* What a variable resolves to once its type was checked.                  *)
LEMMA KindIsNoType ==
  ASSUME NEW f \in Prompts, f.wellformed, NEW v \in Range(f.variables),
         NEW r \in Requests, TypeAccepts(v.type, Resolved(v, r.variables).kind)
  PROVE  LET value == Resolved(v, r.variables) IN
         /\ value # None
         /\ v.name \in DOMAIN r.variables => value = r.variables[v.name]
         /\ v.name \notin DOMAIN r.variables =>
              \/ value = v.default
              \/ ~v.required /\ value = EmptyText
         /\ v.type \in {"integer", "number"} => value.kind \in {"integer", "float"}
<1> DEFINE value == Resolved(v, r.variables)
<1>1. FileShape(f)
  BY FilesAssumption DEF Prompts
<1>2. v.type \in VariableTypes /\ v.default.kind \in ValueKinds
  BY <1>1 DEF FileShape
<1>3. value.kind \in ValueKinds
  BY <1>2, RequestsAssumption DEF Resolved, ValueKinds, None, EmptyText
<1>4. value.kind # "none"
  BY <1>2 DEF TypeAccepts, VariableTypes
<1>5. value # None
  BY <1>4 DEF None
<1>6. v.type \in {"integer", "number"} => value.kind \in {"integer", "float"}
  BY <1>3 DEF TypeAccepts, ValueKinds
<1>7. /\ v.name \in DOMAIN r.variables => value = r.variables[v.name]
      /\ v.name \notin DOMAIN r.variables =>
           \/ value = v.default
           \/ ~v.required /\ value = EmptyText
  BY <1>1, <1>5 DEF Resolved, FileShape
<1> QED BY <1>5, <1>6, <1>7

LEMMA Resolves == EngineInv => RendersAreResolved
<1> SUFFICES ASSUME EngineInv, NEW r \in RenderedResults
             PROVE  /\ DOMAIN r.request.variables \subseteq Declared(r.prompt)
                    /\ \A n \in r.prompt.fields \ {""} :
                         \E v \in Range(r.prompt.variables) :
                           /\ v.name = n
                           /\ r.shown[n] # None
                           /\ n \in DOMAIN r.request.variables =>
                                r.shown[n] = r.request.variables[n]
                           /\ n \notin DOMAIN r.request.variables =>
                                \/ r.shown[n] = v.default
                                \/ ~v.required /\ r.shown[n] = EmptyText
                           /\ v.type \in {"integer", "number"} =>
                                r.shown[n].kind \in {"integer", "float"}
  BY DEF RendersAreResolved
<1> DEFINE f == r.prompt
           supplied == r.request.variables
<1>1. /\ f \in Range(catalog) /\ ValidVariables(f, supplied)
      /\ r.shown = [n \in Placeholders(f) |->
           Resolved(CHOOSE v \in Range(f.variables) : v.name = n, supplied)]
  BY DEF EngineInv, FromCatalog
<1>2. f \in Prompts /\ ValidDefinition(f)
  <2>1. catalog \in Seq(Prompts) /\ IsLoad(catalog)
    BY DEF EngineInv, EngineTypeOK, LoadsOnce
  <2>2. PICK i \in 1 .. Len(catalog) : f = catalog[i]
    BY <1>1, <2>1 DEF Range
  <2> QED BY <2>1, <2>2 DEF IsLoad
<1>3. r.request \in Requests
  BY DEF EngineInv, EngineTypeOK, RenderedResults
<1>4. ASSUME NEW n \in f.fields \ {""}
      PROVE  \E v \in Range(f.variables) :
               /\ v.name = n
               /\ r.shown[n] # None
               /\ n \in DOMAIN supplied => r.shown[n] = supplied[n]
               /\ n \notin DOMAIN supplied =>
                    \/ r.shown[n] = v.default
                    \/ ~v.required /\ r.shown[n] = EmptyText
               /\ v.type \in {"integer", "number"} => r.shown[n].kind \in {"integer", "float"}
  <2>1. n \in Placeholders(f) /\ n \in Declared(f)
    BY <1>2 DEF ValidDefinition, Placeholders
  <2> DEFINE w == CHOOSE v \in Range(f.variables) : v.name = n
  <2>2. w \in Range(f.variables) /\ w.name = n
    BY <2>1 DEF Declared
  <2>3. r.shown[n] = Resolved(w, supplied)
    BY <1>1, <2>1
  <2>4. TypeAccepts(w.type, Resolved(w, supplied).kind) /\ f.wellformed
    BY <1>1, <1>2, <2>2 DEF ValidVariables, ValidDefinition
  <2> HIDE DEF w, f
  <2>5. /\ r.shown[n] # None
        /\ w.name \in DOMAIN supplied => r.shown[n] = supplied[w.name]
        /\ w.name \notin DOMAIN supplied =>
             \/ r.shown[n] = w.default
             \/ ~w.required /\ r.shown[n] = EmptyText
        /\ w.type \in {"integer", "number"} => r.shown[n].kind \in {"integer", "float"}
    BY <1>2, <1>3, <2>2, <2>3, <2>4, KindIsNoType
  <2> QED BY <2>2, <2>5
<1> QED BY <1>1, <1>4 DEF ValidVariables

(* A field of a rendered prompt shows the caller's value, the default or,  *)
(* of an optional variable, nothing, and a number where one is declared.   *)
THEOREM RendersResolve == OptionsSpec => []RendersAreResolved
BY Resolves, EngineInvariance, EngineIsUndisturbed, PTL

----------------------------------------------------------------------------
(* Settings and options.                                                   *)

(* A registered model has all the efforts or none, and one that has no     *)
(* profile has no capability; provider memory is known to the registered.  *)
LEMMA ProfileShape ==
  ASSUME NEW model
  PROVE  /\ Profile(model).efforts \in {{}, ReasoningEffort}
         /\ Profile(model).retention \in {"none", "in_memory", "24h"}
         /\ model \notin DOMAIN OpenaiModelProfiles =>
              /\ Profile(model).efforts = {} /\ ~Profile(model).verbosity
              /\ Profile(model).retention = "none"
         /\ model \in DOMAIN OpenaiModelProfiles =>
              Profile(model).previous /\ Profile(model).conversations
<1>1. CASE model \notin DOMAIN OpenaiModelProfiles
  BY <1>1 DEF Profile, CustomProfile
<1>2. CASE model = "gpt-5.5"
  BY <1>2 DEF Profile, OpenaiModelProfiles, ReasoningModel
<1>3. CASE model \in {"gpt-5.4", "gpt-5.4-mini"}
  BY <1>3 DEF Profile, OpenaiModelProfiles, ReasoningModel
<1>4. CASE model = "gpt-4.1"
  BY <1>4 DEF Profile, OpenaiModelProfiles
<1> QED BY <1>1, <1>2, <1>3, <1>4 DEF OpenaiModelProfiles

(* The policy of a render is one a file can have.                          *)
LEMMA PolicyOfRender ==
  ASSUME EngineInv, NEW r \in RenderedResults
  PROVE  r.prompt.cache \in {"none", "in_memory", "24h"}
<1>1. r.prompt \in Range(catalog) /\ catalog \in Seq(Prompts)
  BY DEF EngineInv, EngineTypeOK, FromCatalog
<1>2. r.prompt \in Prompts
  BY <1>1 DEF Range
<1> QED BY <1>2, FilesAssumption DEF Prompts, FileShape

(* What the options of settings promise, given the policy of a prompt.     *)
Acceptable(opts, prompt) ==
  LET model == opts["model"] given == DOMAIN opts IN
  /\ model \in DOMAIN OpenaiModelProfiles => given \subseteq TakenBy(model)
  /\ given \ {"previous_response_id", "conversation"} \subseteq TakenBy(model)
  /\ "reasoning" \in given => opts["reasoning"] \in Profile(model).efforts
  /\ "prompt_cache_retention" \in given =>
       /\ opts["prompt_cache_retention"] \in {"in_memory", "24h"}
       /\ prompt # "no_prompt" => opts["prompt_cache_retention"] = prompt
  /\ ~({"previous_response_id", "conversation"} \subseteq given)

LEMMA OptionsAccept ==
  ASSUME NEW s, s.effort \in ReasoningEffort, s.retention \in PromptCacheRetention,
         NEW prompt \in {"no_prompt", "none", "in_memory", "24h"}
  PROVE  Acceptable(Options(s, prompt), prompt)
<1> DEFINE opts == Options(s, prompt)
<1>1. /\ \A name \in DOMAIN opts : Passes(s, prompt, name)
      /\ "model" \in DOMAIN opts /\ opts["model"] = s.model
      /\ "reasoning" \in DOMAIN opts => opts["reasoning"] = s.effort
      /\ "prompt_cache_retention" \in DOMAIN opts =>
           opts["prompt_cache_retention"] = Retention(s, prompt)
  BY DEF Options, Restrict, Passes
<1> HIDE DEF opts
<1>2. "reasoning" \in DOMAIN opts => opts["reasoning"] \in Profile(s.model).efforts
  <2>1. "reasoning" \in DOMAIN opts => Profile(s.model).efforts # {}
    BY <1>1 DEF Passes
  <2> QED BY <1>1, <2>1, ProfileShape
<1>3. /\ s.model \in DOMAIN OpenaiModelProfiles => DOMAIN opts \subseteq TakenBy(s.model)
      /\ DOMAIN opts \ {"previous_response_id", "conversation"} \subseteq TakenBy(s.model)
  <2>1. ASSUME NEW name \in DOMAIN opts,
               name \in {"previous_response_id", "conversation"} =>
                 s.model \in DOMAIN OpenaiModelProfiles
        PROVE  name \in TakenBy(s.model)
    <3>1. Passes(s, prompt, name)
      BY <1>1
    <3>2. CASE name \in {"model", "store"}
      BY <3>2 DEF TakenBy
    <3>3. CASE name = "reasoning"
      BY <3>1, <3>3 DEF TakenBy, Passes
    <3>4. CASE name = "text"
      BY <3>1, <3>4 DEF TakenBy, Passes
    <3>5. CASE name = "prompt_cache_retention"
      BY <3>1, <3>5 DEF TakenBy, Passes
    <3>6. CASE name = "previous_response_id"
      BY <2>1, <3>6, ProfileShape DEF TakenBy
    <3>7. CASE name = "conversation"
      BY <2>1, <3>7, ProfileShape DEF TakenBy
    <3> QED BY <3>1, <3>2, <3>3, <3>4, <3>5, <3>6, <3>7 DEF Passes
  <2> QED BY <2>1
<1>4. ASSUME "prompt_cache_retention" \in DOMAIN opts
      PROVE  /\ Retention(s, prompt) \in {"in_memory", "24h"}
             /\ prompt # "no_prompt" => Retention(s, prompt) = prompt
  <2>1. Profile(s.model).retention # "none" /\ Retention(s, prompt) # "none"
    BY <1>1, <1>4 DEF Passes
  <2> QED BY <2>1, ProfileShape DEF Retention, PromptCacheRetention
<1>5. ~({"previous_response_id", "conversation"} \subseteq DOMAIN opts)
  BY <1>1 DEF Passes
<1> QED BY <1>1, <1>2, <1>3, <1>4, <1>5 DEF Acceptable, opts

(* Settings that were loaded are those of the environment, but for the     *)
(* number of messages, and of their types.                                 *)
LEMMA LoadedSettings ==
  ASSUME NEW e, Accepted(SettingsOf(e)),
         NEW s, s = [SettingsOf(e) EXCEPT !.messages = MaxMessages(@)]
  PROVE  /\ \A field \in DOMAIN SettingOf : s[field] = SettingsOf(e)[field]
         /\ s.keys = SettingsOf(e).keys
         /\ s.provider \in ProviderName
         /\ s.effort \in ReasoningEffort /\ s.verbosity \in TextVerbosity
         /\ s.retention \in PromptCacheRetention
         /\ s.backend \in MemoryBackend /\ s.strategy \in MemoryStrategy
         /\ s.messages \in 0 .. MaxNumber \cup {20}
<1>0. /\ \A field \in DOMAIN SettingOf : s[field] = SettingsOf(e)[field]
      /\ s.keys = SettingsOf(e).keys
  <2>1. DOMAIN SettingsOf(e) =
          {"provider", "model", "keys", "effort", "verbosity", "retention", "backend",
           "strategy", "messages", "store", "conversation", "previous"}
    BY DEF SettingsOf
  <2>2. DOMAIN SettingOf =
          {"provider", "model", "effort", "verbosity", "retention", "backend", "strategy",
           "store", "conversation", "previous"}
    BY DEF SettingOf
  <2>3. \A field \in DOMAIN SettingsOf(e) \ {"messages"} : s[field] = SettingsOf(e)[field]
    <3> HIDE DEF SettingsOf
    <3> QED OBVIOUS
  <2>4. \A field \in DOMAIN SettingOf : field \in DOMAIN SettingsOf(e) \ {"messages"}
    BY <2>1, <2>2
  <2> QED BY <2>1, <2>3, <2>4, Zenon
<1>1. /\ s.model = SettingsOf(e).model /\ s.provider = SettingsOf(e).provider
      /\ s.effort = SettingsOf(e).effort /\ s.verbosity = SettingsOf(e).verbosity
      /\ s.retention = SettingsOf(e).retention
      /\ s.backend = SettingsOf(e).backend /\ s.strategy = SettingsOf(e).strategy
      /\ s.messages = MaxMessages(SettingsOf(e).messages)
  BY DEF SettingsOf
<1>2. SettingsOf(e).messages \in Numerals \cup {""}
  BY DEF Accepted
<1>3. MaxMessages(SettingsOf(e).messages) \in 0 .. MaxNumber \cup {20}
  BY <1>2 DEF MaxMessages, Numerals
<1> QED BY <1>0, <1>1, <1>3 DEF Accepted

(* A setting read from a variable is the variable where it is set.         *)
LEMMA SettingsReadTheirVariables ==
  ASSUME NEW e
  PROVE  /\ \A field \in DOMAIN SettingOf : SettingOf[field] \in DOMAIN e =>
              SettingsOf(e)[field] = e[SettingOf[field]]
         /\ \A p \in DOMAIN SettingsOf(e).keys : KeyName(p) \in DOMAIN e =>
              SettingsOf(e).keys[p] = e[KeyName(p)]
         /\ "LLM_MODEL" \notin DOMAIN e /\ "OPENAI_CHAT_MODEL" \in DOMAIN e =>
              SettingsOf(e).model = e["OPENAI_CHAT_MODEL"]
<1>1. \A field \in DOMAIN SettingOf : SettingOf[field] \in DOMAIN e =>
        SettingsOf(e)[field] = e[SettingOf[field]]
  <2> SUFFICES ASSUME NEW field \in DOMAIN SettingOf
               PROVE  \E default : SettingsOf(e)[field] = Getenv(e, SettingOf[field], default)
    BY DEF Getenv
  <2>1. DOMAIN SettingOf =
          {"provider", "model", "effort", "verbosity", "retention", "backend", "strategy",
           "store", "conversation", "previous"}
    BY DEF SettingOf
  <2>2. CASE field = "provider"
    BY <2>2 DEF SettingsOf, SettingOf
  <2>3. CASE field = "model"
    BY <2>3 DEF SettingsOf, SettingOf
  <2>4. CASE field = "effort"
    BY <2>4 DEF SettingsOf, SettingOf
  <2>5. CASE field = "verbosity"
    BY <2>5 DEF SettingsOf, SettingOf
  <2>6. CASE field = "retention"
    BY <2>6 DEF SettingsOf, SettingOf
  <2>7. CASE field = "backend"
    BY <2>7 DEF SettingsOf, SettingOf
  <2>8. CASE field = "strategy"
    BY <2>8 DEF SettingsOf, SettingOf
  <2>9. CASE field = "store"
    BY <2>9 DEF SettingsOf, SettingOf
  <2>10. CASE field = "conversation"
    BY <2>10 DEF SettingsOf, SettingOf
  <2>11. CASE field = "previous"
    BY <2>11 DEF SettingsOf, SettingOf
  <2> QED BY <2>1, <2>2, <2>3, <2>4, <2>5, <2>6, <2>7, <2>8, <2>9, <2>10, <2>11
<1>2. \A p \in DOMAIN SettingsOf(e).keys : KeyName(p) \in DOMAIN e =>
        SettingsOf(e).keys[p] = e[KeyName(p)]
  BY DEF SettingsOf, Getenv
<1>3. "LLM_MODEL" \notin DOMAIN e /\ "OPENAI_CHAT_MODEL" \in DOMAIN e =>
        SettingsOf(e).model = e["OPENAI_CHAT_MODEL"]
  BY DEF SettingsOf, Getenv
<1> QED BY <1>1, <1>2, <1>3

LEMMA NothingLoaded == NoSettings.provider = ""
BY DEF NoSettings, SettingsOf

(* What a deployment asks of settings that were read from e.               *)
ReadFrom(s, e) ==
  /\ \A field \in DOMAIN SettingOf :
       SettingOf[field] \in DOMAIN inherited => s[field] = inherited[SettingOf[field]]
  /\ \A p \in DOMAIN s.keys :
       KeyName(p) \in DOMAIN inherited => s.keys[p] = inherited[KeyName(p)]
  /\ "OPENAI_CHAT_MODEL" \in DOMAIN inherited /\ "LLM_MODEL" \notin DOMAIN e =>
       s.model = inherited["OPENAI_CHAT_MODEL"]

OptionsInv ==
  /\ OptionsTypeOK
  /\ options # <<>> => Acceptable(options, policy)
  /\ DeploymentDecides

LEMMA OptionsInitInv == OptionsInit => OptionsInv
<1> SUFFICES ASSUME OptionsInit PROVE OptionsInv
  OBVIOUS
<1>1. OptionsTypeOK
  <2>1. overridden \in BOOLEAN
    BY DEF OptionsInit
  <2>2. steps \in 0 .. MaxSteps
    BY BoundsAssumption DEF OptionsInit
  <2> QED BY <2>1, <2>2 DEF OptionsInit, OptionsTypeOK
<1>2. DeploymentDecides
  BY NothingLoaded DEF OptionsInit, DeploymentDecides, Loaded
<1> QED BY <1>1, <1>2 DEF OptionsInv, OptionsInit

LEMMA LoadSettingsKeeps ==
  ASSUME OptionsInv, NEW override \in BOOLEAN, LoadSettings(override)
  PROVE  OptionsInv'
<1>1. settings' = settings \/
        /\ Accepted(SettingsOf(env'))
        /\ settings' = [SettingsOf(env') EXCEPT !.messages = MaxMessages(@)]
  BY DEF LoadSettings
<1>2. OptionsTypeOK'
  <2>1. steps' \in 0 .. MaxSteps /\ overridden' \in BOOLEAN
    BY BoundsAssumption DEF OptionsInv, OptionsTypeOK, LoadSettings, Step
  <2>2. CASE settings' = settings
    BY <2>1, <2>2 DEF OptionsInv, OptionsTypeOK, LoadSettings
  <2>3. CASE settings' # settings
    <3>1. /\ settings'.provider \in ProviderName
          /\ settings'.effort \in ReasoningEffort /\ settings'.verbosity \in TextVerbosity
          /\ settings'.retention \in PromptCacheRetention
          /\ settings'.backend \in MemoryBackend /\ settings'.strategy \in MemoryStrategy
          /\ settings'.messages \in 0 .. MaxNumber \cup {20}
      BY <1>1, <2>3, LoadedSettings
    <3> QED BY <2>1, <3>1 DEF OptionsInv, OptionsTypeOK, LoadSettings
  <2> QED BY <2>2, <2>3
<1>3. DeploymentDecides'
  <2> SUFFICES ASSUME ~overridden'
               PROVE  /\ \A key \in DOMAIN inherited :
                           key \in DOMAIN env' /\ env'[key] = inherited[key]
                      /\ Loaded' => ReadFrom(settings', env')
    BY DEF DeploymentDecides, LoadSettings, ReadFrom
  <2>1. ~overridden /\ ~override
    BY DEF LoadSettings
  <2>2. env' = Overlay(env, file)
    BY <2>1 DEF LoadSettings, Merged
  <2>3. ASSUME NEW key \in DOMAIN inherited
        PROVE  key \in DOMAIN env' /\ env'[key] = inherited[key]
    <3>1. key \in DOMAIN env /\ env[key] = inherited[key]
      BY <2>1 DEF OptionsInv, DeploymentDecides
    <3> QED BY <2>2, <3>1 DEF Overlay
  <2>4. ASSUME Loaded' PROVE ReadFrom(settings', env')
    <3>1. CASE settings' = settings
      <4>1. ReadFrom(settings, env)
        BY <2>1, <2>4, <3>1 DEF OptionsInv, DeploymentDecides, Loaded, ReadFrom
      <4>2. "LLM_MODEL" \notin DOMAIN env' => "LLM_MODEL" \notin DOMAIN env
        BY <2>2 DEF Overlay
      <4> QED BY <3>1, <4>1, <4>2 DEF ReadFrom
    <3>2. CASE settings' # settings
      <4>1. /\ \A field \in DOMAIN SettingOf : settings'[field] = SettingsOf(env')[field]
            /\ settings'.keys = SettingsOf(env').keys
        BY <1>1, <3>2, LoadedSettings
      <4>2. settings'.model = SettingsOf(env').model
        BY <4>1 DEF SettingOf
      <4> QED BY <2>3, <4>1, <4>2, SettingsReadTheirVariables DEF ReadFrom
    <3> QED BY <3>1, <3>2
  <2> QED BY <2>3, <2>4
<1> QED BY <1>2, <1>3 DEF OptionsInv, LoadSettings

LEMMA BuildOptionsKeeps ==
  ASSUME EngineInv, OptionsInv, BuildOptions
  PROVE  OptionsInv'
<1>1. policy' \in {"no_prompt", "none", "in_memory", "24h"}
  BY PolicyOfRender DEF BuildOptions
<1>2. settings.effort \in ReasoningEffort /\ settings.retention \in PromptCacheRetention
  BY NothingLoaded DEF OptionsInv, OptionsTypeOK, BuildOptions, Loaded
<1>3. Acceptable(options', policy')
  BY <1>1, <1>2, OptionsAccept DEF BuildOptions
<1>4. OptionsTypeOK'
  BY <1>1, BoundsAssumption DEF OptionsInv, OptionsTypeOK, BuildOptions, Step
<1>5. DeploymentDecides'
  BY DEF OptionsInv, DeploymentDecides, Loaded, BuildOptions
<1> QED BY <1>3, <1>4, <1>5 DEF OptionsInv

LEMMA OptionsStep ==
  EngineInv /\ OptionsInv /\ [OptionsNext]_<<vars, configuration>> => OptionsInv'
<1> SUFFICES ASSUME EngineInv, OptionsInv, [OptionsNext]_<<vars, configuration>>
             PROVE  OptionsInv'
  OBVIOUS
<1>1. CASE UNCHANGED configuration
  BY <1>1 DEF configuration, OptionsInv, OptionsTypeOK, DeploymentDecides, Loaded
<1>2. CASE RestartProcess
  <2>1. OptionsTypeOK'
    BY <1>2 DEF OptionsInv, OptionsTypeOK, RestartProcess
  <2>2. DeploymentDecides'
    BY <1>2, NothingLoaded DEF DeploymentDecides, Loaded, RestartProcess
  <2> QED BY <1>2, <2>1, <2>2 DEF OptionsInv, RestartProcess
<1>3. CASE EditFile
  <2>1. OptionsTypeOK'
    BY <1>3, BoundsAssumption DEF OptionsInv, OptionsTypeOK, EditFile, Step
  <2> QED BY <1>3, <2>1 DEF OptionsInv, DeploymentDecides, Loaded, EditFile
<1>4. CASE BuildOptions
  BY <1>4, BuildOptionsKeeps
<1>5. CASE BuildChatModel
  <2>1. OptionsTypeOK'
    <3>1. Step
      BY <1>5, Zenon DEF BuildChatModel
    <3>2. steps' \in 0 .. MaxSteps
      BY <3>1, BoundsAssumption DEF OptionsInv, OptionsTypeOK, Step
    <3>3. outcome' \in {"not_implemented", "missing_key", "chat_model"}
      BY <1>5, Zenon DEF BuildChatModel
    <3> QED BY <1>5, <3>2, <3>3 DEF OptionsInv, OptionsTypeOK, BuildChatModel
  <2> QED BY <1>5, <2>1 DEF OptionsInv, DeploymentDecides, Loaded, BuildChatModel
<1>6. ASSUME NEW override \in BOOLEAN, LoadSettings(override) PROVE OptionsInv'
  BY <1>6, LoadSettingsKeeps
<1> QED BY <1>1, <1>2, <1>3, <1>4, <1>5, <1>6 DEF OptionsNext

(* The inductive invariant of the configuration, which needs the engine's  *)
(* for the policies of the prompts that were rendered.                     *)
THEOREM OptionsInvariance == OptionsSpec => []OptionsInv
<1>1. OptionsSpec => []EngineInv
  BY EngineInvariance, EngineIsUndisturbed, PTL
<1> QED BY <1>1, OptionsInitInv, OptionsStep, PTL DEF OptionsSpec

(* load_settings and the derivation of options keep their types.           *)
THEOREM OptionsTypeCorrect == OptionsSpec => []OptionsTypeOK
<1>1. OptionsInv => OptionsTypeOK
  BY DEF OptionsInv
<1> QED BY <1>1, OptionsInvariance, PTL

(* No environment, .env file, prompt policy or order of loads makes        *)
(* build_openai_responses_options give a registered model an option that   *)
(* its profile does not take, an unregistered one an effort, a verbosity   *)
(* or a retention, or anyone a retention other than the prompt's.          *)
THEOREM OptionsAccepted == OptionsSpec => []OptionsAreAcceptable
<1>1. OptionsInv => OptionsAreAcceptable
  BY DEF OptionsInv, OptionsAreAcceptable, Acceptable
<1> QED BY <1>1, OptionsInvariance, PTL

(* Without an override no .env file displaces what the process was started *)
(* with, in the environment or in the settings, but that an LLM_MODEL of a *)
(* file goes before the fallback OPENAI_CHAT_MODEL of the deployment.      *)
THEOREM DeploymentPrevails == OptionsSpec => []DeploymentDecides
<1>1. OptionsInv => DeploymentDecides
  BY DEF OptionsInv
<1> QED BY <1>1, OptionsInvariance, PTL
===============================================================================
