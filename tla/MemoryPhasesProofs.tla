------------------------- MODULE MemoryPhasesProofs -------------------------
(***************************************************************************)
(* Theorems about MemoryPhases, for any records, contexts and phases.      *)
(*                                                                         *)
(* A phase may append twice, so the lemmas are about one append to any     *)
(* store (recs, idx); the lemmas on the actions apply them once or twice.  *)
(***************************************************************************)
EXTENDS MemoryPhases, TLAPS

Agrees(recs, idx) ==
  /\ \A key \in DOMAIN idx : idx[key] \in DOMAIN recs /\ recs[idx[key]].key = key
  /\ \A id \in DOMAIN recs :
       /\ recs[id].id = id
       /\ recs[id].key \in DOMAIN idx /\ idx[recs[id].key] = id

Sound(recs, idx) ==
  Agrees(recs, idx) /\ \A id \in DOMAIN recs : WellFormed(recs[id])

Kept(f, g) == \A x \in DOMAIN f : x \in DOMAIN g /\ g[x] = f[x]

(* r is in the store already, perhaps with another status. *)
Repeats(recs, idx, r) ==
  Valid(r) /\ r.key \in DOMAIN idx /\ Same(recs[idx[r.key]], r)

Earned(r, cs) ==
  r.type \in DerivedTypes /\ r.status = "completed" =>
    \E c \in cs :
      /\ c.phase = r.content.phase
      /\ InputIds(c.inputs) = r.sources
      /\ AllValid(c.inputs)
      /\ c.phase \in RequiresHumanReview => c.reviewed

Backed(recs, r) ==
  r.type = "agent_execution" =>
    LET run == DerivedName("phase_run", r.content.phase, r.sources[1])
    IN run \in DOMAIN recs /\ recs[run].context = r.context

Repeatable(recs, idx, c) ==
  /\ Repeats(recs, idx, PhaseRun(c.phase, c.inputs, TRUE))
  /\ c.phase = "run_provider_adapter" /\ c.outcome = "completed" =>
       Repeats(recs, idx, AgentExecution(c.phase, c.inputs))

IInv ==
  /\ TypeOK
  /\ Sound(records, index)
  /\ CompletedRunsWereEarned
  /\ AgentWorkIsBacked
  /\ \A c \in calls : Repeatable(records, index, c)

----------------------------------------------------------------------------

(* An append keeps what is there. *)
LEMMA AppendKeeps ==
  ASSUME NEW recs, NEW idx, NEW r, CanAppend(recs, idx, r)
  PROVE  /\ Kept(recs, RecordsWith(recs, idx, r))
         /\ Kept(idx, IndexWith(idx, r))
BY DEF CanAppend, RecordsWith, IndexWith, With, Kept

(* An append adds nothing but the record that is appended. *)
LEMMA AppendAddsOnly ==
  ASSUME NEW recs, NEW idx, NEW r, CanAppend(recs, idx, r),
         NEW id \in DOMAIN RecordsWith(recs, idx, r)
  PROVE  \/ id \in DOMAIN recs /\ RecordsWith(recs, idx, r)[id] = recs[id]
         \/ id = r.id /\ RecordsWith(recs, idx, r)[id] = r
BY DEF CanAppend, RecordsWith, With

(* The dictionary and the index agree after an append. *)
LEMMA AppendAgrees ==
  ASSUME NEW recs, NEW idx, NEW r, Agrees(recs, idx), CanAppend(recs, idx, r)
  PROVE  Agrees(RecordsWith(recs, idx, r), IndexWith(idx, r))
<1>1. CASE r.key \in DOMAIN idx
  BY <1>1 DEF RecordsWith, IndexWith
<1>2. CASE r.key \notin DOMAIN idx
  <2> DEFINE recs2 == With(recs, r.id, r)
             idx2 == With(idx, r.key, r.id)
  <2>1. r.id \notin DOMAIN recs
    BY <1>2 DEF CanAppend
  <2>2. /\ DOMAIN recs2 = DOMAIN recs \cup {r.id} /\ recs2[r.id] = r
        /\ \A id \in DOMAIN recs : recs2[id] = recs[id]
    BY <2>1 DEF With
  <2>3. /\ DOMAIN idx2 = DOMAIN idx \cup {r.key} /\ idx2[r.key] = r.id
        /\ \A key \in DOMAIN idx : idx2[key] = idx[key]
    BY <1>2 DEF With
  <2> HIDE DEF recs2, idx2
  <2>4. Agrees(recs2, idx2)
    BY <2>1, <2>2, <2>3 DEF Agrees
  <2> QED BY <1>2, <2>4 DEF RecordsWith, IndexWith, recs2, idx2
<1> QED BY <1>1, <1>2

LEMMA AppendSound ==
  ASSUME NEW recs, NEW idx, NEW r, Sound(recs, idx), CanAppend(recs, idx, r), WellFormed(r)
  PROVE  Sound(RecordsWith(recs, idx, r), IndexWith(idx, r))
BY AppendAgrees, AppendAddsOnly DEF Sound

(* What was appended can be appended again. *)
LEMMA AppendRepeats ==
  ASSUME NEW recs, NEW idx, NEW r, CanAppend(recs, idx, r)
  PROVE  Repeats(RecordsWith(recs, idx, r), IndexWith(idx, r), r)
BY DEF CanAppend, RecordsWith, IndexWith, With, Repeats, Same

(* And remains so in every store that keeps this one. *)
LEMMA RepeatsAreKept ==
  ASSUME NEW recs, NEW idx, NEW recs2, NEW idx2, NEW r,
         Agrees(recs, idx), Kept(recs, recs2), Kept(idx, idx2), Repeats(recs, idx, r)
  PROVE  Repeats(recs2, idx2, r)
BY DEF Agrees, Kept, Repeats

LEMMA RepeatableIsKept ==
  ASSUME NEW recs, NEW idx, NEW recs2, NEW idx2, NEW c,
         Agrees(recs, idx), Kept(recs, recs2), Kept(idx, idx2), Repeatable(recs, idx, c)
  PROVE  Repeatable(recs2, idx2, c)
BY RepeatsAreKept DEF Repeatable

(* The status does not matter for a repetition. *)
LEMMA StatusIsNotCompared ==
  ASSUME NEW recs, NEW idx, NEW phase, NEW inputs, NEW accepted \in BOOLEAN,
         Repeats(recs, idx, PhaseRun(phase, inputs, accepted))
  PROVE  Repeats(recs, idx, PhaseRun(phase, inputs, TRUE))
BY DEF Repeats, PhaseRun, Derived, Same, Valid

(* The records a phase derives are well formed. *)
LEMMA DerivedAreWellFormed ==
  ASSUME NEW phase, NEW inputs, 1 \in DOMAIN inputs, NEW accepted \in BOOLEAN,
         inputs[1].context \in Traceable
  PROVE  /\ WellFormed(PhaseRun(phase, inputs, accepted))
         /\ WellFormed(AgentExecution(phase, inputs))
BY DEF WellFormed, PhaseRun, AgentExecution, Derived, Valid, StatusOf, DerivedTypes, InputIds

(* A run that repeats one in the store backs the work of the provider.     *)
LEMMA RunBacksWork ==
  ASSUME NEW recs, NEW idx, Sound(recs, idx),
         NEW phase, NEW inputs, 1 \in DOMAIN inputs,
         Repeats(recs, idx, PhaseRun(phase, inputs, TRUE))
  PROVE  Backed(recs, AgentExecution(phase, inputs))
<1> DEFINE run == PhaseRun(phase, inputs, TRUE)
           id == idx[run.key]
<1>1. /\ run.key = DerivedName("phase_run", phase, inputs[1].id)
      /\ run.type = "phase_run" /\ run.context = inputs[1].context
  BY DEF PhaseRun, Derived
<1>2. id \in DOMAIN recs /\ recs[id].key = run.key /\ recs[id].id = id
  BY DEF Sound, Agrees, Repeats
<1>3. recs[id].type = "phase_run" /\ recs[id].context = inputs[1].context
  BY <1>1 DEF Repeats, Same
<1>4. recs[id].key = recs[id].id
  BY <1>2, <1>3 DEF Sound, WellFormed, DerivedTypes
<1>5. id = DerivedName("phase_run", phase, inputs[1].id)
  BY <1>1, <1>2, <1>4
<1> QED BY <1>2, <1>3, <1>5 DEF Backed, AgentExecution, Derived, InputIds

(* The work of the provider on a first record is stored under its key or   *)
(* not at all, because callers' ids are not like the runner's.             *)
LEMMA WorkCanBeTakenUp ==
  ASSUME NEW recs, NEW idx, Sound(recs, idx), NEW phase, NEW inputs,
         Valid(AgentExecution(phase, inputs)),
         AgentExecution(phase, inputs).key \notin DOMAIN idx
  PROVE  CanAppend(recs, idx, AgentExecution(phase, inputs))
<1> DEFINE work == AgentExecution(phase, inputs)
<1>1. work.id = work.key /\ work.id.kind = "agent_execution"
  BY DEF AgentExecution, Derived, DerivedName
<1>2. ASSUME work.id \in DOMAIN recs PROVE FALSE
  <2>1. recs[work.id].id = work.id /\ recs[work.id].key \in DOMAIN idx
    BY <1>2 DEF Sound, Agrees
  <2>2. WellFormed(recs[work.id])
    BY <1>2 DEF Sound
  <2>3. CASE recs[work.id].type \in DerivedTypes
    BY <1>1, <2>1, <2>2, <2>3 DEF WellFormed
  <2>4. CASE recs[work.id].type \notin DerivedTypes
    <3>1. work.id \in OwnNames
      BY <2>1, <2>2, <2>4 DEF WellFormed, Draft
    <3> QED BY <1>1, <3>1 DEF OwnNames
  <2> QED BY <2>3, <2>4
<1> QED BY <1>2 DEF CanAppend

----------------------------------------------------------------------------

(* A phase is run on at least one record. *)
LEMMA InputsAreThere ==
  ASSUME NEW inputs \in PossibleInputs
  PROVE  1 \in DOMAIN inputs
BY MemoryPhasesAssumption DEF PossibleInputs

LEMMA InitIInv == Init => IInv
BY DEF Init, IInv, TypeOK, Sound, Agrees, CompletedRunsWereEarned, AgentWorkIsBacked

(* What an action owes: a sound store that keeps the old one, whose new    *)
(* records are earned and backed, and one more call that can be repeated.  *)
LEMMA StepIInv ==
  ASSUME IInv, calls \subseteq calls',
         Sound(records', index'), Kept(records, records'), Kept(index, index'),
         \A id \in DOMAIN records' :
           \/ id \in DOMAIN records /\ records'[id] = records[id]
           \/ Earned(records'[id], calls') /\ Backed(records', records'[id]),
         \A c \in calls' :
           \/ c \in calls
           \/ /\ Repeatable(records', index', c)
              /\ c.phase \in Phases /\ 1 \in DOMAIN c.inputs /\ c.reviewed \in BOOLEAN
              /\ c.outcome \in {"completed", "rejected", "failed"}
  PROVE  IInv'
<1>1. TypeOK'
  BY DEF IInv, TypeOK, Sound
<1>2. CompletedRunsWereEarned'
  <2> SUFFICES ASSUME NEW id \in DOMAIN records' PROVE Earned(records'[id], calls')
    BY DEF CompletedRunsWereEarned, Earned
  <2>1. CASE id \in DOMAIN records /\ records'[id] = records[id]
    <3>1. Earned(records[id], calls)
      BY <2>1 DEF IInv, CompletedRunsWereEarned, Earned
    <3> QED BY <2>1, <3>1 DEF Earned
  <2> QED BY <2>1
<1>3. AgentWorkIsBacked'
  <2> SUFFICES ASSUME NEW id \in DOMAIN records' PROVE Backed(records', records'[id])
    BY DEF AgentWorkIsBacked, Backed
  <2>1. CASE id \in DOMAIN records /\ records'[id] = records[id]
    <3>1. Backed(records, records[id])
      BY <2>1 DEF IInv, AgentWorkIsBacked, Backed
    <3> QED BY <2>1, <3>1 DEF Backed, Kept
  <2> QED BY <2>1
<1>4. \A c \in calls' : Repeatable(records', index', c)
  BY RepeatableIsKept DEF IInv, Sound
<1> QED BY <1>1, <1>2, <1>3, <1>4 DEF IInv

LEMMA AppendRecordIInv ==
  ASSUME IInv, NEW r \in Drafts, AppendRecord(r)
  PROVE  IInv' /\ Kept(records, records')
<1>1. Draft(r) /\ r.type \notin DerivedTypes /\ Valid(r) /\ CanAppend(records, index, r)
  BY MemoryPhasesAssumption DEF Draft, AppendRecord, CanAppend
<1>2. /\ records' = RecordsWith(records, index, r) /\ index' = IndexWith(index, r)
      /\ calls' = calls
  BY DEF AppendRecord
<1>3. WellFormed(r) /\ r.type # "agent_execution"
  BY <1>1 DEF WellFormed, DerivedTypes
<1>4. Sound(records', index')
  BY <1>1, <1>2, <1>3, AppendSound DEF IInv
<1>5. Kept(records, records') /\ Kept(index, index')
  BY <1>1, <1>2, AppendKeeps
<1>6. \A id \in DOMAIN records' :
        \/ id \in DOMAIN records /\ records'[id] = records[id]
        \/ Earned(records'[id], calls') /\ Backed(records', records'[id])
  BY <1>1, <1>2, <1>3, AppendAddsOnly DEF Earned, Backed
<1> QED BY <1>2, <1>4, <1>5, <1>6, StepIInv

(* What is stored of a run, whether or not the provider is called then.    *)
LEMMA RunIsStored ==
  ASSUME IInv, NEW phase \in Phases, NEW inputs \in PossibleInputs, NEW accepted \in BOOLEAN,
         CanAppend(records, index, PhaseRun(phase, inputs, accepted)),
         NEW recs, recs = RecordsWith(records, index, PhaseRun(phase, inputs, accepted)),
         NEW idx, idx = IndexWith(index, PhaseRun(phase, inputs, accepted))
  PROVE  /\ Sound(recs, idx) /\ Kept(records, recs) /\ Kept(index, idx)
         /\ Repeats(recs, idx, PhaseRun(phase, inputs, TRUE))
         /\ inputs[1].context \in Traceable
<1> DEFINE run == PhaseRun(phase, inputs, accepted)
<1>1. inputs[1].context \in Traceable
  BY DEF CanAppend, PhaseRun, Derived, Valid
<1>2. WellFormed(run)
  BY <1>1, InputsAreThere, DerivedAreWellFormed
<1>3. Sound(recs, idx)
  BY <1>2, AppendSound DEF IInv
<1>4. Repeats(recs, idx, run)
  BY AppendRepeats
<1> QED BY <1>1, <1>3, <1>4, AppendKeeps, StatusIsNotCompared

(* A run whose call deserved what it says is earned. *)
LEMMA RunIsEarned ==
  ASSUME NEW phase, NEW inputs, NEW reviewed, NEW outcome, NEW cs,
         Call(phase, inputs, reviewed, outcome) \in cs
  PROVE  /\ Earned(PhaseRun(phase, inputs, Accepted(phase, inputs, reviewed)), cs)
         /\ Accepted(phase, inputs, reviewed) => Earned(AgentExecution(phase, inputs), cs)
<1> DEFINE c == Call(phase, inputs, reviewed, outcome)
<1>1. c \in cs /\ c.phase = phase /\ c.inputs = inputs /\ c.reviewed = reviewed
  BY DEF Call
<1>2. ASSUME Accepted(phase, inputs, reviewed)
      PROVE  AllValid(c.inputs) /\ (c.phase \in RequiresHumanReview => c.reviewed)
  BY <1>1, <1>2 DEF Accepted
<1>3. /\ \A accepted : PhaseRun(phase, inputs, accepted).status = "completed" => accepted
      /\ \A accepted : /\ PhaseRun(phase, inputs, accepted).content.phase = phase
                       /\ PhaseRun(phase, inputs, accepted).sources = InputIds(inputs)
      /\ AgentExecution(phase, inputs).content.phase = phase
      /\ AgentExecution(phase, inputs).sources = InputIds(inputs)
  BY DEF PhaseRun, AgentExecution, Derived, StatusOf
<1> HIDE DEF c
<1> QED BY <1>1, <1>2, <1>3 DEF Earned

LEMMA RunPhaseIInv ==
  ASSUME IInv, NEW phase \in Phases, NEW inputs \in PossibleInputs, NEW reviewed \in BOOLEAN,
         RunPhase(phase, inputs, reviewed)
  PROVE  IInv' /\ Kept(records, records')
<1> DEFINE accepted == Accepted(phase, inputs, reviewed)
           run == PhaseRun(phase, inputs, accepted)
           c == Call(phase, inputs, reviewed, StatusOf(accepted))
<1>0. accepted \in BOOLEAN
  BY DEF Accepted, AllValid
<1>1. /\ CanAppend(records, index, run)
      /\ records' = RecordsWith(records, index, run) /\ index' = IndexWith(index, run)
      /\ calls' = calls \cup {c}
      /\ ~CallsTheProvider(phase, accepted)
  BY DEF RunPhase, Called
<1>2. /\ Sound(records', index') /\ Kept(records, records') /\ Kept(index, index')
      /\ Repeats(records', index', PhaseRun(phase, inputs, TRUE))
  BY <1>0, <1>1, RunIsStored
<1>3. Earned(run, calls') /\ run.type # "agent_execution"
  BY <1>1, RunIsEarned DEF PhaseRun, Derived
<1>4. \A id \in DOMAIN records' :
        \/ id \in DOMAIN records /\ records'[id] = records[id]
        \/ Earned(records'[id], calls') /\ Backed(records', records'[id])
  BY <1>1, <1>3, AppendAddsOnly DEF Backed
<1>5. /\ c.phase = phase /\ c.inputs = inputs /\ c.reviewed = reviewed
      /\ c.outcome \in {"completed", "rejected"}
      /\ c.outcome = "completed" => accepted
  BY DEF Call, StatusOf
<1>6. Repeatable(records', index', c)
  BY <1>1, <1>2, <1>5 DEF Repeatable, CallsTheProvider
<1> HIDE DEF c
<1> QED BY <1>1, <1>2, <1>4, <1>5, <1>6, InputsAreThere, StepIInv

LEMMA RunProviderFailsIInv ==
  ASSUME IInv, NEW phase \in Phases, NEW inputs \in PossibleInputs, NEW reviewed \in BOOLEAN,
         RunProviderFails(phase, inputs, reviewed)
  PROVE  IInv' /\ Kept(records, records')
<1> DEFINE run == PhaseRun(phase, inputs, TRUE)
           c == Call(phase, inputs, reviewed, "failed")
<1>1. /\ CanAppend(records, index, run)
      /\ records' = RecordsWith(records, index, run) /\ index' = IndexWith(index, run)
      /\ calls' = calls \cup {c}
      /\ Accepted(phase, inputs, reviewed)
  BY DEF RunProviderFails, Called, CallsTheProvider
<1>2. /\ Sound(records', index') /\ Kept(records, records') /\ Kept(index, index')
      /\ Repeats(records', index', run)
  BY <1>1, RunIsStored
<1>3. Earned(run, calls') /\ run.type # "agent_execution"
  <2>1. run = PhaseRun(phase, inputs, Accepted(phase, inputs, reviewed))
    BY <1>1 DEF PhaseRun, StatusOf
  <2> QED BY <1>1, <2>1, RunIsEarned DEF PhaseRun, Derived
<1>4. \A id \in DOMAIN records' :
        \/ id \in DOMAIN records /\ records'[id] = records[id]
        \/ Earned(records'[id], calls') /\ Backed(records', records'[id])
  BY <1>1, <1>3, AppendAddsOnly DEF Backed
<1>5. /\ c.phase = phase /\ c.inputs = inputs /\ c.reviewed = reviewed
      /\ c.outcome = "failed"
  BY DEF Call
<1>6. Repeatable(records', index', c)
  BY <1>2, <1>5 DEF Repeatable
<1> HIDE DEF c
<1> QED BY <1>1, <1>2, <1>4, <1>5, <1>6, InputsAreThere, StepIInv

LEMMA RunProviderIInv ==
  ASSUME IInv, NEW phase \in Phases, NEW inputs \in PossibleInputs, NEW reviewed \in BOOLEAN,
         RunProvider(phase, inputs, reviewed)
  PROVE  IInv' /\ Kept(records, records')
<1> DEFINE run == PhaseRun(phase, inputs, TRUE)
           work == AgentExecution(phase, inputs)
           recs == RecordsWith(records, index, run)
           idx == IndexWith(index, run)
           c == Call(phase, inputs, reviewed, "completed")
<1>1. /\ CanAppend(records, index, run) /\ CanAppend(recs, idx, work)
      /\ records' = RecordsWith(recs, idx, work) /\ index' = IndexWith(idx, work)
      /\ calls' = calls \cup {c}
      /\ Accepted(phase, inputs, reviewed)
  BY DEF RunProvider, Called, CallsTheProvider
<1>2. /\ Sound(recs, idx) /\ Kept(records, recs) /\ Kept(index, idx)
      /\ Repeats(recs, idx, run)
      /\ inputs[1].context \in Traceable
  BY <1>1, RunIsStored
<1>3. \A id \in DOMAIN recs :
        \/ id \in DOMAIN records /\ recs[id] = records[id]
        \/ recs[id] = run
  BY <1>1, AppendAddsOnly
<1>4. /\ Earned(run, calls') /\ Earned(work, calls')
      /\ run.type # "agent_execution"
  <2>1. run = PhaseRun(phase, inputs, Accepted(phase, inputs, reviewed))
    BY <1>1 DEF PhaseRun, StatusOf
  <2> QED BY <1>1, <2>1, RunIsEarned DEF PhaseRun, Derived
<1>5. Backed(recs, work)
  BY <1>2, InputsAreThere, RunBacksWork
<1> HIDE DEF run, recs, idx
<1>6. Sound(records', index')
  BY <1>1, <1>2, InputsAreThere, DerivedAreWellFormed, AppendSound
<1>7. Kept(recs, records') /\ Kept(idx, index')
  BY <1>1, AppendKeeps
<1>8. Kept(records, records') /\ Kept(index, index')
  BY <1>2, <1>7 DEF Kept
<1>9. Repeats(records', index', run) /\ Repeats(records', index', work)
  <2>1. Repeats(records', index', work)
    BY <1>1, AppendRepeats
  <2> QED BY <1>2, <1>7, <2>1, RepeatsAreKept DEF Sound
<1>10. \A id \in DOMAIN records' :
         \/ id \in DOMAIN records /\ records'[id] = records[id]
         \/ Earned(records'[id], calls') /\ Backed(records', records'[id])
  <2> SUFFICES ASSUME NEW id \in DOMAIN records'
               PROVE  \/ id \in DOMAIN records /\ records'[id] = records[id]
                      \/ records'[id] = run
                      \/ records'[id] = work
    <3>1. Backed(records', work)
      BY <1>5, <1>7 DEF Backed, Kept
    <3> QED BY <1>4, <3>1 DEF Backed
  <2>1. (id \in DOMAIN recs /\ records'[id] = recs[id]) \/ records'[id] = work
    BY <1>1, AppendAddsOnly
  <2> QED BY <1>3, <2>1
<1>11. /\ c.phase = phase /\ c.inputs = inputs /\ c.reviewed = reviewed
       /\ c.outcome = "completed"
  BY DEF Call
<1>12. Repeatable(records', index', c)
  BY <1>9, <1>11 DEF Repeatable, run
<1> HIDE DEF c
<1> QED BY <1>1, <1>6, <1>8, <1>10, <1>11, <1>12, InputsAreThere, StepIInv

LEMMA NextIInv ==
  ASSUME IInv, Next
  PROVE  IInv' /\ Kept(records, records')
BY AppendRecordIInv, RunPhaseIInv, RunProviderIInv, RunProviderFailsIInv DEF Next, Run

LEMMA StutterIInv == IInv /\ UNCHANGED vars => IInv'
BY DEF vars, IInv, TypeOK, CompletedRunsWereEarned, AgentWorkIsBacked

(* The invariant that carries every property below. *)
THEOREM Invariance == Spec => []IInv
<1>1. IInv /\ [Next]_vars => IInv'
  BY NextIInv, StutterIInv
<1> QED BY <1>1, InitIInv, PTL DEF Spec

----------------------------------------------------------------------------

(* Stored records and calls keep their shapes. *)
THEOREM TypeCorrect == Spec => []TypeOK
<1>1. IInv => TypeOK
  BY DEF IInv
<1> QED BY <1>1, Invariance, PTL

(* The record dictionary and the idempotency index agree. *)
THEOREM Agreement == Spec => []IndexAgrees
<1>1. IInv => IndexAgrees
  BY DEF IInv, Sound, Agrees, IndexAgrees
<1> QED BY <1>1, Invariance, PTL

(* No stored record is ever changed or lost. *)
THEOREM AppendOnly == Spec => StoreIsAppendOnly
<1>1. IInv /\ [Next]_vars =>
        [\A id \in DOMAIN records : id \in DOMAIN records' /\ records'[id] = records[id]]_vars
  BY NextIInv DEF Kept
<1> QED BY <1>1, Invariance, PTL DEF Spec, StoreIsAppendOnly

(* A stored verdict "completed" was deserved by a call on its sources. *)
THEOREM CompletedEarned == Spec => []CompletedRunsWereEarned
<1>1. IInv => CompletedRunsWereEarned
  BY DEF IInv
<1> QED BY <1>1, Invariance, PTL

(* The provider's work is stored only beside its run. *)
THEOREM WorkBacked == Spec => []AgentWorkIsBacked
<1>1. IInv => AgentWorkIsBacked
  BY DEF IInv
<1> QED BY <1>1, Invariance, PTL

(* Whatever else happened, a completed call can be repeated without effect *)
(* and a failed one taken up again.                                        *)
THEOREM Repetition == Spec => []CallsCanBeRepeated
<1>1. IInv => CallsCanBeRepeated
  <2> SUFFICES ASSUME IInv, NEW c \in calls
               PROVE
                 LET run == PhaseRun(c.phase, c.inputs, TRUE)
                     work == AgentExecution(c.phase, c.inputs)
                     repeats(r) ==
                       /\ CanAppend(records, index, r)
                       /\ r.key \in DOMAIN index
                       /\ RecordsWith(records, index, r) = records
                 IN
                 /\ repeats(run)
                 /\ c.phase = "run_provider_adapter" /\ c.outcome = "completed" => repeats(work)
                 /\ c.outcome = "failed" =>
                      work.key \in DOMAIN index \/ CanAppend(records, index, work)
    BY DEF CallsCanBeRepeated
  <2> DEFINE run == PhaseRun(c.phase, c.inputs, TRUE)
             work == AgentExecution(c.phase, c.inputs)
  <2>1. Repeatable(records, index, c) /\ Sound(records, index)
    BY DEF IInv
  <2>2. \A r : Repeats(records, index, r) =>
          /\ CanAppend(records, index, r)
          /\ r.key \in DOMAIN index
          /\ RecordsWith(records, index, r) = records
    BY DEF Repeats, CanAppend, RecordsWith
  <2>3. Valid(work)
    BY <2>1 DEF Repeatable, Repeats, PhaseRun, AgentExecution, Derived, Valid
  <2>4. work.key \in DOMAIN index \/ CanAppend(records, index, work)
    BY <2>1, <2>3, WorkCanBeTakenUp
  <2> QED BY <2>1, <2>2, <2>4 DEF Repeatable
<1> QED BY <1>1, Invariance, PTL
=============================================================================
