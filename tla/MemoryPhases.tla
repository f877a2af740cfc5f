---------------------------- MODULE MemoryPhases ----------------------------
(***************************************************************************)
(* The operational memory: InMemoryRecordStore (memory/store.py), the      *)
(* PhaseRunner that writes to it (phases.py) and the agent provider it     *)
(* calls (providers.py).                                                   *)
(*                                                                         *)
(* One thread uses the store, so each call is one step; a call that raises *)
(* before it has stored anything is no step.  What makes it hard is that a *)
(* phase stores two records, one after the other, that the second may      *)
(* fail, and that the same phase may be run again: on other records beside *)
(* the first, on an edited copy of it, or with a human review at last.     *)
(*                                                                         *)
(* The text of a record's id and of its idempotency key is abstracted to   *)
(* what they are made of (DerivedName); payload and body are its content.  *)
(***************************************************************************)
EXTENDS Integers, Sequences, FiniteSets

CONSTANTS
  Names,        \* what callers name their records and idempotency keys
  Contexts,     \* tenant, scope, user, correlation and capability of a record
  Traceable,    \* those with a correlation id and a tenant or a scope
  Contents,     \* payloads and bodies callers write
  Phases,       \* the phases that are run
  Inputs,       \* the sequences of drafted records that phases are run on
  MaxCalls      \* bound on the different calls of PhaseRunner.run

DefaultPhases ==
  {"capture", "classify", "local_validate", "draft_intent", "prepare_handoff",
   "run_provider_adapter", "collect_observation", "select_visibility",
   "archive_local_record", "reject_local_record"}

RequiresHumanReview == {"prepare_handoff"}

DerivedTypes == {"phase_run", "agent_execution"}

(* The text of an id or a key: callers do not begin theirs like a runner.  *)
OwnNames == [kind: {"own"}, name: Names]

DerivedName(kind, phase, id) == [kind |-> kind, phase |-> phase, of |-> id]

(* A record a caller builds.  It is sound when what validate_record asks of*)
(* it, its context apart, holds: its own fields, the hash of its body, its *)
(* visibility, the operation it requests.                                  *)
Draft(r) ==
  /\ r.id \in OwnNames /\ r.key \in OwnNames
  /\ r.type \notin DerivedTypes
  /\ r.context \in Contexts
  /\ r.content \in Contents
  /\ r.status \in {"pending", "accepted"}
  /\ r.sources = <<>>
  /\ r.sound \in BOOLEAN

Drafts == UNION {{inputs[i] : i \in DOMAIN inputs} : inputs \in Inputs}

ASSUME MemoryPhasesAssumption ==
  /\ Traceable \subseteq Contexts
  /\ Phases \subseteq DefaultPhases
  /\ \A inputs \in Inputs : 1 \in DOMAIN inputs
  /\ \A r \in Drafts : Draft(r)
  /\ MaxCalls \in Nat

VARIABLES
  records,      \* _records: a record for each stored id
  index,        \* _idempotency_index: an id for each key used
  calls         \* every call of run that stored something and how it ended

vars == <<records, index, calls>>

Init ==
  /\ records = <<>>
  /\ index = <<>>
  /\ calls = {}

----------------------------------------------------------------------------

Valid(r) == r.sound /\ r.context \in Traceable

(* Bug: the context is not compared. *)
BugSame(existing, incoming) ==
  /\ existing.type = incoming.type
  /\ existing.content = incoming.content

(* _same_idempotent_operation: neither id, status nor sources count.       *)
Same(existing, incoming) ==
  /\ existing.type = incoming.type
  /\ existing.context = incoming.context
  /\ existing.content = incoming.content

(* Bug: an id that is in use is not refused. *)
BugCanAppend(recs, idx, r) ==
  /\ Valid(r)
  /\ r.key \in DOMAIN idx => Same(recs[idx[r.key]], r)

CanAppend(recs, idx, r) ==
  /\ Valid(r)
  /\ IF r.key \in DOMAIN idx THEN Same(recs[idx[r.key]], r) ELSE r.id \notin DOMAIN recs

With(f, x, y) == [z \in DOMAIN f \cup {x} |-> IF z = x THEN y ELSE f[z]]

(* Bug: a repetition refreshes what is stored. *)
BugRecordsWith(recs, idx, r) ==
  With(recs, IF r.key \in DOMAIN idx THEN idx[r.key] ELSE r.id, r)

(* The store after an append that is not refused: a repetition leaves the  *)
(* record that was stored first, its status and its sources as they are.   *)
RecordsWith(recs, idx, r) ==
  IF r.key \in DOMAIN idx THEN recs ELSE With(recs, r.id, r)

(* Bug: the index follows the record that was offered last. *)
BugIndexWith(idx, r) == With(idx, r.key, r.id)

IndexWith(idx, r) ==
  IF r.key \in DOMAIN idx THEN idx ELSE With(idx, r.key, r.id)

----------------------------------------------------------------------------

InputIds(inputs) == [i \in DOMAIN inputs |-> inputs[i].id]

AllValid(inputs) == \A i \in DOMAIN inputs : Valid(inputs[i])

(* Bug: nobody asks for the human review. *)
BugAccepted(phase, inputs, reviewed) == AllValid(inputs)

(* _validate_inputs; no phase of DEFAULT_PHASES requires record types. *)
Accepted(phase, inputs, reviewed) ==
  /\ AllValid(inputs)
  /\ phase \in RequiresHumanReview => reviewed

StatusOf(accepted) == IF accepted THEN "completed" ELSE "rejected"

(* What run and the provider derive from their inputs takes its name and   *)
(* its context from the first of them.                                     *)
Derived(type, phase, inputs, content, status) ==
  [id |-> DerivedName(type, phase, inputs[1].id),
   key |-> DerivedName(type, phase, inputs[1].id),
   type |-> type, context |-> inputs[1].context, content |-> content,
   status |-> status, sources |-> InputIds(inputs), sound |-> TRUE]

PhaseRun(phase, inputs, accepted) ==
  Derived("phase_run", phase, inputs, [phase |-> phase], StatusOf(accepted))

AgentExecution(phase, inputs) ==
  Derived("agent_execution", phase, inputs,
          [phase |-> phase, input_record_ids |-> InputIds(inputs)], "completed")

CallsTheProvider(phase, accepted) == accepted /\ phase = "run_provider_adapter"

Call(phase, inputs, reviewed, outcome) ==
  [phase |-> phase, inputs |-> inputs, reviewed |-> reviewed, outcome |-> outcome]

Called(phase, inputs, reviewed, outcome) ==
  calls' = calls \cup {Call(phase, inputs, reviewed, outcome)}

----------------------------------------------------------------------------

(* A caller stores a record of its own. *)
AppendRecord(r) ==
  /\ CanAppend(records, index, r)
  /\ records' = RecordsWith(records, index, r)
  /\ index' = IndexWith(index, r)
  /\ UNCHANGED calls

(* run without the provider: its one record says whether it was accepted,  *)
(* but what is stored is that of the first run on the same first record.   *)
RunPhase(phase, inputs, reviewed) ==
  LET accepted == Accepted(phase, inputs, reviewed)
      run == PhaseRun(phase, inputs, accepted)
  IN
  /\ ~CallsTheProvider(phase, accepted)
  /\ CanAppend(records, index, run)
  /\ records' = RecordsWith(records, index, run)
  /\ index' = IndexWith(index, run)
  /\ Called(phase, inputs, reviewed, StatusOf(accepted))

(* run with the provider: both records are stored. *)
RunProvider(phase, inputs, reviewed) ==
  LET run == PhaseRun(phase, inputs, TRUE)
      work == AgentExecution(phase, inputs)
      recs == RecordsWith(records, index, run)
      idx == IndexWith(index, run)
  IN
  /\ CallsTheProvider(phase, Accepted(phase, inputs, reviewed))
  /\ CanAppend(records, index, run)
  /\ CanAppend(recs, idx, work)
  /\ records' = RecordsWith(recs, idx, work)
  /\ index' = IndexWith(idx, work)
  /\ Called(phase, inputs, reviewed, "completed")

(* This runner has no provider, the provider raises, or its record is      *)
(* refused because it was made from other inputs than the one stored: the  *)
(* call raises, the record of the run stays.                               *)
RunProviderFails(phase, inputs, reviewed) ==
  LET run == PhaseRun(phase, inputs, TRUE) IN
  /\ CallsTheProvider(phase, Accepted(phase, inputs, reviewed))
  /\ CanAppend(records, index, run)
  /\ records' = RecordsWith(records, index, run)
  /\ index' = IndexWith(index, run)
  /\ Called(phase, inputs, reviewed, "failed")

(* A phase is run on drafted records, stored or not, or on a stored one.   *)
PossibleInputs == Inputs \cup {<<records[id]>> : id \in DOMAIN records}

Run(phase, inputs, reviewed) ==
  \/ RunPhase(phase, inputs, reviewed)
  \/ RunProvider(phase, inputs, reviewed)
  \/ RunProviderFails(phase, inputs, reviewed)

Next ==
  \/ \E r \in Drafts : AppendRecord(r)
  \/ /\ Cardinality(calls) < MaxCalls
     /\ \E phase \in Phases, inputs \in PossibleInputs, reviewed \in BOOLEAN :
          Run(phase, inputs, reviewed)

Spec == Init /\ [][Next]_vars

----------------------------------------------------------------------------

WellFormed(r) ==
  /\ Valid(r)
  /\ IF r.type \in DerivedTypes
       THEN /\ r.status \in {"completed", "rejected"}
            /\ r.id = DerivedName(r.type, r.content.phase, r.sources[1])
            /\ r.key = r.id
       ELSE Draft(r)

(* Records and calls keep the shapes the code gives them. *)
TypeOK ==
  /\ \A id \in DOMAIN records : WellFormed(records[id])
  /\ \A c \in calls :
       /\ c.phase \in Phases /\ 1 \in DOMAIN c.inputs /\ c.reviewed \in BOOLEAN
       /\ c.outcome \in {"completed", "rejected", "failed"}

(* The dictionary and the index describe one store: each key leads to the  *)
(* record that has it, and no record is out of the index's reach, however  *)
(* ids and keys were reused (store.append).                                *)
IndexAgrees ==
  /\ \A key \in DOMAIN index :
       index[key] \in DOMAIN records /\ records[index[key]].key = key
  /\ \A id \in DOMAIN records :
       /\ records[id].id = id
       /\ records[id].key \in DOMAIN index /\ index[records[id].key] = id

(* What is stored is never changed nor lost: corrections are new records,  *)
(* and a run that is repeated does not rewrite the first one's verdict.    *)
StoreIsAppendOnly ==
  [][\A id \in DOMAIN records : id \in DOMAIN records' /\ records'[id] = records[id]]_vars

(* A record says completed only if a call on exactly its sources deserved  *)
(* it: all of them valid, and reviewed by a human where the phase wants it,*)
(* whatever was stored under the same key before.                          *)
CompletedRunsWereEarned ==
  \A id \in DOMAIN records :
    records[id].type \in DerivedTypes /\ records[id].status = "completed" =>
      \E c \in calls :
        /\ c.phase = records[id].content.phase
        /\ InputIds(c.inputs) = records[id].sources
        /\ AllValid(c.inputs)
        /\ c.phase \in RequiresHumanReview => c.reviewed

(* Work of the provider is never stored without the record of the run it   *)
(* belongs to, for the same first record in the same context: the two are  *)
(* stored one after the other, and either may have been there before.      *)
AgentWorkIsBacked ==
  \A id \in DOMAIN records :
    records[id].type = "agent_execution" =>
      LET work == records[id]
          run == DerivedName("phase_run", work.content.phase, work.sources[1])
      IN
      run \in DOMAIN records /\ records[run].context = work.context

(* A call that was completed can be repeated, now or after whatever else   *)
(* was stored, and then changes nothing; one that failed can be taken up   *)
(* again unless the provider's work on the same first record was stored    *)
(* with other inputs.                                                      *)
CallsCanBeRepeated ==
  \A c \in calls :
    LET run == PhaseRun(c.phase, c.inputs, TRUE)
        work == AgentExecution(c.phase, c.inputs)
        repeats(r) ==
          /\ CanAppend(records, index, r)
          /\ r.key \in DOMAIN index
          /\ RecordsWith(records, index, r) = records
    IN
    /\ repeats(run)
    /\ c.phase = "run_provider_adapter" /\ c.outcome = "completed" => repeats(work)
    /\ c.outcome = "failed" => work.key \in DOMAIN index \/ CanAppend(records, index, work)
=============================================================================
