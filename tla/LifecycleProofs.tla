--------------------------- MODULE LifecycleProofs ---------------------------
(***************************************************************************)
(* Lemmas about the lifecycle functions, used by every proof about a       *)
(* module that keeps lifecycle values, and the theorems about              *)
(* AgentLifecycle for any number of intents, receipts, statuses and        *)
(* observations.                                                           *)
(***************************************************************************)
EXTENDS AgentLifecycle, TLAPS

(* Advancing a well-typed lifecycle gives a well-typed lifecycle. *)
LEMMA AdvancedType ==
  ASSUME NEW lc \in AgentLifecycleValue, NEW to \in LifecycleStates,
         NEW ref \in ReceiptIds \cup {NoRef}
  PROVE  Advanced(lc, to, ref) \in AgentLifecycleValue
<1>1. [from |-> lc.state, to |-> to, input_ref |-> ref] \in Transition
  BY DEF Transition, AgentLifecycleValue
<1>2. lc.history \in Seq(Transition)
  BY DEF AgentLifecycleValue
<1>3. Append(lc.history, [from |-> lc.state, to |-> to, input_ref |-> ref])
        \in Seq(Transition)
  BY <1>1, <1>2
<1> QED BY <1>3 DEF Advanced, AgentLifecycleValue

(* So does observing a receipt. *)
LEMMA ObservedType ==
  ASSUME NEW lc \in AgentLifecycleValue, NEW o \in Observation
  PROVE  Observed(lc, o) \in AgentLifecycleValue
<1>1. lc.external_receipts \in Seq(Observation)
  BY DEF AgentLifecycleValue
<1>2. Append(lc.external_receipts, o) \in Seq(Observation)
  BY <1>1
<1> QED BY <1>2 DEF Observed, AgentLifecycleValue

(* An allowed advance of a valid lifecycle is valid. *)
LEMMA AdvancedValid ==
  ASSUME NEW lc \in AgentLifecycleValue, NEW to \in LifecycleStates,
         NEW ref \in ReceiptIds \cup {NoRef},
         ValidLifecycle(lc), CanAdvance(lc, to)
  PROVE  ValidLifecycle(Advanced(lc, to, ref))
<1> DEFINE t   == [from |-> lc.state, to |-> to, input_ref |-> ref]
           new == Advanced(lc, to, ref)
<1>1. /\ lc.history \in Seq(Transition)
      /\ t \in Transition
      /\ new.history = Append(lc.history, t)
      /\ new.state = to
      /\ new.external_receipts = lc.external_receipts
      /\ new.correlation_id = lc.correlation_id
  BY DEF AgentLifecycleValue, Advanced, Transition
<1>2. /\ Len(new.history) = Len(lc.history) + 1
      /\ new.history[Len(lc.history) + 1] = t
      /\ \A k \in 1..Len(lc.history) : new.history[k] = lc.history[k]
      /\ DOMAIN new.history = 1..(Len(lc.history) + 1)
      /\ DOMAIN lc.history = 1..Len(lc.history)
      /\ Len(lc.history) \in Nat
  BY <1>1
<1>3. Contiguous(new.history)
  BY <1>1, <1>2 DEF Contiguous, ValidLifecycle, HistoryState
<1>4. \A k \in DOMAIN new.history :
        new.history[k].to \in AllowedTransitions[new.history[k].from]
  BY <1>1, <1>2 DEF ValidLifecycle, CanAdvance
<1>5. new.state = HistoryState(new.history)
  BY <1>1, <1>2 DEF HistoryState
<1> QED BY <1>1, <1>3, <1>4, <1>5 DEF ValidLifecycle

(* A new lifecycle is a well-typed valid value. *)
LEMMA NewValid ==
  ASSUME NEW c \in Correlations
  PROVE  NewLifecycle(c) \in AgentLifecycleValue /\ ValidLifecycle(NewLifecycle(c))
BY DEF NewLifecycle, AgentLifecycleValue, LifecycleStates, ValidLifecycle,
       Contiguous, HistoryState

----------------------------------------------------------------------------
(* Ownership evidence survives an advance: a local advance cites none, and *)
(* "completed" is only allowed on top of an acceptance.                    *)
LEMMA AdvancedEvidenced ==
  ASSUME NEW lc \in AgentLifecycleValue, NEW to \in LifecycleStates,
         NEW ref \in ReceiptIds \cup {NoRef},
         ValidLifecycle(lc), EvidencedOwnership(lc), CanAdvance(lc, to),
         to = "handoff_accepted" =>
           \E r \in DOMAIN lc.external_receipts :
             /\ lc.external_receipts[r].receipt_id = ref
             /\ lc.external_receipts[r].status = OwnershipAccepted
  PROVE  EvidencedOwnership(Advanced(lc, to, ref))
<1> DEFINE t   == [from |-> lc.state, to |-> to, input_ref |-> ref]
           new == Advanced(lc, to, ref)
           n   == Len(lc.history)
           Cited(h, a) ==
             \E r \in DOMAIN lc.external_receipts :
               /\ lc.external_receipts[r].receipt_id = h[a].input_ref
               /\ lc.external_receipts[r].status = OwnershipAccepted
               /\ lc.external_receipts[r].correlation_id = lc.correlation_id
<1>1. /\ lc.history \in Seq(Transition)
      /\ new.history = Append(lc.history, t)
      /\ new.external_receipts = lc.external_receipts
      /\ new.correlation_id = lc.correlation_id
  BY DEF AgentLifecycleValue, Advanced, Transition
<1>2. /\ n \in Nat
      /\ new.history[n + 1] = t
      /\ \A k \in 1..n : new.history[k] = lc.history[k]
      /\ DOMAIN new.history = 1..(n + 1)
      /\ DOMAIN lc.history = 1..n
  <2>1. t \in Transition
    BY DEF Transition, AgentLifecycleValue
  <2> QED BY <1>1, <2>1
<1>3. \A k \in 1..n : lc.history[k].to \in {"handoff_accepted", "completed"} =>
        \E a \in 1..k : lc.history[a].to = "handoff_accepted" /\ Cited(lc.history, a)
  BY <1>2 DEF EvidencedOwnership
<1> HIDE DEF new, n
<1>4. ASSUME NEW k \in 1..(n + 1),
             new.history[k].to \in {"handoff_accepted", "completed"}
      PROVE  \E a \in 1..k :
               new.history[a].to = "handoff_accepted" /\ Cited(new.history, a)
  <2>1. CASE k \in 1..n
    <3>1. PICK a \in 1..k :
            lc.history[a].to = "handoff_accepted" /\ Cited(lc.history, a)
      BY <1>2, <1>3, <1>4, <2>1
    <3>2. a \in 1..n /\ new.history[a] = lc.history[a]
      BY <1>2, <2>1, <3>1
    <3> QED BY <3>1, <3>2
  <2>2. CASE k = n + 1 /\ to = "handoff_accepted"
    <3>1. new.history[n + 1].to = "handoff_accepted" /\ new.history[n + 1].input_ref = ref
      BY <1>2, <2>2
    <3>2. Cited(new.history, n + 1)
      BY <2>2, <3>1 DEF ValidLifecycle
    <3> QED BY <1>2, <2>2, <3>1, <3>2
  <2>3. CASE k = n + 1 /\ to # "handoff_accepted"
    <3>1. to = "completed"
      BY <1>2, <1>4, <2>3
    <3>2. lc.state = "handoff_accepted"
      BY <3>1 DEF CanAdvance, AllowedTransitions, AgentLifecycleValue, LifecycleStates
    <3>3. n \in 1..n /\ lc.history[n].to = "handoff_accepted"
      BY <1>1, <1>2, <3>2 DEF ValidLifecycle, HistoryState, n
    <3>4. PICK a \in 1..n :
            lc.history[a].to = "handoff_accepted" /\ Cited(lc.history, a)
      BY <1>3, <3>3
    <3>5. a \in 1..k /\ new.history[a] = lc.history[a]
      BY <1>2, <2>3, <3>4
    <3> QED BY <3>4, <3>5
  <2> QED BY <1>2, <1>4, <2>1, <2>2, <2>3 DEF Transition
<1> QED BY <1>1, <1>2, <1>4 DEF EvidencedOwnership, new

(* Recording a receipt keeps the evidence an acceptance cited. *)
LEMMA ObservedEvidenced ==
  ASSUME NEW lc \in AgentLifecycleValue, NEW o \in Observation,
         EvidencedOwnership(lc)
  PROVE  EvidencedOwnership(Observed(lc, o))
<1> DEFINE new == Observed(lc, o)
<1>1. /\ new.history = lc.history
      /\ new.correlation_id = lc.correlation_id
      /\ new.external_receipts = Append(lc.external_receipts, o)
      /\ lc.external_receipts \in Seq(Observation)
  BY DEF AgentLifecycleValue, Observed
<1>2. \A r \in DOMAIN lc.external_receipts :
        /\ r \in DOMAIN new.external_receipts
        /\ new.external_receipts[r] = lc.external_receipts[r]
  BY <1>1
<1> HIDE DEF new
<1> QED BY <1>1, <1>2 DEF EvidencedOwnership, new

(* Every value the functions build has the type of AgentLifecycle. *)
THEOREM LifecyclesTypeCorrect == LifecyclesSpec => []LifecyclesTypeOK
<1>1. LifecyclesInit => LifecyclesTypeOK
  <2> SUFFICES ASSUME NEW correlation \in [Intents -> Correlations],
                      lifecycles = [i \in Intents |-> NewLifecycle(correlation[i])]
               PROVE  LifecyclesTypeOK
    BY DEF LifecyclesInit
  <2>1. \A c \in Correlations : NewLifecycle(c) \in AgentLifecycleValue
    BY DEF NewLifecycle, AgentLifecycleValue, LifecycleStates
  <2> QED BY <2>1 DEF LifecyclesTypeOK
<1>2. LifecyclesTypeOK /\ [LifecyclesNext]_lifecycles => LifecyclesTypeOK'
  <2> SUFFICES ASSUME LifecyclesTypeOK, [LifecyclesNext]_lifecycles
               PROVE  LifecyclesTypeOK'
    OBVIOUS
  <2>1. ASSUME NEW i \in Intents, NEW to \in LifecycleStates, AdvanceLifecycle(i, to)
        PROVE  LifecyclesTypeOK'
    <3>1. Advanced(lifecycles[i], to, NoRef) \in AgentLifecycleValue
      BY AdvancedType DEF LifecyclesTypeOK
    <3> QED BY <2>1, <3>1 DEF LifecyclesTypeOK, AdvanceLifecycle
  <2>2. ASSUME NEW i \in Intents, NEW o \in Observation, RecordExternalReceipt(i, o)
        PROVE  LifecyclesTypeOK'
    <3>1. Observed(lifecycles[i], o) \in AgentLifecycleValue
      BY ObservedType DEF LifecyclesTypeOK
    <3> QED BY <2>2, <3>1 DEF LifecyclesTypeOK, RecordExternalReceipt
  <2>3. ASSUME NEW i \in Intents, NEW id \in ReceiptIds, NEW c \in Correlations,
               AcceptExternalHandoffOwnership(i, id, c)
        PROVE  LifecyclesTypeOK'
    <3>1. Advanced(lifecycles[i], "handoff_accepted", id) \in AgentLifecycleValue
      BY AdvancedType DEF LifecyclesTypeOK, LifecycleStates
    <3> QED BY <2>3, <3>1 DEF LifecyclesTypeOK, AcceptExternalHandoffOwnership
  <2>4. CASE UNCHANGED lifecycles
    BY <2>4 DEF LifecyclesTypeOK
  <2> QED BY <2>1, <2>2, <2>3, <2>4 DEF LifecyclesNext
<1> QED BY <1>1, <1>2, PTL DEF LifecyclesSpec

(* The inductive invariant: both checked properties and the validity of    *)
(* every value they rest on.                                               *)
LifecyclesInv == LifecyclesTypeOK /\ AlwaysValid /\ OwnershipIsEvidenced /\ OwnershipIsOneWay

LEMMA LifecyclesInitInv == LifecyclesInit => LifecyclesInv
<1> SUFFICES ASSUME NEW correlation \in [Intents -> Correlations],
                    lifecycles = [i \in Intents |-> NewLifecycle(correlation[i])]
             PROVE  LifecyclesInv
  BY DEF LifecyclesInit
<1>1. \A c \in Correlations :
        /\ NewLifecycle(c) \in AgentLifecycleValue
        /\ ValidLifecycle(NewLifecycle(c))
        /\ EvidencedOwnership(NewLifecycle(c))
        /\ NeverOwned(NewLifecycle(c))
  BY DEF NewLifecycle, AgentLifecycleValue, LifecycleStates, ValidLifecycle,
         Contiguous, HistoryState, EvidencedOwnership, NeverOwned
<1> QED BY <1>1 DEF LifecyclesInv, LifecyclesTypeOK, AlwaysValid, OwnershipIsEvidenced, OwnershipIsOneWay

(* The part of the invariant that speaks of one lifecycle. *)
GoodValue(lc) ==
  /\ lc \in AgentLifecycleValue
  /\ ValidLifecycle(lc)
  /\ EvidencedOwnership(lc)
  /\ lc.state \notin {"handoff_accepted", "completed", "failed"} => NeverOwned(lc)

LEMMA InvIsGood == LifecyclesInv <=> lifecycles \in [Intents -> AgentLifecycleValue]
                              /\ \A i \in Intents : GoodValue(lifecycles[i])
BY DEF LifecyclesInv, GoodValue, LifecyclesTypeOK, AlwaysValid, OwnershipIsEvidenced, OwnershipIsOneWay

LEMMA AdvancedGood ==
  ASSUME NEW lc, GoodValue(lc), NEW to \in LifecycleStates,
         NEW ref \in ReceiptIds \cup {NoRef}, CanAdvance(lc, to),
         to = "handoff_accepted" =>
           \E r \in DOMAIN lc.external_receipts :
             /\ lc.external_receipts[r].receipt_id = ref
             /\ lc.external_receipts[r].status = OwnershipAccepted
  PROVE  GoodValue(Advanced(lc, to, ref))
<1> DEFINE new == Advanced(lc, to, ref)
<1>1. lc \in AgentLifecycleValue /\ ValidLifecycle(lc) /\ EvidencedOwnership(lc)
  BY DEF GoodValue
<1>2. new \in AgentLifecycleValue /\ ValidLifecycle(new) /\ EvidencedOwnership(new)
  BY <1>1, AdvancedType, AdvancedValid, AdvancedEvidenced
<1>3. ASSUME new.state \notin {"handoff_accepted", "completed", "failed"}
      PROVE  NeverOwned(new)
  <2>1. new.state = to
    BY <1>1 DEF Advanced, AgentLifecycleValue
  <2>2. lc.state \notin {"handoff_accepted", "completed", "failed"}
    BY <1>1, <1>3, <2>1 DEF CanAdvance, AllowedTransitions, AgentLifecycleValue,
                            LifecycleStates
  <2>3. NeverOwned(lc)
    BY <2>2 DEF GoodValue
  <2>4. /\ lc.history \in Seq(Transition)
        /\ new.history = Append(lc.history,
                                [from |-> lc.state, to |-> to, input_ref |-> ref])
    BY <1>1 DEF Advanced, AgentLifecycleValue
  <2> QED BY <1>3, <2>1, <2>3, <2>4 DEF NeverOwned
<1> QED BY <1>2, <1>3 DEF GoodValue

LEMMA ObservedGood ==
  ASSUME NEW lc, GoodValue(lc), NEW o \in Observation, ValidLifecycle(Observed(lc, o))
  PROVE  GoodValue(Observed(lc, o))
<1>1. lc \in AgentLifecycleValue
  BY DEF GoodValue
<1>2. Observed(lc, o).state = lc.state /\ Observed(lc, o).history = lc.history
  BY <1>1 DEF Observed, AgentLifecycleValue
<1> QED BY <1>1, <1>2, ObservedType, ObservedEvidenced DEF GoodValue, NeverOwned

LEMMA LifecyclesNextInv == LifecyclesInv /\ [LifecyclesNext]_lifecycles => LifecyclesInv'
<1> SUFFICES ASSUME LifecyclesInv, [LifecyclesNext]_lifecycles
             PROVE  LifecyclesInv'
  OBVIOUS
<1>0. /\ lifecycles \in [Intents -> AgentLifecycleValue]
      /\ \A i \in Intents : GoodValue(lifecycles[i])
  BY InvIsGood
<1>1. ASSUME NEW i \in Intents, NEW new, GoodValue(new),
             lifecycles' = [lifecycles EXCEPT ![i] = new]
      PROVE  LifecyclesInv'
  <2>1. new \in AgentLifecycleValue
    BY <1>1 DEF GoodValue
  <2>2. /\ lifecycles' \in [Intents -> AgentLifecycleValue]
        /\ \A j \in Intents : lifecycles'[j] = IF j = i THEN new ELSE lifecycles[j]
    BY <1>0, <1>1, <2>1
  <2>3. \A j \in Intents : GoodValue(lifecycles'[j])
    BY <1>0, <1>1, <2>2
  <2> QED BY <2>2, <2>3 DEF LifecyclesInv, GoodValue, LifecyclesTypeOK, AlwaysValid,
                            OwnershipIsEvidenced, OwnershipIsOneWay
<1>2. ASSUME NEW i \in Intents, NEW to \in LifecycleStates, AdvanceLifecycle(i, to)
      PROVE  LifecyclesInv'
  <2>1. GoodValue(Advanced(lifecycles[i], to, NoRef))
    BY <1>0, <1>2, AdvancedGood DEF AdvanceLifecycle
  <2> QED BY <1>1, <1>2, <2>1 DEF AdvanceLifecycle
<1>3. ASSUME NEW i \in Intents, NEW o \in Observation, RecordExternalReceipt(i, o)
      PROVE  LifecyclesInv'
  <2>1. GoodValue(Observed(lifecycles[i], o))
    BY <1>0, <1>3, ObservedGood DEF RecordExternalReceipt
  <2> QED BY <1>1, <1>3, <2>1 DEF RecordExternalReceipt
<1>4. ASSUME NEW i \in Intents, NEW id \in ReceiptIds, NEW c \in Correlations,
             AcceptExternalHandoffOwnership(i, id, c)
      PROVE  LifecyclesInv'
  <2>1. GoodValue(Advanced(lifecycles[i], "handoff_accepted", id))
    BY <1>0, <1>4, AdvancedGood
    DEF AcceptExternalHandoffOwnership, LatestAccepts, LifecycleStates
  <2> QED BY <1>1, <1>4, <2>1 DEF AcceptExternalHandoffOwnership
<1>5. CASE UNCHANGED lifecycles
  BY <1>5 DEF LifecyclesInv, LifecyclesTypeOK, AlwaysValid, OwnershipIsEvidenced, OwnershipIsOneWay
<1> QED BY <1>2, <1>3, <1>4, <1>5 DEF LifecyclesNext

(* The invariant holds in every reachable state. *)
THEOREM LifecyclesInvariance == LifecyclesSpec => []LifecyclesInv
BY LifecyclesInitInv, LifecyclesNextInv, PTL DEF LifecyclesSpec

(* No sequence of calls shows external ownership, or completion, without   *)
(* an observed receipt that accepts it.                                    *)
THEOREM OwnershipEvidence == LifecyclesSpec => []OwnershipIsEvidenced
<1>1. LifecyclesInv => OwnershipIsEvidenced
  BY DEF LifecyclesInv
<1> QED BY <1>1, LifecyclesInvariance, PTL

(* Once owned externally a lifecycle is never rejected or taken back. *)
THEOREM OneWayOwnership == LifecyclesSpec => []OwnershipIsOneWay
<1>1. LifecyclesInv => OwnershipIsOneWay
  BY DEF LifecyclesInv
<1> QED BY <1>1, LifecyclesInvariance, PTL

(* The functions only build values that validate_history accepts. *)
THEOREM Validity == LifecyclesSpec => []AlwaysValid
<1>1. LifecyclesInv => AlwaysValid
  BY DEF LifecyclesInv
<1> QED BY <1>1, LifecyclesInvariance, PTL

(* The audit trail only grows and a terminal lifecycle's history is final. *)
THEOREM AppendOnlyTrail == LifecyclesSpec => AuditTrailIsAppendOnly
<1>1. ASSUME NEW lc \in AgentLifecycleValue, NEW to \in LifecycleStates,
             NEW ref \in ReceiptIds \cup {NoRef}, CanAdvance(lc, to)
      PROVE  AppendOnly(Advanced(lc, to, ref), lc)
  <2> DEFINE t   == [from |-> lc.state, to |-> to, input_ref |-> ref]
             new == Advanced(lc, to, ref)
  <2>1. /\ lc.history \in Seq(Transition)
        /\ lc.external_receipts \in Seq(Observation)
        /\ new.history = Append(lc.history, t)
        /\ new.external_receipts = lc.external_receipts
        /\ new.correlation_id = lc.correlation_id
    BY <1>1 DEF AgentLifecycleValue, Advanced
  <2>2. AllowedTransitions[lc.state] # {}
    BY <1>1 DEF CanAdvance
  <2>3. Extends(new.history, lc.history)
    BY <2>1 DEF Extends
  <2>4. Extends(new.external_receipts, lc.external_receipts)
    BY <2>1 DEF Extends
  <2> QED BY <2>1, <2>2, <2>3, <2>4 DEF AppendOnly
<1>2. ASSUME NEW lc \in AgentLifecycleValue, NEW o \in Observation
      PROVE  AppendOnly(Observed(lc, o), lc)
  <2> DEFINE new == Observed(lc, o)
  <2>1. /\ lc.history \in Seq(Transition)
        /\ lc.external_receipts \in Seq(Observation)
        /\ new.history = lc.history
        /\ new.state = lc.state
        /\ new.external_receipts = Append(lc.external_receipts, o)
        /\ new.correlation_id = lc.correlation_id
    BY <1>2 DEF AgentLifecycleValue, Observed
  <2> HIDE DEF new
  <2>2. Extends(new.history, lc.history)
    BY <2>1 DEF Extends
  <2>3. Extends(new.external_receipts, lc.external_receipts)
    BY <2>1 DEF Extends
  <2> QED BY <2>1, <2>2, <2>3 DEF AppendOnly, new
<1>3. \A lc \in AgentLifecycleValue : AppendOnly(lc, lc)
  BY DEF AppendOnly, Extends, AgentLifecycleValue
<1>4. LifecyclesTypeOK /\ [LifecyclesNext]_lifecycles =>
        [\A i \in Intents : AppendOnly(lifecycles'[i], lifecycles[i])]_lifecycles
  <2> SUFFICES ASSUME LifecyclesTypeOK, LifecyclesNext, NEW j \in Intents
               PROVE  AppendOnly(lifecycles'[j], lifecycles[j])
    OBVIOUS
  <2>1. \A i \in Intents : lifecycles[i] \in AgentLifecycleValue
    BY DEF LifecyclesTypeOK
  <2>2. ASSUME NEW i \in Intents, NEW new, AppendOnly(new, lifecycles[i]),
               lifecycles' = [lifecycles EXCEPT ![i] = new]
        PROVE  AppendOnly(lifecycles'[j], lifecycles[j])
    <3>1. lifecycles'[j] = IF j = i THEN new ELSE lifecycles[j]
      BY <2>2 DEF LifecyclesTypeOK
    <3> QED BY <1>3, <2>1, <2>2, <3>1
  <2>3. ASSUME NEW i \in Intents, NEW to \in LifecycleStates, AdvanceLifecycle(i, to)
        PROVE  AppendOnly(lifecycles'[j], lifecycles[j])
    BY <1>1, <2>1, <2>2, <2>3 DEF AdvanceLifecycle
  <2>4. ASSUME NEW i \in Intents, NEW o \in Observation, RecordExternalReceipt(i, o)
        PROVE  AppendOnly(lifecycles'[j], lifecycles[j])
    BY <1>2, <2>1, <2>2, <2>4 DEF RecordExternalReceipt
  <2>5. ASSUME NEW i \in Intents, NEW id \in ReceiptIds, NEW c \in Correlations,
               AcceptExternalHandoffOwnership(i, id, c)
        PROVE  AppendOnly(lifecycles'[j], lifecycles[j])
    <3>1. AppendOnly(Advanced(lifecycles[i], "handoff_accepted", id), lifecycles[i])
      BY <1>1, <2>1, <2>5 DEF AcceptExternalHandoffOwnership, LifecycleStates
    <3> QED BY <2>2, <2>5, <3>1 DEF AcceptExternalHandoffOwnership
  <2> QED BY <2>3, <2>4, <2>5 DEF LifecyclesNext
<1> QED BY <1>4, LifecyclesTypeCorrect, PTL DEF LifecyclesSpec, AuditTrailIsAppendOnly

(* Only the latest observation of a receipt can accept ownership. *)
LEMMA LatestIsMax ==
  ASSUME NEW receipts \in Seq(Observation), NEW id, LatestAccepts(receipts, id)
  PROVE  LET observed == {k \in DOMAIN receipts : receipts[k].receipt_id = id}
         IN  observed # {} /\ receipts[Max(observed)].status = OwnershipAccepted
<1> DEFINE observed == {k \in DOMAIN receipts : receipts[k].receipt_id = id}
<1>1. PICK k \in observed :
        /\ receipts[k].status = OwnershipAccepted
        /\ \A m \in DOMAIN receipts : m > k => receipts[m].receipt_id # id
  BY DEF LatestAccepts
<1>2. DOMAIN receipts \subseteq Nat
  OBVIOUS
<1>3. \A m \in observed : k >= m
  BY <1>1, <1>2
<1> HIDE DEF observed
<1>4. \A m \in observed : (\A n \in observed : m >= n) => m = k
  BY <1>1, <1>2, <1>3 DEF observed
<1>5. Max(observed) = k
  BY <1>1, <1>3, <1>4 DEF Max
<1> QED BY <1>1, <1>5 DEF observed

(* When receipts arrive out of order the latest observation decides. *)
THEOREM LatestDecides == LifecyclesSpec => LatestObservationDecides
<1> DEFINE Cites(i) ==
      LET receipts == lifecycles[i].external_receipts
          cited    == lifecycles'[i].history[Len(lifecycles'[i].history)].input_ref
          observed == {k \in DOMAIN receipts : receipts[k].receipt_id = cited}
      IN observed # {} /\ receipts[Max(observed)].status = OwnershipAccepted
           Decides(i) ==
      lifecycles'[i].state = "handoff_accepted" /\ lifecycles[i].state # "handoff_accepted" =>
        Cites(i)
<1>1. LifecyclesTypeOK /\ [LifecyclesNext]_lifecycles => [\A i \in Intents : Decides(i)]_lifecycles
  <2> SUFFICES ASSUME LifecyclesTypeOK, LifecyclesNext, NEW j \in Intents,
                      lifecycles'[j].state = "handoff_accepted",
                      lifecycles[j].state # "handoff_accepted"
               PROVE  Cites(j)
    OBVIOUS
  <2>1. lifecycles[j] \in AgentLifecycleValue
    BY DEF LifecyclesTypeOK
  <2>2. ASSUME NEW i \in Intents, NEW to \in LifecycleStates, AdvanceLifecycle(i, to)
        PROVE  FALSE
    <3>1. lifecycles'[j] = IF j = i THEN Advanced(lifecycles[j], to, NoRef) ELSE lifecycles[j]
      BY <2>2 DEF LifecyclesTypeOK, AdvanceLifecycle
    <3> QED BY <2>1, <2>2, <3>1 DEF AdvanceLifecycle, Advanced, AgentLifecycleValue
  <2>3. ASSUME NEW i \in Intents, NEW o \in Observation, RecordExternalReceipt(i, o)
        PROVE  FALSE
    <3>1. lifecycles'[j] = IF j = i THEN Observed(lifecycles[j], o) ELSE lifecycles[j]
      BY <2>3 DEF LifecyclesTypeOK, RecordExternalReceipt
    <3> QED BY <2>1, <2>3, <3>1 DEF Observed, AgentLifecycleValue
  <2>4. ASSUME NEW i \in Intents, NEW id \in ReceiptIds, NEW c \in Correlations,
               AcceptExternalHandoffOwnership(i, id, c)
        PROVE  Cites(j)
    <3> DEFINE t == [from |-> lifecycles[j].state, to |-> "handoff_accepted", input_ref |-> id]
    <3>1. i = j
      BY <2>4 DEF LifecyclesTypeOK, AcceptExternalHandoffOwnership
    <3>2. lifecycles'[j] = Advanced(lifecycles[j], "handoff_accepted", id)
      BY <2>4, <3>1 DEF LifecyclesTypeOK, AcceptExternalHandoffOwnership
    <3>3. lifecycles[j].history \in Seq(Transition) /\ lifecycles'[j].history = Append(lifecycles[j].history, t)
      BY <2>1, <3>2 DEF Advanced, AgentLifecycleValue
    <3>4. lifecycles'[j].history[Len(lifecycles'[j].history)] = t
      BY <3>3
    <3>5. LatestAccepts(lifecycles[j].external_receipts, id)
      BY <2>4, <3>1 DEF AcceptExternalHandoffOwnership
    <3>6. lifecycles[j].external_receipts \in Seq(Observation)
      BY <2>1 DEF AgentLifecycleValue
    <3> QED BY <3>4, <3>5, <3>6, LatestIsMax
  <2> QED BY <2>2, <2>3, <2>4 DEF LifecyclesNext
<1> QED BY <1>1, LifecyclesTypeCorrect, PTL DEF LifecyclesSpec, LatestObservationDecides
============================================================================
