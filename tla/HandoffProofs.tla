---------------------------- MODULE HandoffProofs ----------------------------
(***************************************************************************)
(* Proofs about Handoff for any set of attempts, intents, keys and         *)
(* evidence and any faults: what a caller is told agrees with what the     *)
(* orchestrator holds, and the protocol implements HandoffContract.        *)
(***************************************************************************)
EXTENDS Handoff, LifecycleProofs

(* Statuses of a receipt that refers to a stored handoff. *)
StoredStatuses == {"accepted_for_review", "duplicate"}

RefusedPair(r) ==
  \/ ~RecordAccepted(r.intent)
  \/ ~PayloadAccepted(r.intent, r.review # NoReview)
  \/ r.intent.operation \in RemoteRefused

(* Every receipt ever issued still tells the truth about the store. *)
ReceiptIsTrue(r) ==
  LET held == store[r.payload.key] IN
    /\ r.status \in StoredStatuses =>
         held # None /\ held.payload = r.payload /\ held.review = r.review
    /\ r.status = "conflict" => held # None /\ held.payload # r.payload
    /\ r.status = "rejected_by_policy" =>
         RefusedPair([intent |-> r.payload, review |-> r.review])

AnswersAreTrue == \A m \in answers : ReceiptIsTrue(m.receipt)

(* What is stored was acceptable and sits under its own key. *)
StoreIsSound ==
  \A k \in ReceiptIds : store[k] # None =>
    /\ store[k].payload.key = k
    /\ ~RefusedPair([intent |-> store[k].payload, review |-> store[k].review])

KeyTakenByOther(a) ==
  store[Intent(a).key] # None /\ store[Intent(a).key].payload # Intent(a)

(* Where an attempt is, what its caller holds and why. *)
AttemptIsSound(a) ==
  /\ pc[a] # "returned" => error[a] = "" /\ lifecycle[a].state = "planned"
  /\ pc[a] \in {"waiting", "raised"} => LocallyAccepted(a)
  /\ pc[a] = "returned" =>
       /\ lifecycle[a].state \in {"handoff_requested", "rejected", "failed"}
       /\ error[a] # "local_validation" => LocallyAccepted(a)
       /\ error[a] = "conflict" => KeyTakenByOther(a)
       /\ lifecycle[a].state = "handoff_requested" => Registered(a)
       /\ lifecycle[a].state = "rejected" => RefusedPair(request[a]) \/ KeyTakenByOther(a)

AttemptsAreSound == \A a \in Attempts : AttemptIsSound(a)

IInv == TypeOK /\ AnswersAreTrue /\ StoreIsSound /\ AttemptsAreSound

----------------------------------------------------------------------------

(* The state an advance or an observation leaves a lifecycle in. *)
LEMMA AdvancedState ==
  ASSUME NEW lc \in AgentLifecycleValue, NEW to, NEW ref
  PROVE  Advanced(lc, to, ref).state = to
BY DEF Advanced, AgentLifecycleValue

LEMMA ObservedState ==
  ASSUME NEW lc \in AgentLifecycleValue, NEW o
  PROVE  Observed(lc, o).state = lc.state
BY DEF Observed, AgentLifecycleValue

(* The caller's value and the coordinator's local one. *)
LEMMA RequestedValue ==
  ASSUME TypeOK, NEW a \in Attempts
  PROVE  /\ lifecycle[a] \in AgentLifecycleValue
         /\ Requested(a) \in AgentLifecycleValue
         /\ Requested(a).state = "handoff_requested"
<1>1. lifecycle[a] \in AgentLifecycleValue
  BY DEF TypeOK
<1>2. Advanced(lifecycle[a], "validated_for_handoff", NoRef) \in AgentLifecycleValue
  BY <1>1, AdvancedType DEF LifecycleStates
<1> QED BY <1>1, <1>2, AdvancedType, AdvancedState DEF LifecycleStates, Requested

(* What the assumptions say of one attempt's request. *)
LEMMA RequestType ==
  ASSUME TypeOK, NEW a \in Attempts
  PROVE  /\ Intent(a) \in IntentRecords
         /\ Intent(a).key \in ReceiptIds
         /\ Intent(a).correlation_id \in Correlations
         /\ Review(a) \in Reviews
         /\ request[a] = [intent |-> Intent(a), review |-> Review(a)]
<1>1. request[a] \in [intent: IntentRecords, review: Reviews]
  BY DEF TypeOK, Request
<1>2. /\ request[a] = [intent |-> request[a].intent, review |-> request[a].review]
      /\ request[a].intent \in IntentRecords
      /\ request[a].review \in Reviews
  BY <1>1
<1>3. \A i \in IntentRecords : i.key \in ReceiptIds /\ i.correlation_id \in Correlations
  BY HandoffAssumption
<1> QED BY <1>2, <1>3 DEF Intent, Review

LEMMA MadeReceiptType ==
  ASSUME TypeOK, NEW a \in Attempts,
         NEW status \in {"accepted_for_review", "duplicate", "rejected_by_policy", "conflict"}
  PROVE  MakeReceipt(Intent(a), status, Review(a)) \in Receipt
BY RequestType DEF MakeReceipt, Receipt

(* An initial lifecycle is one a caller has planned. *)
LEMMA PlannedValue ==
  ASSUME NEW c \in Correlations
  PROVE  Planned(c) \in AgentLifecycleValue /\ Planned(c).state = "planned"
<1>1. NewLifecycle(c) \in AgentLifecycleValue
  BY NewValid
<1>2. Advanced(NewLifecycle(c), "classified", NoRef) \in AgentLifecycleValue
  BY <1>1, AdvancedType DEF LifecycleStates
<1> QED BY <1>2, AdvancedType, AdvancedState DEF Planned, LifecycleStates

LEMMA InitIInv == Init => IInv
<1> SUFFICES ASSUME Init PROVE IInv
  OBVIOUS
<1>1. PICK correlation \in [Attempts -> Correlations] :
        lifecycle = [a \in Attempts |-> Planned(correlation[a])]
  BY DEF Init
<1>2. \A a \in Attempts :
        lifecycle[a] \in AgentLifecycleValue /\ lifecycle[a].state = "planned"
  BY <1>1, PlannedValue
<1>3. TypeOK
  BY <1>1, <1>2 DEF Init, TypeOK
<1>4. AnswersAreTrue /\ StoreIsSound
  BY DEF Init, AnswersAreTrue, StoreIsSound
<1>5. AttemptsAreSound
  BY <1>2 DEF Init, AttemptsAreSound, AttemptIsSound
<1> QED BY <1>3, <1>4, <1>5 DEF IInv

----------------------------------------------------------------------------
(* The orchestrator's steps: the store only grows, and only at free keys. *)

LEMMA AnswerStep ==
  ASSUME TypeOK, NEW a \in Attempts, Orchestrator(a)
  PROVE  /\ UNCHANGED <<request, pc, lifecycle, error>>
         /\ \E r \in Receipt :
              /\ answers' = answers \cup {[to |-> a, receipt |-> r]}
              /\ \/ AnswerDuplicate(a)
                    /\ r = [store[Intent(a).key] EXCEPT !.status = "duplicate"]
                 \/ AnswerConflict(a)
                    /\ r = MakeReceipt(Intent(a), "conflict", Review(a))
                 \/ AnswerAccepted(a)
                    /\ r = MakeReceipt(Intent(a), "accepted_for_review", Review(a))
                 \/ AnswerRejected(a)
                    /\ r = MakeReceipt(Intent(a), "rejected_by_policy", Review(a))
<1>1. CASE AnswerDuplicate(a)
  <2>1. store[Intent(a).key] \in Receipt
    BY <1>1, RequestType DEF AnswerDuplicate, TypeOK
  <2>2. [store[Intent(a).key] EXCEPT !.status = "duplicate"] \in Receipt
    BY <2>1 DEF Receipt
  <2> QED BY <1>1, <2>2 DEF AnswerDuplicate, Answer
<1>2. CASE AnswerConflict(a)
  BY <1>2, MadeReceiptType DEF AnswerConflict, Answer
<1>3. CASE AnswerAccepted(a)
  BY <1>3, MadeReceiptType DEF AnswerAccepted, Answer
<1>4. CASE AnswerRejected(a)
  BY <1>4, MadeReceiptType DEF AnswerRejected, Answer
<1> QED BY <1>1, <1>2, <1>3, <1>4 DEF Orchestrator

LEMMA StoreStep ==
  ASSUME TypeOK, NEW a \in Attempts, Orchestrator(a)
  PROVE  \/ UNCHANGED store /\ ~AnswerAccepted(a)
         \/ /\ AnswerAccepted(a)
            /\ store[Intent(a).key] = None
            /\ store' = [store EXCEPT ![Intent(a).key] =
                           MakeReceipt(Intent(a), "accepted_for_review", Review(a))]
<1>1. ASSUME AnswerAccepted(a)
      PROVE  ~AnswerDuplicate(a) /\ ~AnswerConflict(a) /\ ~AnswerRejected(a)
  BY <1>1 DEF AnswerAccepted, AnswerDuplicate, AnswerConflict, AnswerRejected
<1> QED BY <1>1 DEF Orchestrator, AnswerAccepted, AnswerDuplicate, AnswerConflict,
                    AnswerRejected

LEMMA StoreGrows ==
  ASSUME TypeOK, NEW a \in Attempts, Orchestrator(a)
  PROVE  \A k \in ReceiptIds : store[k] # None => store'[k] = store[k]
<1>1. store \in [ReceiptIds -> Receipt \cup {None}]
  BY DEF TypeOK
<1> QED BY <1>1, StoreStep

(* Validation does not depend on who runs it, so the orchestrator, asked   *)
(* with what was sent, never accepts what the coordinator would refuse.    *)
LEMMA ReviewOnlyRelaxes ==
  ASSUME NEW intent \in IntentRecords, NEW reviewed \in BOOLEAN,
         PayloadAccepted(intent, reviewed)
  PROVE  RecordAccepted(intent)
BY DEF PayloadAccepted, RecordAccepted, EvaluateOperation, HumanReviewRequiredOperations,
       AllowedInitialOperations, SafeInitialOperations, FutureBlockedOperations

LEMMA OrchestratorIInv ==
  ASSUME IInv, NEW a \in Attempts, Orchestrator(a)
  PROVE  IInv'
<1>0. TypeOK /\ AnswersAreTrue /\ StoreIsSound /\ AttemptsAreSound
  BY DEF IInv
<1>1. PICK r \in Receipt :
        /\ answers' = answers \cup {[to |-> a, receipt |-> r]}
        /\ \/ AnswerDuplicate(a)
              /\ r = [store[Intent(a).key] EXCEPT !.status = "duplicate"]
           \/ AnswerConflict(a)
              /\ r = MakeReceipt(Intent(a), "conflict", Review(a))
           \/ AnswerAccepted(a)
              /\ r = MakeReceipt(Intent(a), "accepted_for_review", Review(a))
           \/ AnswerRejected(a)
              /\ r = MakeReceipt(Intent(a), "rejected_by_policy", Review(a))
  BY <1>0, AnswerStep
<1>2. UNCHANGED <<request, pc, lifecycle, error>>
  BY <1>0, AnswerStep
<1>3. /\ Intent(a) \in IntentRecords /\ Intent(a).key \in ReceiptIds
      /\ Review(a) \in Reviews
      /\ request[a] = [intent |-> Intent(a), review |-> Review(a)]
  BY <1>0, RequestType
<1>4. \A k \in ReceiptIds : store[k] # None => store'[k] = store[k]
  BY <1>0, StoreGrows
<1>5. store \in [ReceiptIds -> Receipt \cup {None}]
  BY <1>0 DEF TypeOK
<1>6. MakeReceipt(Intent(a), "accepted_for_review", Review(a)) \in Receipt
  BY <1>0, MadeReceiptType
<1>7. TypeOK'
  <2>1. store' \in [ReceiptIds -> Receipt \cup {None}]
    BY <1>0, <1>3, <1>5, <1>6, StoreStep
  <2>2. answers' \subseteq [to: Attempts, receipt: Receipt]
    <3>1. [to |-> a, receipt |-> r] \in [to: Attempts, receipt: Receipt]
      OBVIOUS
    <3>2. answers' = answers \cup {[to |-> a, receipt |-> r]}
      BY <1>1
    <3> QED BY <1>0, <3>1, <3>2 DEF TypeOK
  <2> QED BY <1>0, <1>2, <2>1, <2>2 DEF TypeOK
<1>8. ASSUME AnswerAccepted(a)
      PROVE  ~RefusedPair(request[a])
  <2>1. /\ PayloadAccepted(Intent(a), Review(a) # NoReview)
        /\ Intent(a).operation \notin RemoteRefused
    BY <1>8 DEF AnswerAccepted, RemotelyAccepted
  <2>2. RecordAccepted(Intent(a))
    BY <1>3, <2>1, ReviewOnlyRelaxes
  <2> QED BY <2>1, <2>2 DEF RefusedPair, Intent, Review
<1>9. StoreIsSound'
  <2>1. ASSUME UNCHANGED store PROVE StoreIsSound'
    BY <1>0, <2>1 DEF StoreIsSound, RefusedPair
  <2>2. CASE AnswerAccepted(a) /\
             store' = [store EXCEPT ![Intent(a).key] =
                         MakeReceipt(Intent(a), "accepted_for_review", Review(a))]
    <3> SUFFICES ASSUME NEW k \in ReceiptIds, store'[k] # None
                 PROVE  /\ store'[k].payload.key = k
                        /\ ~RefusedPair([intent |-> store'[k].payload,
                                         review |-> store'[k].review])
      BY DEF StoreIsSound, RefusedPair
    <3>1. CASE k = Intent(a).key
      <4>1. store'[k] = MakeReceipt(Intent(a), "accepted_for_review", Review(a))
        BY <1>5, <2>2, <3>1
      <4>2. store'[k].payload = Intent(a) /\ store'[k].review = Review(a)
        BY <4>1 DEF MakeReceipt
      <4>3. store'[k].payload.key = k
        BY <3>1, <4>2
      <4>4. request[a] = [intent |-> store'[k].payload, review |-> store'[k].review]
        BY <1>3, <4>2
      <4>5. ~RefusedPair([intent |-> store'[k].payload, review |-> store'[k].review])
        BY <1>8, <2>2, <4>4
      <4> QED BY <4>3, <4>5
    <3>2. CASE k # Intent(a).key
      BY <1>0, <1>5, <2>2, <3>2 DEF StoreIsSound
    <3> QED BY <3>1, <3>2
  <2> QED BY <1>0, <2>1, <2>2, StoreStep
<1>10. AnswersAreTrue'
  <2> SUFFICES ASSUME NEW m \in answers' PROVE ReceiptIsTrue(m.receipt)'
    BY DEF AnswersAreTrue
  <2>1. CASE m \in answers
    <3>1. ReceiptIsTrue(m.receipt)
      BY <1>0, <2>1 DEF AnswersAreTrue
    <3>2. m.receipt.payload.key \in ReceiptIds
      BY <1>0, <2>1, HandoffAssumption DEF TypeOK, Receipt
    <3> QED BY <1>4, <3>1, <3>2 DEF ReceiptIsTrue, RefusedPair
  <2>2. CASE m = [to |-> a, receipt |-> r]
    <3>0. m.receipt = r
      BY <2>2
    <3>1. CASE AnswerDuplicate(a)
               /\ r = [store[Intent(a).key] EXCEPT !.status = "duplicate"]
      <4>1. /\ store[Intent(a).key] \in Receipt
            /\ store'[Intent(a).key] = store[Intent(a).key]
        BY <1>3, <1>4, <1>5, <3>1 DEF AnswerDuplicate
      <4>2. /\ r.payload = store[Intent(a).key].payload
            /\ r.review = store[Intent(a).key].review
            /\ r.status = "duplicate"
        BY <3>1, <4>1 DEF Receipt
      <4>3. r.payload = Intent(a) /\ store[Intent(a).key] # None
        BY <3>1, <4>2 DEF AnswerDuplicate
      <4> QED BY <3>0, <4>1, <4>2, <4>3 DEF ReceiptIsTrue
    <3>2. CASE AnswerConflict(a) /\ r = MakeReceipt(Intent(a), "conflict", Review(a))
      <4>1. r.payload = Intent(a) /\ r.status = "conflict"
        BY <3>2 DEF MakeReceipt
      <4>2. /\ store[Intent(a).key] # None /\ store[Intent(a).key].payload # Intent(a)
            /\ store'[Intent(a).key] = store[Intent(a).key]
        BY <1>3, <1>4, <3>2 DEF AnswerConflict
      <4> QED BY <3>0, <4>1, <4>2 DEF ReceiptIsTrue, StoredStatuses
    <3>3. CASE AnswerAccepted(a)
               /\ r = MakeReceipt(Intent(a), "accepted_for_review", Review(a))
      <4>1. /\ r.payload = Intent(a) /\ r.status = "accepted_for_review"
            /\ r.review = Review(a)
        BY <3>3 DEF MakeReceipt
      <4>2. store'[Intent(a).key] = r
        BY <1>3, <1>5, <3>3 DEF AnswerAccepted
      <4>3. r # None
        BY HandoffAssumption DEF Receipt, Reviews
      <4> QED BY <3>0, <4>1, <4>2, <4>3 DEF ReceiptIsTrue
    <3>4. CASE AnswerRejected(a)
               /\ r = MakeReceipt(Intent(a), "rejected_by_policy", Review(a))
      <4>1. /\ r.payload = Intent(a) /\ r.status = "rejected_by_policy"
            /\ r.review = Review(a)
        BY <3>4 DEF MakeReceipt
      <4>2. RefusedPair([intent |-> r.payload, review |-> r.review])
        BY <3>4, <4>1 DEF AnswerRejected, RemotelyAccepted, RefusedPair
      <4> QED BY <3>0, <4>1, <4>2 DEF ReceiptIsTrue, StoredStatuses, RefusedPair
    <3> QED BY <1>1, <3>1, <3>2, <3>3, <3>4
  <2> QED BY <1>1, <2>1, <2>2
<1>11. AttemptsAreSound'
  <2> SUFFICES ASSUME NEW b \in Attempts PROVE AttemptIsSound(b)'
    BY DEF AttemptsAreSound
  <2>1. AttemptIsSound(b) /\ Intent(b).key \in ReceiptIds
    BY <1>0, RequestType DEF AttemptsAreSound
  <2>2. Intent(b)' = Intent(b) /\ Review(b)' = Review(b)
    BY <1>2 DEF Intent, Review
  <2>3. store[Intent(b).key] # None => store'[Intent(b).key] = store[Intent(b).key]
    BY <1>4, <2>1
  <2>4. Registered(b) => Registered(b)'
    BY <2>2, <2>3 DEF Registered
  <2>5. KeyTakenByOther(b) => KeyTakenByOther(b)'
    BY <2>2, <2>3 DEF KeyTakenByOther
  <2>6. LocallyAccepted(b)' <=> LocallyAccepted(b)
    BY <2>2 DEF LocallyAccepted
  <2>7. RefusedPair(request[b])' <=> RefusedPair(request[b])
    BY <1>2 DEF RefusedPair
  <2> QED BY <1>2, <2>1, <2>4, <2>5, <2>6, <2>7 DEF AttemptIsSound
<1> QED BY <1>7, <1>9, <1>10, <1>11 DEF IInv

----------------------------------------------------------------------------
(* The coordinator's steps: only the attempt's own entries change. *)

(* A receipt that is for the attempt decides what the caller is told. *)
LEMMA HandleReceiptStep ==
  ASSUME TypeOK, NEW a \in Attempts, NEW r \in Receipt, HandleReceipt(a, r)
  PROVE  \E lc \in AgentLifecycleValue, code \in {"receipt_context_mismatch", ""} \cup RefusingStatuses :
           /\ Return(a, lc, code)
           /\ \/ ~ReceiptMatches(a, r) /\ code = "receipt_context_mismatch" /\ lc.state = "failed"
              \/ /\ ReceiptMatches(a, r) /\ r.status \in RefusingStatuses
                 /\ code = r.status /\ lc.state = "rejected"
              \/ /\ ReceiptMatches(a, r) /\ r.status \in StoredStatuses
                 /\ code = "" /\ lc.state = "handoff_requested"
<1> DEFINE o == [receipt_id |-> r.receipt_id, status |-> r.status,
                 correlation_id |-> r.payload.correlation_id]
           observed == Observed(Requested(a), o)
<1>1. Requested(a) \in AgentLifecycleValue /\ Requested(a).state = "handoff_requested"
  BY RequestedValue
<1>2. /\ r.receipt_id \in ReceiptIds
      /\ r.status \in {"accepted_for_review", "duplicate", "rejected_by_policy", "conflict"}
      /\ r.payload \in IntentRecords
  BY DEF Receipt
<1>3. o \in Observation
  BY <1>2, HandoffAssumption DEF Observation
<1>4. observed \in AgentLifecycleValue /\ observed.state = "handoff_requested"
  BY <1>1, <1>3, ObservedType, ObservedState
<1>5. /\ Advanced(Requested(a), "failed", NoRef) \in AgentLifecycleValue
      /\ Advanced(Requested(a), "failed", NoRef).state = "failed"
  BY <1>1, AdvancedType, AdvancedState DEF LifecycleStates
<1>6. /\ Advanced(observed, "rejected", NoRef) \in AgentLifecycleValue
      /\ Advanced(observed, "rejected", NoRef).state = "rejected"
  BY <1>4, AdvancedType, AdvancedState DEF LifecycleStates
<1> HIDE DEF observed, o
<1>7. \/ /\ ~ReceiptMatches(a, r)
         /\ Return(a, Advanced(Requested(a), "failed", NoRef), "receipt_context_mismatch")
      \/ /\ ReceiptMatches(a, r)
         /\ r.status \in RefusingStatuses
         /\ Return(a, Advanced(observed, "rejected", NoRef), r.status)
      \/ /\ ReceiptMatches(a, r)
         /\ r.status \notin RefusingStatuses
         /\ Return(a, observed, "")
  BY DEF HandleReceipt, observed, o
<1>8. CASE /\ ~ReceiptMatches(a, r)
           /\ Return(a, Advanced(Requested(a), "failed", NoRef), "receipt_context_mismatch")
  BY <1>5, <1>8
<1>9. CASE /\ ReceiptMatches(a, r)
           /\ r.status \in RefusingStatuses
           /\ Return(a, Advanced(observed, "rejected", NoRef), r.status)
  BY <1>6, <1>9
<1>10. CASE /\ ReceiptMatches(a, r)
            /\ r.status \notin RefusingStatuses
            /\ Return(a, observed, "")
  <2>1. r.status \in StoredStatuses
    BY <1>2, <1>10 DEF StoredStatuses, RefusingStatuses
  <2> QED BY <1>4, <1>10, <2>1
<1> QED BY <1>7, <1>8, <1>9, <1>10

(* A step of one attempt that keeps its own part of the invariant keeps    *)
(* all of it.                                                              *)
LEMMA OwnStep ==
  ASSUME IInv, NEW a \in Attempts,
         NEW p \in {"idle", "waiting", "returned", "raised"},
         NEW lc \in AgentLifecycleValue,
         NEW code \in {"", "local_validation", "orchestrator_port_error",
                       "receipt_context_mismatch"} \cup RefusingStatuses,
         pc' = [pc EXCEPT ![a] = p],
         lifecycle' = [lifecycle EXCEPT ![a] = lc],
         error' = [error EXCEPT ![a] = code],
         UNCHANGED <<request, store, answers>>,
         p # "returned" => code = "" /\ lc.state = "planned",
         p \in {"waiting", "raised"} => LocallyAccepted(a),
         p = "returned" =>
           /\ lc.state \in {"handoff_requested", "rejected", "failed"}
           /\ code # "local_validation" => LocallyAccepted(a)
           /\ code = "conflict" => KeyTakenByOther(a)
           /\ lc.state = "handoff_requested" => Registered(a)
           /\ lc.state = "rejected" => RefusedPair(request[a]) \/ KeyTakenByOther(a)
  PROVE  IInv'
<1>0. TypeOK /\ AnswersAreTrue /\ StoreIsSound /\ AttemptsAreSound
  BY DEF IInv
<1>1. TypeOK'
  BY <1>0 DEF TypeOK
<1>2. AnswersAreTrue' /\ StoreIsSound'
  BY <1>0 DEF AnswersAreTrue, StoreIsSound, ReceiptIsTrue, RefusedPair
<1>3. AttemptsAreSound'
  <2> SUFFICES ASSUME NEW b \in Attempts PROVE AttemptIsSound(b)'
    BY DEF AttemptsAreSound
  <2>1. /\ LocallyAccepted(b)' <=> LocallyAccepted(b)
        /\ KeyTakenByOther(b)' <=> KeyTakenByOther(b)
        /\ Registered(b)' <=> Registered(b)
        /\ RefusedPair(request[b])' <=> RefusedPair(request[b])
    BY DEF LocallyAccepted, KeyTakenByOther, Registered, RefusedPair, Intent, Review
  <2>2. CASE b = a
    <3>1. pc'[a] = p /\ lifecycle'[a] = lc /\ error'[a] = code
      BY <1>0 DEF TypeOK
    <3> QED BY <2>1, <2>2, <3>1 DEF AttemptIsSound
  <2>3. CASE b # a
    <3>1. pc'[b] = pc[b] /\ lifecycle'[b] = lifecycle[b] /\ error'[b] = error[b]
      BY <1>0, <2>3 DEF TypeOK
    <3>2. AttemptIsSound(b)
      BY <1>0 DEF AttemptsAreSound
    <3> QED BY <2>1, <3>1, <3>2 DEF AttemptIsSound
  <2> QED BY <2>2, <2>3
<1> QED BY <1>1, <1>2, <1>3 DEF IInv

LEMMA CoordinatorIInv ==
  ASSUME IInv, NEW a \in Attempts, Coordinator(a)
  PROVE  IInv'
<1>0. TypeOK /\ AnswersAreTrue /\ AttemptIsSound(a)
  BY DEF IInv, AttemptsAreSound
<1>1. /\ lifecycle[a] \in AgentLifecycleValue
      /\ Requested(a) \in AgentLifecycleValue
  BY <1>0, RequestedValue
<1>2. /\ pc \in [Attempts -> {"idle", "waiting", "returned", "raised"}]
      /\ lifecycle \in [Attempts -> AgentLifecycleValue]
      /\ error = [error EXCEPT ![a] = error[a]]
      /\ lifecycle = [lifecycle EXCEPT ![a] = lifecycle[a]]
  BY <1>0 DEF TypeOK
<1>3. CASE RejectLocally(a)
  <2> DEFINE lc == Advanced(lifecycle[a], "rejected", NoRef)
  <2>1. lc \in AgentLifecycleValue /\ lc.state = "rejected"
    BY <1>1, AdvancedType, AdvancedState DEF LifecycleStates
  <2>2. RefusedPair(request[a])
    BY <1>3 DEF RejectLocally, LocallyAccepted, RefusedPair, Intent, Review
  <2> HIDE DEF lc
  <2>3. /\ pc' = [pc EXCEPT ![a] = "returned"]
        /\ lifecycle' = [lifecycle EXCEPT ![a] = lc]
        /\ error' = [error EXCEPT ![a] = "local_validation"]
        /\ UNCHANGED <<request, store, answers>>
    BY <1>3 DEF RejectLocally, Return, lc
  <2> QED BY <2>1, <2>2, <2>3, OwnStep
<1>4. CASE Submit(a)
  <2>1. error[a] = "" /\ lifecycle[a].state = "planned" /\ LocallyAccepted(a)
    BY <1>0, <1>4 DEF Submit, AttemptIsSound
  <2>2. /\ pc' = [pc EXCEPT ![a] = "waiting"]
        /\ lifecycle' = [lifecycle EXCEPT ![a] = lifecycle[a]]
        /\ error' = [error EXCEPT ![a] = ""]
        /\ UNCHANGED <<request, store, answers>>
    BY <1>2, <1>4, <2>1 DEF Submit
  <2> QED BY <1>1, <2>1, <2>2, OwnStep
<1>5. CASE Deliver(a)
  <2>1. PICK m \in answers : HandleReceipt(a, m.receipt)
    BY <1>5 DEF Deliver
  <2> DEFINE r == m.receipt
  <2>2. r \in Receipt /\ ReceiptIsTrue(r)
    BY <1>0 DEF TypeOK, AnswersAreTrue
  <2> HIDE DEF r
  <2>3. PICK lc \in AgentLifecycleValue,
             code \in {"receipt_context_mismatch", ""} \cup RefusingStatuses :
           /\ Return(a, lc, code)
           /\ \/ ~ReceiptMatches(a, r) /\ code = "receipt_context_mismatch" /\ lc.state = "failed"
              \/ /\ ReceiptMatches(a, r) /\ r.status \in RefusingStatuses
                 /\ code = r.status /\ lc.state = "rejected"
              \/ /\ ReceiptMatches(a, r) /\ r.status \in StoredStatuses
                 /\ code = "" /\ lc.state = "handoff_requested"
    BY <1>0, <2>1, <2>2, HandleReceiptStep DEF r
  <2>4. pc[a] = "waiting" /\ LocallyAccepted(a)
    BY <1>0, <1>5 DEF Deliver, AttemptIsSound
  <2>5. /\ pc' = [pc EXCEPT ![a] = "returned"]
        /\ lifecycle' = [lifecycle EXCEPT ![a] = lc]
        /\ error' = [error EXCEPT ![a] = code]
        /\ UNCHANGED <<request, store, answers>>
    BY <1>5, <2>3 DEF Deliver, Return
  <2>6. ReceiptMatches(a, r) => /\ r.payload = Intent(a) /\ r.review = Review(a)
                                /\ request[a] = [intent |-> r.payload, review |-> r.review]
    BY <1>0, RequestType DEF ReceiptMatches
  <2>7. lc.state = "handoff_requested" => Registered(a)
    BY <2>2, <2>3, <2>6 DEF ReceiptIsTrue, Registered
  <2>8. code = "conflict" => KeyTakenByOther(a)
    BY <2>2, <2>3, <2>6 DEF ReceiptIsTrue, KeyTakenByOther
  <2>9. lc.state = "rejected" => RefusedPair(request[a]) \/ KeyTakenByOther(a)
    <3>1. CASE code = "conflict"
      BY <2>8, <3>1
    <3>2. CASE code # "conflict" /\ lc.state = "rejected"
      <4>1. r.status = "rejected_by_policy" /\ ReceiptMatches(a, r)
        BY <2>3, <3>2 DEF RefusingStatuses
      <4>2. RefusedPair([intent |-> r.payload, review |-> r.review])
        BY <2>2, <4>1 DEF ReceiptIsTrue
      <4> QED BY <2>6, <4>1, <4>2
    <3> QED BY <3>1, <3>2
  <2>10. lc.state \in {"handoff_requested", "rejected", "failed"}
    BY <2>3
  <2>11. code # "local_validation"
    BY DEF RefusingStatuses
  <2> QED BY <2>4, <2>5, <2>7, <2>8, <2>9, <2>10, <2>11, OwnStep
<1>6. CASE PortFails(a)
  <2> DEFINE lc == Advanced(Requested(a), "failed", NoRef)
  <2>1. lc \in AgentLifecycleValue /\ lc.state = "failed"
    BY <1>1, AdvancedType, AdvancedState DEF LifecycleStates
  <2>2. LocallyAccepted(a)
    BY <1>0, <1>6 DEF PortFails, AttemptIsSound
  <2> HIDE DEF lc
  <2>3. /\ pc' = [pc EXCEPT ![a] = "returned"]
        /\ lifecycle' = [lifecycle EXCEPT ![a] = lc]
        /\ error' = [error EXCEPT ![a] = "orchestrator_port_error"]
        /\ UNCHANGED <<request, store, answers>>
    BY <1>6 DEF PortFails, Return, lc
  <2> QED BY <2>1, <2>2, <2>3, OwnStep
<1>7. CASE ErrorBodyUnreadable(a)
  <2>1. error[a] = "" /\ lifecycle[a].state = "planned" /\ LocallyAccepted(a)
    BY <1>0, <1>7 DEF ErrorBodyUnreadable, AttemptIsSound
  <2>2. /\ pc' = [pc EXCEPT ![a] = "raised"]
        /\ lifecycle' = [lifecycle EXCEPT ![a] = lifecycle[a]]
        /\ error' = [error EXCEPT ![a] = ""]
        /\ UNCHANGED <<request, store, answers>>
    BY <1>2, <1>7, <2>1 DEF ErrorBodyUnreadable
  <2> QED BY <1>1, <2>1, <2>2, OwnStep
<1> QED BY <1>3, <1>4, <1>5, <1>6, <1>7 DEF Coordinator

LEMMA NextIInv == IInv /\ [Next]_vars => IInv'
<1> SUFFICES ASSUME IInv, [Next]_vars PROVE IInv'
  OBVIOUS
<1>1. CASE Next
  BY <1>1, CoordinatorIInv, OrchestratorIInv DEF Next
<1>2. CASE UNCHANGED vars
  BY <1>2 DEF vars, IInv, TypeOK, AnswersAreTrue, ReceiptIsTrue, StoreIsSound,
              AttemptsAreSound, AttemptIsSound, LocallyAccepted, Registered,
              KeyTakenByOther, RefusedPair, Intent, Review
<1> QED BY <1>1, <1>2

(* The invariant holds in every reachable state. *)
THEOREM Invariance == Spec => []IInv
BY InitIInv, NextIInv, PTL DEF Spec

(* The variables keep their types. *)
THEOREM TypeCorrect == Spec => []TypeOK
<1>1. IInv => TypeOK
  BY DEF IInv
<1> QED BY <1>1, Invariance, PTL

(* "handoff_requested" is only told of the registered request. *)
THEOREM RequestedAgrees == Spec => []RequestedIsRegistered
<1>1. IInv => RequestedIsRegistered
  <2> SUFFICES ASSUME IInv, NEW a \in Attempts, lifecycle[a].state = "handoff_requested"
               PROVE  Registered(a)
    BY DEF RequestedIsRegistered
  <2>1. AttemptIsSound(a) /\ pc[a] \in {"idle", "waiting", "returned", "raised"}
    BY DEF IInv, AttemptsAreSound, TypeOK
  <2> QED BY <2>1 DEF AttemptIsSound
<1> QED BY <1>1, Invariance, PTL

(* A refused pair is never what the store holds for its attempt. *)
LEMMA RefusedIsNotRegistered ==
  ASSUME IInv, NEW a \in Attempts, RefusedPair(request[a])
  PROVE  ~Registered(a)
<1> SUFFICES ASSUME Registered(a) PROVE FALSE
  OBVIOUS
<1>1. /\ Intent(a).key \in ReceiptIds
      /\ request[a] = [intent |-> Intent(a), review |-> Review(a)]
  BY RequestType DEF IInv
<1>2. ~RefusedPair([intent |-> store[Intent(a).key].payload,
                   review |-> store[Intent(a).key].review])
  BY <1>1 DEF IInv, StoreIsSound, Registered
<1> QED BY <1>1, <1>2 DEF Registered

(* "rejected" is never told of the registered request. *)
THEOREM RejectedAgrees == Spec => []RejectedIsNotRegistered
<1>1. IInv => RejectedIsNotRegistered
  <2> SUFFICES ASSUME IInv, NEW a \in Attempts, lifecycle[a].state = "rejected"
               PROVE  ~Registered(a)
    BY DEF RejectedIsNotRegistered
  <2>1. AttemptIsSound(a) /\ pc[a] \in {"idle", "waiting", "returned", "raised"}
    BY DEF IInv, AttemptsAreSound, TypeOK
  <2>2. RefusedPair(request[a]) \/ KeyTakenByOther(a)
    BY <2>1 DEF AttemptIsSound
  <2> QED BY <2>2, RefusedIsNotRegistered DEF KeyTakenByOther, Registered
<1> QED BY <1>1, Invariance, PTL

(* A conflict is only told to the loser of a key. *)
THEOREM ConflictAgrees == Spec => []ConflictMeansAnotherPayload
<1>1. IInv => ConflictMeansAnotherPayload
  <2> SUFFICES ASSUME IInv, NEW a \in Attempts, error[a] = "conflict"
               PROVE  KeyTakenByOther(a)
    BY DEF ConflictMeansAnotherPayload, KeyTakenByOther
  <2>1. AttemptIsSound(a) /\ pc[a] \in {"idle", "waiting", "returned", "raised"}
    BY DEF IInv, AttemptsAreSound, TypeOK
  <2> QED BY <2>1 DEF AttemptIsSound
<1> QED BY <1>1, Invariance, PTL

----------------------------------------------------------------------------
(* Answers that reach their own attempt: a receipt speaks of the attempt's *)
(* payload, and of its evidence unless it repeats an earlier acceptance.   *)

OtherEvidence(a) ==
  /\ store[Intent(a).key] # None
  /\ store[Intent(a).key].payload = Intent(a)
  /\ store[Intent(a).key].review # Review(a)

AnswersAreTheirOwn ==
  \A m \in answers :
    /\ m.receipt.payload = Intent(m.to)
    /\ m.receipt.status # "duplicate" => m.receipt.review = Review(m.to)

MismatchesAreEvidence ==
  \A a \in Attempts : error[a] = "receipt_context_mismatch" => OtherEvidence(a)

LEMMA AnswersStayTheirOwn ==
  ASSUME TypeOK, AnswersAreTheirOwn, NEW a \in Attempts, Coordinator(a) \/ Orchestrator(a)
  PROVE  AnswersAreTheirOwn'
<1>1. CASE Coordinator(a)
  BY <1>1 DEF Coordinator, RejectLocally, Submit, Deliver, PortFails, ErrorBodyUnreadable,
              AnswersAreTheirOwn, Intent, Review
<1>2. CASE Orchestrator(a)
  <2>1. PICK r \in Receipt :
          /\ answers' = answers \cup {[to |-> a, receipt |-> r]}
          /\ \/ AnswerDuplicate(a)
                /\ r = [store[Intent(a).key] EXCEPT !.status = "duplicate"]
             \/ AnswerConflict(a)
                /\ r = MakeReceipt(Intent(a), "conflict", Review(a))
             \/ AnswerAccepted(a)
                /\ r = MakeReceipt(Intent(a), "accepted_for_review", Review(a))
             \/ AnswerRejected(a)
                /\ r = MakeReceipt(Intent(a), "rejected_by_policy", Review(a))
    BY <1>2, AnswerStep
  <2>2. UNCHANGED request
    BY <1>2, AnswerStep
  <2>3. r.payload = Intent(a) /\ (r.status # "duplicate" => r.review = Review(a))
    <3>1. CASE /\ AnswerDuplicate(a)
               /\ r = [store[Intent(a).key] EXCEPT !.status = "duplicate"]
      <4>1. store[Intent(a).key] \in Receipt /\ store[Intent(a).key].payload = Intent(a)
        BY <3>1, RequestType DEF AnswerDuplicate, TypeOK
      <4> QED BY <3>1, <4>1 DEF Receipt
    <3>2. CASE \E status \in {"conflict", "accepted_for_review", "rejected_by_policy"} :
                 r = MakeReceipt(Intent(a), status, Review(a))
      BY <3>2 DEF MakeReceipt
    <3> QED BY <2>1, <3>1, <3>2
  <2>4. \A m \in answers' : m \in answers \/ (m.to = a /\ m.receipt = r)
    BY <2>1
  <2> QED BY <2>2, <2>3, <2>4 DEF AnswersAreTheirOwn, Intent, Review
<1> QED BY <1>1, <1>2

(* A receipt of the attempt's own that does not match is a repetition of   *)
(* the acceptance of other evidence, which is what the store still holds.  *)
LEMMA MismatchesStayEvidence ==
  ASSUME IInv, AnswersAreTheirOwn, MismatchesAreEvidence, "misrouted" \notin Faults,
         NEW a \in Attempts, Coordinator(a) \/ Orchestrator(a)
  PROVE  MismatchesAreEvidence'
<1> SUFFICES ASSUME NEW b \in Attempts, error'[b] = "receipt_context_mismatch"
             PROVE  OtherEvidence(b)'
  BY DEF MismatchesAreEvidence
<1>0. TypeOK /\ AnswersAreTrue
  BY DEF IInv
<1>1. CASE Orchestrator(a)
  <2>1. UNCHANGED <<request, error>>
    BY <1>0, <1>1, AnswerStep
  <2>2. OtherEvidence(b)
    BY <2>1 DEF MismatchesAreEvidence
  <2>3. store'[Intent(b).key] = store[Intent(b).key]
    BY <1>0, <1>1, <2>2, RequestType, StoreGrows DEF OtherEvidence
  <2> QED BY <2>1, <2>2, <2>3 DEF OtherEvidence, Intent, Review
<1>2. CASE Coordinator(a)
  <2>1. UNCHANGED <<request, store>>
    BY <1>2 DEF Coordinator, RejectLocally, Submit, Deliver, PortFails, ErrorBodyUnreadable
  <2>2. SUFFICES OtherEvidence(b)
    BY <2>1 DEF OtherEvidence, Intent, Review
  <2>3. CASE error[b] = "receipt_context_mismatch"
    BY <2>3 DEF MismatchesAreEvidence
  <2>4. CASE error[b] # "receipt_context_mismatch"
    <3>1. b = a /\ Deliver(a)
      BY <1>0, <1>2, <2>4 DEF Coordinator, RejectLocally, Submit, PortFails,
                              ErrorBodyUnreadable, Deliver, HandleReceipt, Return, TypeOK
    <3>2. PICK m \in answers : m.to = a /\ HandleReceipt(a, m.receipt)
      BY <3>1 DEF Deliver
    <3> DEFINE r == m.receipt
    <3>3. r \in Receipt /\ ReceiptIsTrue(r)
      BY <1>0 DEF TypeOK, AnswersAreTrue
    <3>4. r.payload = Intent(a) /\ (r.status # "duplicate" => r.review = Review(a))
      BY <3>2 DEF AnswersAreTheirOwn
    <3> HIDE DEF r
    <3>5. PICK lc \in AgentLifecycleValue,
               code \in {"receipt_context_mismatch", ""} \cup RefusingStatuses :
             /\ Return(a, lc, code)
             /\ ReceiptMatches(a, r) => code # "receipt_context_mismatch"
      BY <1>0, <3>2, <3>3, HandleReceiptStep DEF r, RefusingStatuses
    <3>6. error'[a] = code
      BY <1>0, <3>5 DEF Return, TypeOK
    <3>7. r.review # Review(a) /\ r.status = "duplicate"
      BY <3>1, <3>4, <3>5, <3>6 DEF ReceiptMatches
    <3> QED BY <3>1, <3>3, <3>4, <3>7 DEF ReceiptIsTrue, StoredStatuses, OtherEvidence
  <2> QED BY <2>3, <2>4
<1> QED BY <1>1, <1>2

(* A plain retry never fails on the binding of its receipt.                *)
THEOREM MismatchesAgree == Spec => []MismatchMeansOtherEvidence
<1> DEFINE Own == AnswersAreTheirOwn /\ ("misrouted" \notin Faults => MismatchesAreEvidence)
<1>1. Init => Own
  BY DEF Init, AnswersAreTheirOwn, MismatchesAreEvidence
<1>2. IInv /\ Own /\ [Next]_vars => Own'
  <2> SUFFICES ASSUME IInv, Own, [Next]_vars PROVE Own'
    OBVIOUS
  <2>1. CASE Next
    BY <2>1, AnswersStayTheirOwn, MismatchesStayEvidence DEF Next, IInv
  <2>2. CASE UNCHANGED vars
    BY <2>2 DEF vars, AnswersAreTheirOwn, MismatchesAreEvidence, OtherEvidence, Intent, Review
  <2> QED BY <2>1, <2>2
<1>3. Own => MismatchMeansOtherEvidence
  BY DEF MismatchMeansOtherEvidence, MismatchesAreEvidence, OtherEvidence
<1> HIDE DEF Own
<1> QED BY <1>1, <1>2, <1>3, Invariance, PTL DEF Spec

----------------------------------------------------------------------------
(* Nothing blocked and no unreviewed patch is ever stored. *)
THEOREM OnlyPermittedStored == Spec => []StoredHandoffsArePermitted
<1>1. IInv => StoredHandoffsArePermitted
  <2> SUFFICES ASSUME IInv, NEW k \in ReceiptIds, store[k] # None
               PROVE  /\ store[k].payload.capability_id = HandoffCapability
                      /\ store[k].payload.operation \in AllowedInitialOperations \ RemoteRefused
                      /\ store[k].payload.operation \in HumanReviewRequiredOperations =>
                           store[k].review # NoReview
    BY DEF StoredHandoffsArePermitted
  <2>1. ~RefusedPair([intent |-> store[k].payload, review |-> store[k].review])
    BY DEF IInv, StoreIsSound
  <2>2. /\ PayloadAccepted(store[k].payload, store[k].review # NoReview)
        /\ store[k].payload.operation \notin RemoteRefused
    BY <2>1 DEF RefusedPair
  <2>3. /\ store[k].payload.capability_id = HandoffCapability
        /\ EvaluateOperation(store[k].payload.operation, store[k].review # NoReview) = "accepted"
    BY <2>2 DEF PayloadAccepted
  <2>4. ASSUME NEW op, NEW h \in BOOLEAN, EvaluateOperation(op, h) = "accepted"
        PROVE  /\ op \in AllowedInitialOperations
               /\ op \in HumanReviewRequiredOperations => h
    BY <2>4 DEF EvaluateOperation, AllowedInitialOperations, SafeInitialOperations,
                HumanReviewRequiredOperations, FutureBlockedOperations
  <2> QED BY <2>2, <2>3, <2>4
<1> QED BY <1>1, Invariance, PTL

(* The first accepted receipt of a key is final. *)
THEOREM WriteOnce == Spec => StoreIsWriteOnce
<1>1. IInv /\ [Next]_vars =>
        [\A k \in ReceiptIds : store[k] # None => store'[k] = store[k]]_vars
  <2> SUFFICES ASSUME IInv, NEW a \in Attempts, Coordinator(a) \/ Orchestrator(a)
               PROVE  \A k \in ReceiptIds : store[k] # None => store'[k] = store[k]
    BY DEF Next
  <2>1. CASE Coordinator(a)
    BY <2>1 DEF Coordinator, RejectLocally, Submit, Deliver, PortFails, ErrorBodyUnreadable
  <2>2. CASE Orchestrator(a)
    BY <2>2, StoreGrows DEF IInv
  <2> QED BY <2>1, <2>2
<1> QED BY <1>1, Invariance, PTL DEF Spec, StoreIsWriteOnce

----------------------------------------------------------------------------
(* Refinement of HandoffContract. *)

(* The values the refinement mapping gives the contract's variables. *)
Sub == [a \in Attempts |-> [key |-> Intent(a).key, pair |-> request[a]]]
Reg == [k \in ReceiptIds |->
          IF store[k] = None THEN None
          ELSE [intent |-> store[k].payload, review |-> store[k].review]]
Out == [a \in Attempts |-> OutcomeOf(a)]

LEMMA MappedRegistered ==
  ASSUME IInv, NEW a \in Attempts
  PROVE  /\ Sub[a].key = Intent(a).key /\ Sub[a].pair = request[a]
         /\ Intent(a).key \in ReceiptIds
         /\ Reg[Intent(a).key] = request[a] <=> Registered(a)
         /\ KeyTakenByOther(a) => Reg[Intent(a).key] \notin {None, request[a]}
         /\ Reg[Intent(a).key] = None <=> store[Intent(a).key] = None
         /\ RefusedPair(request[a]) <=> request[a] \in RefusedPairs
<1>1. /\ Intent(a).key \in ReceiptIds
      /\ request[a] = [intent |-> Intent(a), review |-> Review(a)]
      /\ request[a] \in Request
  BY RequestType DEF IInv, TypeOK
<1>2. store[Intent(a).key] \in Receipt \cup {None}
  BY <1>1 DEF IInv, TypeOK
<1>3. /\ \A r \in Receipt : [intent |-> r.payload, review |-> r.review] \in Request
      /\ None \notin Request
  BY HandoffAssumption DEF Request, Receipt, Reviews
<1>4. Reg[Intent(a).key] =
        IF store[Intent(a).key] = None THEN None
        ELSE [intent |-> store[Intent(a).key].payload, review |-> store[Intent(a).key].review]
  BY <1>1 DEF Reg
<1>5. Sub[a].key = Intent(a).key /\ Sub[a].pair = request[a]
  BY DEF Sub
<1>6. RefusedPair(request[a]) <=> request[a] \in RefusedPairs
  BY <1>1 DEF RefusedPairs, RefusedPair
<1>7. Reg[Intent(a).key] = None <=> store[Intent(a).key] = None
  BY <1>2, <1>3, <1>4
<1>8. Reg[Intent(a).key] = request[a] <=> Registered(a)
  BY <1>1, <1>2, <1>3, <1>4 DEF Registered
<1>9. KeyTakenByOther(a) => Reg[Intent(a).key] \notin {None, request[a]}
  BY <1>1, <1>2, <1>3, <1>4 DEF KeyTakenByOther
<1> QED BY <1>1, <1>5, <1>6, <1>7, <1>8, <1>9

LEMMA InitRefines == Init => Contract!Init
<1> SUFFICES ASSUME Init PROVE Contract!Init
  OBVIOUS
<1>1. IInv
  BY InitIInv
<1>2. Sub \in [Attempts -> [key: ReceiptIds, pair: Request]]
  BY <1>1, RequestType DEF Sub, IInv, TypeOK
<1>3. Reg = [k \in ReceiptIds |-> None]
  BY DEF Init, Reg
<1>4. Out = [a \in Attempts |-> "none"]
  BY DEF Init, Out, OutcomeOf
<1> QED BY <1>2, <1>3, <1>4 DEF Contract!Init, Sub, Reg, Out

(* A coordinator step moves its own outcome, or nothing the contract sees. *)
LEMMA CoordinatorRefines ==
  ASSUME IInv, IInv', NEW a \in Attempts, Coordinator(a)
  PROVE  Contract!Next
<1>0. /\ Sub' = Sub /\ Reg' = Reg
      /\ UNCHANGED <<request, store>>
  BY DEF Coordinator, RejectLocally, Submit, Deliver, PortFails, ErrorBodyUnreadable,
         Sub, Reg, Intent
<1>1. /\ pc \in [Attempts -> {"idle", "waiting", "returned", "raised"}]
      /\ lifecycle \in [Attempts -> AgentLifecycleValue]
  BY DEF IInv, TypeOK
<1>2. /\ pc'[a] # "idle"
      /\ \A b \in Attempts \ {a} : pc'[b] = pc[b] /\ lifecycle'[b] = lifecycle[b]
  BY <1>1 DEF Coordinator, RejectLocally, Submit, Deliver, PortFails, ErrorBodyUnreadable,
              Return, HandleReceipt
<1>3. Out' = [Out EXCEPT ![a] = OutcomeOf(a)']
  <2>1. \A b \in Attempts \ {a} : OutcomeOf(b)' = OutcomeOf(b)
    BY <1>2 DEF OutcomeOf
  <2> QED BY <2>1 DEF Out
<1>4. /\ OutcomeOf(a) = IF pc[a] = "idle" THEN "none" ELSE "pending"
      /\ pc[a] \in {"idle", "waiting"}
      /\ pc[a] = "idle" => pc'[a] = "waiting" \/ lifecycle'[a].state = "rejected"
      /\ pc'[a] = "waiting" => pc[a] = "idle"
  <2>1. CASE RejectLocally(a)
    <3>1. lifecycle'[a] = Advanced(lifecycle[a], "rejected", NoRef)
      BY <1>1, <2>1 DEF RejectLocally, Return
    <3>2. lifecycle'[a].state = "rejected"
      BY <1>1, <3>1, AdvancedState
    <3>3. pc[a] = "idle" /\ pc'[a] = "returned"
      BY <1>1, <2>1 DEF RejectLocally, Return
    <3> QED BY <3>2, <3>3 DEF OutcomeOf
  <2>2. CASE Submit(a)
    BY <1>1, <2>2 DEF Submit, OutcomeOf
  <2>3. CASE Deliver(a) \/ PortFails(a) \/ ErrorBodyUnreadable(a)
    <3>1. pc[a] = "waiting" /\ pc'[a] # "waiting"
      BY <1>1, <2>3 DEF Deliver, HandleReceipt, PortFails, ErrorBodyUnreadable, Return
    <3> QED BY <3>1 DEF OutcomeOf
  <2> QED BY <2>1, <2>2, <2>3 DEF Coordinator
<1>5. /\ AttemptIsSound(a)'
      /\ pc'[a] \in {"waiting", "returned", "raised"}
  BY <1>2 DEF IInv, AttemptsAreSound, TypeOK
<1>6. /\ Sub[a].key = Intent(a).key /\ Sub[a].pair = request[a]
      /\ Registered(a)' => Reg[Intent(a).key] = request[a]
      /\ (RefusedPair(request[a]) \/ KeyTakenByOther(a))' =>
           request[a] \in RefusedPairs \/ Reg[Intent(a).key] \notin {None, request[a]}
  <2>1. /\ Registered(a)' <=> Registered(a)
        /\ RefusedPair(request[a])' <=> RefusedPair(request[a])
        /\ KeyTakenByOther(a)' <=> KeyTakenByOther(a)
    BY <1>0 DEF Registered, RefusedPair, KeyTakenByOther, Intent, Review
  <2> QED BY <2>1, MappedRegistered
<1>7. CASE pc'[a] = "waiting"
  <2>1. Out[a] = "none" /\ Out' = [Out EXCEPT ![a] = "pending"]
    BY <1>3, <1>4, <1>7 DEF Out, OutcomeOf
  <2>2. Contract!Open(a)
    BY <1>0, <2>1 DEF Contract!Open, Sub, Reg, Out
  <2> QED BY <2>2 DEF Contract!Next
<1>8. CASE pc'[a] = "returned" /\ lifecycle'[a].state = "handoff_requested"
  <2>1. Out[a] = "pending" /\ Out' = [Out EXCEPT ![a] = "requested"]
    BY <1>3, <1>4, <1>8 DEF Out, OutcomeOf
  <2>2. Reg[Sub[a].key] = Sub[a].pair
    BY <1>5, <1>6, <1>8 DEF AttemptIsSound
  <2>3. Contract!Confirm(a)
    BY <1>0, <2>1, <2>2 DEF Contract!Confirm, Contract!Registered, Sub, Reg, Out
  <2> QED BY <2>3 DEF Contract!Next
<1>9. CASE pc'[a] = "returned" /\ lifecycle'[a].state = "rejected"
  <2>1. Out[a] \in {"none", "pending"} /\ Out' = [Out EXCEPT ![a] = "rejected"]
    BY <1>3, <1>4, <1>9 DEF Out, OutcomeOf
  <2>2. Sub[a].pair \in RefusedPairs \/ Reg[Sub[a].key] \notin {None, Sub[a].pair}
    BY <1>5, <1>6, <1>9 DEF AttemptIsSound
  <2>3. Contract!Reject(a)
    BY <1>0, <2>1, <2>2 DEF Contract!Reject, Contract!KeyTaken, Sub, Reg, Out
  <2> QED BY <2>3 DEF Contract!Next
<1>10. CASE \/ pc'[a] = "raised"
            \/ pc'[a] = "returned" /\ lifecycle'[a].state = "failed"
  <2>1. Out[a] = "pending" /\ Out' = [Out EXCEPT ![a] = "failed"]
    <3>1. pc[a] = "waiting"
      BY <1>1, <1>4, <1>5, <1>10 DEF Coordinator, RejectLocally, Submit, Deliver,
         PortFails, ErrorBodyUnreadable, AttemptIsSound
    <3> QED BY <1>3, <1>4, <1>10, <3>1 DEF Out, OutcomeOf
  <2>2. Contract!Fail(a)
    BY <1>0, <2>1 DEF Contract!Fail, Sub, Reg, Out
  <2> QED BY <2>2 DEF Contract!Next
<1> QED BY <1>5, <1>7, <1>8, <1>9, <1>10 DEF AttemptIsSound

(* An orchestrator step registers a pair or changes nothing the contract   *)
(* sees.                                                                   *)
LEMMA OrchestratorRefines ==
  ASSUME IInv, NEW a \in Attempts, Orchestrator(a)
  PROVE  [Contract!Next]_(Contract!vars)
<1>1. Sub' = Sub /\ Out' = Out
  BY AnswerStep DEF IInv, Sub, Out, OutcomeOf, Intent
<1>2. CASE UNCHANGED store
  <2>1. Reg' = Reg
    BY <1>2 DEF Reg
  <2> QED BY <1>1, <2>1 DEF Contract!vars, Sub, Reg, Out
<1>3. CASE /\ AnswerAccepted(a)
           /\ store[Intent(a).key] = None
           /\ store' = [store EXCEPT ![Intent(a).key] =
                          MakeReceipt(Intent(a), "accepted_for_review", Review(a))]
  <2>0. TypeOK /\ AttemptIsSound(a)
    BY DEF IInv, AttemptsAreSound
  <2>1. /\ Intent(a) \in IntentRecords /\ Intent(a).key \in ReceiptIds
        /\ request[a] = [intent |-> Intent(a), review |-> Review(a)]
    BY <2>0, RequestType
  <2>2. /\ PayloadAccepted(Intent(a), Review(a) # NoReview)
        /\ Intent(a).operation \notin RemoteRefused
    BY <1>3 DEF AnswerAccepted, RemotelyAccepted
  <2>3. request[a] \notin RefusedPairs
    <3>1. RecordAccepted(Intent(a))
      BY <2>1, <2>2, ReviewOnlyRelaxes
    <3>2. ~RefusedPair(request[a])
      BY <2>2, <3>1 DEF RefusedPair, Intent, Review
    <3> QED BY <3>2, MappedRegistered
  <2>4. Out[a] \in {"pending", "failed"}
    <3>1. /\ pc[a] # "idle"
          /\ pc[a] \in {"idle", "waiting", "returned", "raised"}
      BY <1>3, <2>0 DEF AnswerAccepted, Sent, TypeOK
    <3>2. ~Registered(a) /\ ~KeyTakenByOther(a)
      BY <1>3 DEF Registered, KeyTakenByOther
    <3>3. ~RefusedPair(request[a])
      BY <2>3, MappedRegistered
    <3> QED BY <2>0, <3>1, <3>2, <3>3 DEF Out, OutcomeOf, AttemptIsSound
  <2>5. Sub[a].key = Intent(a).key /\ Sub[a].pair = request[a]
    BY DEF Sub
  <2>6. Reg[Sub[a].key] = None
    BY <1>3, <2>1, <2>5 DEF Reg
  <2>7. Reg' = [Reg EXCEPT ![Sub[a].key] = Sub[a].pair]
    <3> DEFINE receipt == MakeReceipt(Intent(a), "accepted_for_review", Review(a))
    <3>1. receipt \in Receipt /\ receipt # None
      BY <2>0, MadeReceiptType, HandoffAssumption DEF Receipt, Reviews
    <3>2. receipt.payload = Intent(a) /\ receipt.review = Review(a)
      BY DEF MakeReceipt
    <3> HIDE DEF receipt
    <3>3. \A k \in ReceiptIds : store'[k] = IF k = Intent(a).key THEN receipt ELSE store[k]
      BY <1>3, <2>0 DEF TypeOK, receipt
    <3>4. \A k \in ReceiptIds :
            Reg'[k] = IF k = Intent(a).key THEN request[a] ELSE Reg[k]
      BY <2>1, <3>1, <3>2, <3>3 DEF Reg
    <3>5. Reg = [k \in ReceiptIds |-> Reg[k]] /\ Reg' = [k \in ReceiptIds |-> Reg'[k]]
      BY DEF Reg
    <3>6. [Reg EXCEPT ![Sub[a].key] = Sub[a].pair] =
            [k \in ReceiptIds |-> IF k = Intent(a).key THEN request[a] ELSE Reg[k]]
      BY <2>1, <2>5, <3>5
    <3>7. Reg' = [k \in ReceiptIds |-> IF k = Intent(a).key THEN request[a] ELSE Reg[k]]
      BY <3>4, <3>5
    <3> QED BY <3>6, <3>7
  <2>8. Contract!Register(a)
    BY <1>1, <2>3, <2>4, <2>5, <2>6, <2>7 DEF Contract!Register, Sub, Reg, Out
  <2> QED BY <2>8 DEF Contract!Next
<1> QED BY <1>2, <1>3, StoreStep DEF IInv

(* Every behaviour of Handoff is one HandoffContract allows. *)
THEOREM Refinement == Spec => ImplementsContract
<1>1. IInv /\ IInv' /\ [Next]_vars => [Contract!Next]_(Contract!vars)
  <2> SUFFICES ASSUME IInv, IInv', [Next]_vars
               PROVE  [Contract!Next]_(Contract!vars)
    OBVIOUS
  <2>1. CASE Next
    BY <2>1, CoordinatorRefines, OrchestratorRefines DEF Next
  <2>2. CASE UNCHANGED vars
    BY <2>2 DEF vars, Contract!vars, OutcomeOf, Intent
  <2> QED BY <2>1, <2>2
<1> QED BY <1>1, InitRefines, Invariance, PTL DEF Spec, ImplementsContract, Contract!Spec
=============================================================================
