--------------------------- MODULE ChatTurnsProofs ---------------------------
(***************************************************************************)
(* Theorems about ChatTurns, for any number of requests, messages,         *)
(* principals and memories.                                                *)
(***************************************************************************)
EXTENDS ChatTurns, SequenceTheorems, TLAPS

(* The stages before the runtime's last word, of either runtime. *)
Recalling == {"recalling", "answering", "auditing", "building", "proposing"}
Ended == {"finishing", "done", "cut", "raised"}

Answering == {"delta", "completed"}

(* What the client has of a turn and what is still to be written to it.    *)
Words ==
  \A a \in Attempts :
    /\ pc[a] \in {"idle"} \cup Recalling => outbox[a] = <<>> /\ seen[a] = <<>>
    /\ pc[a] = "streaming" =>
         /\ \A k \in DOMAIN seen[a] : seen[a][k] = "delta"
         /\ \A k \in DOMAIN outbox[a] : outbox[a][k] = "delta"
    /\ \A k \in DOMAIN outbox[a] : outbox[a][k] \in Terminal => k = Len(outbox[a])
    /\ \A k \in DOMAIN seen[a] : seen[a][k] \in Terminal =>
         k = Len(seen[a]) /\ outbox[a] = <<>>
    /\ pc[a] \in {"done", "cut", "raised"} => outbox[a] = <<>>

(* Where a turn is and what it works with. *)
Material ==
  \A a \in Attempts :
    /\ pc[a] \in Recalling => runtime = "memory"
    /\ pc[a] = "streaming" => runtime = "provider"
    /\ context[a] \subseteq granted[a] /\ cited[a] \subseteq context[a]
    /\ pc[a] \in {"idle", "streaming", "recalling"} => context[a] = {}
    /\ pc[a] \in {"idle", "streaming", "recalling", "answering"} => cited[a] = {}
    /\ pc[a] = "auditing" => cited[a] # {}
    /\ pc[a] = "proposing" => candidate[a] # None
    /\ pc[a] \notin {"proposing"} \cup Ended => candidate[a] = None

Audited ==
  /\ \A r \in audits : r.cited # {} /\ r.cited = cited[r.by]
  /\ \A a \in Attempts : pc[a] \in {"building", "proposing"} => AuditOf(a) \in audits

Proposed ==
  /\ \A p \in proposals : p.key = KeyOf[p.message]
  /\ \A p, q \in proposals : p.key = q.key => p = q

Accounted ==
  \A a \in Attempts :
    runtime = "memory"
      /\ (\/ \E k \in DOMAIN seen[a] : seen[a][k] \in Answering
          \/ \E k \in DOMAIN outbox[a] : outbox[a][k] \in Answering) =>
      /\ AuditOf(a) \in audits
      /\ candidate[a] # None => ProposalOf(a) \in proposals

IInv == TypeOK /\ Words /\ Material /\ Audited /\ Proposed /\ Accounted

LEMMA InitIInv == Init => IInv
<1> SUFFICES ASSUME Init PROVE IInv
  OBVIOUS
<1>1. TypeOK
  BY DEF Init, TypeOK, Stages
<1>2. Words /\ Material /\ Accounted
  BY DEF Init, Words, Material, Accounted, Recalling, Ended
<1>3. Audited /\ Proposed
  BY DEF Init, Audited, Proposed
<1> QED BY <1>1, <1>2, <1>3 DEF IInv

----------------------------------------------------------------------------
(* What the actions have in common: a yield appends its events and moves   *)
(* the thread, an abandoned turn loses what was still to be written.       *)

LEMMA YieldType ==
  ASSUME TypeOK, NEW a \in Attempts, NEW stage \in Stages, NEW events \in Seq(Events),
         Yield(a, stage, events)
  PROVE  /\ pc' = [pc EXCEPT ![a] = stage] /\ pc' \in [Attempts -> Stages]
         /\ outbox' = [outbox EXCEPT ![a] = @ \o events]
         /\ outbox' \in [Attempts -> Seq(Events)]
BY DEF TypeOK, Yield

LEMMA AbandonType ==
  ASSUME TypeOK, NEW a \in Attempts, Abandon(a)
  PROVE  TypeOK'
<1>1. pc' \in [Attempts -> Stages]
  BY DEF TypeOK, Abandon, Stages
<1>2. outbox' \in [Attempts -> Seq(Events)]
  BY DEF TypeOK, Abandon
<1> QED BY <1>1, <1>2 DEF TypeOK, Abandon, fixed, recalled, client, bend

LEMMA AuditType ==
  ASSUME TypeOK, NEW a \in Attempts
  PROVE  AuditOf(a) \in [by: Attempts, cited: SUBSET Memories]
BY DEF TypeOK, AuditOf

LEMMA ProposalType ==
  ASSUME TypeOK, NEW a \in Attempts, candidate[a] # None
  PROVE  ProposalOf(a) \in [key: {KeyOf[m] : m \in Messages}, message: Messages, candidate: Candidates]
<1>1. turn[a].message \in Messages /\ candidate[a] \in Candidates
  BY DEF TypeOK, Turns
<1> QED BY <1>1 DEF ProposalOf, Key

(* The words of the runtimes that end a turn. *)
LEMMA YieldsAreEvents ==
  /\ <<"error">> \in Seq(Events) /\ <<"declined">> \in Seq(Events)
  /\ <<"refused">> \in Seq(Events) /\ <<"completed">> \in Seq(Events)
  /\ <<"delta">> \in Seq(Events) /\ <<"delta", "completed">> \in Seq(Events)
  /\ <<"memory_proposal", "delta", "completed">> \in Seq(Events)
BY DEF Events

LEMMA StagesOfYields == "finishing" \in Stages /\ "streaming" \in Stages
BY DEF Stages

(* The steps that only yield: they change where the thread is and what it  *)
(* has to write, and perhaps the count of chunks.                          *)
OnlyYields(a) ==
  /\ UNCHANGED <<fixed, recalled, client, bend>>
  /\ chunks' \in [Attempts -> Nat]
  /\ \/ Running(a, "streaming") /\ Yield(a, "streaming", <<"delta">>)
     \/ Running(a, "streaming") /\ Yield(a, "finishing", <<"completed">>)
     \/ Running(a, "building") /\ Yield(a, "finishing", <<"delta", "completed">>)
     \/ (Running(a, "streaming") \/ Running(a, "building"))
          /\ Yield(a, "finishing", <<"error">>)
     \/ (Running(a, "recalling") \/ Running(a, "answering"))
          /\ Yield(a, "finishing", <<"declined">>)

LEMMA YieldingSteps ==
  ASSUME TypeOK, NEW a \in Attempts,
         \/ StreamChunk(a) \/ StreamEnds(a) \/ StreamFails(a) \/ RecallDeclines(a)
         \/ AnswerDeclines(a) \/ BuildNothing(a) \/ BuildFails(a)
  PROVE  OnlyYields(a)
<1>1. CASE StreamChunk(a)
  BY <1>1 DEF StreamChunk, OnlyYields, TypeOK
<1>2. CASE ~StreamChunk(a)
  BY <1>2 DEF StreamEnds, StreamFails, RecallDeclines, AnswerDeclines, BuildNothing,
     BuildFails, OnlyYields, Raise, Decline, TypeOK
<1> QED BY <1>1, <1>2

LEMMA TypeStep == IInv /\ [Next]_vars => TypeOK'
<1> SUFFICES ASSUME TypeOK, Material, [Next]_vars PROVE TypeOK'
  BY DEF IInv
<1> USE DEF fixed, recalled, client, bend
<1>0. ASSUME NEW a \in Attempts, RequestRaises(a) PROVE TypeOK'
  BY <1>0 DEF TypeOK, RequestRaises, Stages
<1>1. ASSUME NEW a \in Attempts, Refuse(a) PROVE TypeOK'
  BY <1>1 DEF TypeOK, Refuse, Stages, Events
<1>2. ASSUME NEW a \in Attempts, Admit(a) PROVE TypeOK'
  BY <1>2 DEF TypeOK, Admit, Stages
<1>3. ASSUME NEW a \in Attempts, Write(a) PROVE TypeOK'
  BY <1>3 DEF TypeOK, Write, AfterWrite, Stages
<1>4. ASSUME NEW a \in Attempts, WriteFails(a) \/ PortResets(a) PROVE TypeOK'
  BY <1>4, AbandonType DEF WriteFails, PortResets
<1>5. ASSUME NEW a \in Attempts, OnlyYields(a) PROVE TypeOK'
  <2>1. pc' \in [Attempts -> Stages] /\ outbox' \in [Attempts -> Seq(Events)]
    BY <1>5, YieldType, YieldsAreEvents, StagesOfYields DEF OnlyYields
  <2> QED BY <1>5, <2>1 DEF OnlyYields, TypeOK
<1>7. ASSUME NEW a \in Attempts, Recall(a) PROVE TypeOK'
  BY <1>7 DEF TypeOK, Recall, OfScope, Authorized, Stages
<1>8. ASSUME NEW a \in Attempts, Answer(a) PROVE TypeOK'
  BY <1>8 DEF TypeOK, Answer, Stages
<1>9. ASSUME NEW a \in Attempts, Audit(a) PROVE TypeOK'
  BY <1>9, AuditType DEF TypeOK, Audit, Stages
<1>10. ASSUME NEW a \in Attempts, AuditFails(a) PROVE TypeOK'
  <2>1. pc' \in [Attempts -> Stages] /\ outbox' \in [Attempts -> Seq(Events)]
    BY <1>10, YieldType, YieldsAreEvents, StagesOfYields DEF AuditFails, Raise
  <2>2. audits' \subseteq [by: Attempts, cited: SUBSET Memories]
    BY <1>10, AuditType DEF AuditFails, TypeOK
  <2> QED BY <1>10, <2>1, <2>2 DEF AuditFails, TypeOK
<1>11. ASSUME NEW a \in Attempts, Build(a) PROVE TypeOK'
  BY <1>11 DEF TypeOK, Build, Stages
<1>12. ASSUME NEW a \in Attempts, Propose(a) \/ ProposeFails(a) PROVE TypeOK'
  <2>1. pc' \in [Attempts -> Stages] /\ outbox' \in [Attempts -> Seq(Events)]
    BY <1>12, YieldType, YieldsAreEvents, StagesOfYields DEF Propose, ProposeFails, Raise
  <2>2. candidate[a] # None
    BY <1>12 DEF Propose, ProposeFails, Running, Material
  <2>3. proposals' \subseteq [key: {KeyOf[m] : m \in Messages}, message: Messages, candidate: Candidates]
    BY <1>12, <2>2, ProposalType DEF Propose, ProposeFails, TypeOK
  <2> QED BY <1>12, <2>1, <2>3 DEF Propose, ProposeFails, TypeOK
<1>14. ASSUME NEW a \in Attempts, Disconnect(a) PROVE TypeOK'
  BY <1>14 DEF TypeOK, Disconnect
<1>15. ASSUME NEW r \in Memories, Withdraw(r) PROVE TypeOK'
  BY <1>15 DEF TypeOK, Withdraw
<1>16. CASE UNCHANGED vars
  BY <1>16 DEF TypeOK, vars
<1> QED BY <1>0, <1>1, <1>2, <1>3, <1>4, <1>5, YieldingSteps, <1>7, <1>8, <1>9, <1>10, <1>11, <1>12,
     <1>14, <1>15, <1>16 DEF Next, Serve

----------------------------------------------------------------------------
(* The turn's material, the audits and the proposals. *)

LEMMA MaterialStep == IInv /\ [Next]_vars => Material'
<1> SUFFICES ASSUME TypeOK, Material, [Next]_vars PROVE Material'
  BY DEF IInv
<1> USE DEF Material, TypeOK, fixed, recalled, client, bend, Recalling, Ended, Running
<1>0. ASSUME NEW a \in Attempts, RequestRaises(a) PROVE Material'
  BY <1>0 DEF RequestRaises
<1>1. ASSUME NEW a \in Attempts, Refuse(a) PROVE Material'
  BY <1>1 DEF Refuse
<1>2. ASSUME NEW a \in Attempts, Admit(a) PROVE Material'
  BY <1>2 DEF Admit
<1>3. ASSUME NEW a \in Attempts, Write(a) PROVE Material'
  BY <1>3 DEF Write, AfterWrite
<1>4. ASSUME NEW a \in Attempts, Abandon(a) PROVE Material'
  BY <1>4 DEF Abandon
<1>5. ASSUME NEW a \in Attempts, OnlyYields(a) PROVE Material'
  BY <1>5 DEF OnlyYields, Yield
<1>7. ASSUME NEW a \in Attempts, Recall(a) PROVE Material'
  <2>1. PICK scope \in Principals : \E records \in SUBSET OfScope(scope) :
          /\ ScopeMatches(a, scope)
          /\ \E bounded \in (SUBSET Authorized(a, scope, records)) \ {{}} :
               context' = [context EXCEPT ![a] = bounded]
          /\ granted' = [granted EXCEPT ![a] =
               {r \in Memories : memory[r].owner = turn[a].principal /\ memory[r].active}]
    BY <1>7 DEF Recall
  <2>2. context'[a] \subseteq granted'[a]
    BY <2>1 DEF OfScope, ScopeMatches, Authorized
  <2>3. \A b \in Attempts \ {a} : context'[b] = context[b] /\ granted'[b] = granted[b]
    BY <2>1
  <2>4. cited[a] = {} /\ cited' = cited /\ candidate' = candidate
    BY <1>7 DEF Recall
  <2>5. pc[a] = "recalling" /\ pc' = [pc EXCEPT ![a] = "answering"] /\ runtime' = runtime
    BY <1>7 DEF Recall
  <2> QED BY <2>2, <2>3, <2>4, <2>5
<1>8. ASSUME NEW a \in Attempts, Answer(a) PROVE Material'
  BY <1>8 DEF Answer
<1>9. ASSUME NEW a \in Attempts, Audit(a) PROVE Material'
  BY <1>9 DEF Audit
<1>10. ASSUME NEW a \in Attempts, AuditFails(a) PROVE Material'
  BY <1>10 DEF AuditFails, Raise, Yield
<1>11. ASSUME NEW a \in Attempts, Build(a) PROVE Material'
  BY <1>11, ChatTurnsAssumption DEF Build
<1>12. ASSUME NEW a \in Attempts, Propose(a) \/ ProposeFails(a) PROVE Material'
  BY <1>12 DEF Propose, ProposeFails, Raise, Yield
<1>14. ASSUME NEW a \in Attempts, Disconnect(a) PROVE Material'
  BY <1>14 DEF Disconnect
<1>15. ASSUME NEW r \in Memories, Withdraw(r) PROVE Material'
  BY <1>15 DEF Withdraw
<1>16. CASE UNCHANGED vars
  BY <1>16 DEF vars
<1> QED BY <1>0, <1>1, <1>2, <1>3, <1>4, <1>5, YieldingSteps, <1>7, <1>8, <1>9, <1>10, <1>11, <1>12,
     <1>14, <1>15, <1>16 DEF Next, Serve, WriteFails, PortResets

(* The steps that change neither what is cited, nor the audits, nor let a  *)
(* thread into the stages whose audit must be there.                       *)
LEMMA AuditedStep == IInv /\ [Next]_vars => Audited'
<1> SUFFICES ASSUME TypeOK, Material, Audited, [Next]_vars PROVE Audited'
  BY DEF IInv
<1> USE DEF Audited, TypeOK, fixed, recalled, client, bend, Running, AuditOf
<1>1. ASSUME NEW a \in Attempts, Refuse(a) \/ RequestRaises(a) \/ Admit(a) PROVE Audited'
  BY <1>1 DEF Refuse, RequestRaises, Admit
<1>3. ASSUME NEW a \in Attempts, Write(a) PROVE Audited'
  BY <1>3 DEF Write, AfterWrite
<1>4. ASSUME NEW a \in Attempts, Abandon(a) PROVE Audited'
  BY <1>4 DEF Abandon
<1>5. ASSUME NEW a \in Attempts, OnlyYields(a) PROVE Audited'
  BY <1>5 DEF OnlyYields, Yield
<1>7. ASSUME NEW a \in Attempts, Recall(a) PROVE Audited'
  BY <1>7 DEF Recall
<1>8. ASSUME NEW a \in Attempts, Answer(a) PROVE Audited'
  <2>1. cited[a] = {} /\ audits' = audits
    BY <1>8 DEF Answer, Material
  <2>2. \A b \in Attempts \ {a} : cited'[b] = cited[b] /\ pc'[b] = pc[b]
    BY <1>8 DEF Answer
  <2>3. \A r \in audits : r.by \in Attempts /\ r.by # a
    BY <2>1
  <2>4. pc'[a] = "auditing"
    BY <1>8 DEF Answer
  <2>5. \A r \in audits' : r.cited # {} /\ r.cited = cited'[r.by]
    BY <2>1, <2>2, <2>3
  <2>6. ASSUME NEW b \in Attempts, pc'[b] \in {"building", "proposing"}
        PROVE  AuditOf(b)' \in audits'
    BY <2>6, <2>1, <2>2, <2>4
  <2> QED BY <2>5, <2>6
<1>9. ASSUME NEW a \in Attempts, Audit(a) PROVE Audited'
  BY <1>9 DEF Audit, Material
<1>10. ASSUME NEW a \in Attempts, AuditFails(a) PROVE Audited'
  BY <1>10 DEF AuditFails, Raise, Yield, Material
<1>11. ASSUME NEW a \in Attempts, Build(a) PROVE Audited'
  BY <1>11 DEF Build
<1>12. ASSUME NEW a \in Attempts, Propose(a) \/ ProposeFails(a) PROVE Audited'
  BY <1>12 DEF Propose, ProposeFails, Raise, Yield
<1>14. ASSUME NEW a \in Attempts, Disconnect(a) PROVE Audited'
  BY <1>14 DEF Disconnect
<1>15. ASSUME NEW r \in Memories, Withdraw(r) PROVE Audited'
  BY <1>15 DEF Withdraw
<1>16. CASE UNCHANGED vars
  BY <1>16 DEF vars
<1> QED BY <1>1, <1>3, <1>4, <1>5, YieldingSteps, <1>7, <1>8, <1>9, <1>10, <1>11, <1>12,
     <1>14, <1>15, <1>16 DEF Next, Serve, WriteFails, PortResets

(* Bend keeps one proposal for a key, and a message has one key.           *)
LEMMA ProposedStep == IInv /\ [Next]_vars => Proposed'
<1> SUFFICES ASSUME Proposed, [Next]_vars PROVE Proposed'
  BY DEF IInv
<1>1. CASE UNCHANGED proposals
  BY <1>1 DEF Proposed
<1>2. ASSUME NEW a \in Attempts, Acceptable(a), proposals' = proposals \cup {ProposalOf(a)}
      PROVE  Proposed'
  BY <1>2 DEF Proposed, Acceptable, KeyIsFree, ProposalOf, Key
<1>3. ASSUME NEW a \in Attempts, Serve(a), ~Propose(a), ~ProposeFails(a)
      PROVE  UNCHANGED proposals
  BY <1>3, YieldingSteps DEF Serve, Write, WriteFails, PortResets, Abandon, Recall, Answer,
     Audit, AuditFails, Build, StreamChunk, StreamEnds, StreamFails, RecallDeclines,
     AnswerDeclines, BuildNothing, BuildFails, bend
<1>4. ASSUME NEW a \in Attempts, Propose(a) \/ ProposeFails(a) PROVE Proposed'
  BY <1>4, <1>1, <1>2 DEF Propose, ProposeFails
<1> QED BY <1>1, <1>3, <1>4 DEF Next, Refuse, RequestRaises, Admit, Disconnect, Withdraw, bend, vars

----------------------------------------------------------------------------
(* What is written, and in which order. *)

(* Only the last of some events may end a turn. *)
EndsWell(events) == \A k \in DOMAIN events : events[k] \in Terminal => k = Len(events)

LEMMA YieldsEndWell ==
  /\ EndsWell(<<"error">>) /\ EndsWell(<<"declined">>) /\ EndsWell(<<"completed">>)
  /\ EndsWell(<<"delta">>) /\ EndsWell(<<"delta", "completed">>)
  /\ EndsWell(<<"memory_proposal", "delta", "completed">>)
BY DEF EndsWell, Terminal

LEMMA WordsAfterYield ==
  ASSUME TypeOK, Words, NEW a \in Attempts, NEW s \in Recalling \cup {"streaming"},
         Running(a, s), seen' = seen, NEW stage, NEW events \in Seq(Events),
         Yield(a, stage, events),
         EndsWell(events),
         \/ stage = "finishing"
         \/ s = "streaming" /\ stage = "streaming" /\ events = <<"delta">>
  PROVE  Words'
<1>1. /\ pc' = [pc EXCEPT ![a] = stage] /\ outbox'[a] = events
      /\ \A b \in Attempts \ {a} : pc'[b] = pc[b] /\ outbox'[b] = outbox[b]
  BY DEF Yield, TypeOK, Running
<1>2. pc'[a] = stage /\ pc[a] = s
  BY <1>1 DEF TypeOK, Running
<1>3. \A k \in DOMAIN seen[a] : seen[a][k] \notin Terminal
  BY <1>2 DEF Words, Terminal
<1>4. stage = "streaming" => \A k \in DOMAIN seen[a] : seen[a][k] = "delta"
  BY <1>2 DEF Words, Recalling
<1>5. /\ stage = "finishing" \/ stage = "streaming"
      /\ stage = "streaming" => \A k \in DOMAIN events : events[k] = "delta"
  OBVIOUS
<1> QED BY <1>1, <1>2, <1>3, <1>4, <1>5 DEF Words, Recalling, EndsWell

(* An appended event is the last, the others are where they were. *)
LEMMA AppendAt ==
  ASSUME NEW S, NEW old \in Seq(S), NEW e \in S
  PROVE  \A k \in DOMAIN Append(old, e) :
           \/ k \in DOMAIN old /\ Append(old, e)[k] = old[k]
           \/ Append(old, e)[k] = e /\ k = Len(Append(old, e))
<1>1. /\ Append(old, e) \in Seq(S) /\ Len(Append(old, e)) = Len(old) + 1
      /\ \A i \in 1..Len(old) : Append(old, e)[i] = old[i]
      /\ Append(old, e)[Len(old) + 1] = e
  BY AppendProperties
<1>2. DOMAIN old = 1..Len(old) /\ Len(old) \in Nat /\ DOMAIN Append(old, e) = 1..(Len(old) + 1)
  BY <1>1
<1> QED BY <1>1, <1>2

LEMMA WordsAfterWrite ==
  ASSUME TypeOK, Words, NEW a \in Attempts, Write(a)
  PROVE  Words'
<1> DEFINE o == outbox[a]
           s == seen[a]
<1>1. /\ o \in Seq(Events) /\ s \in Seq(Events) /\ o # <<>>
      /\ outbox'[a] = Tail(o)
      /\ seen'[a] = IF connected[a] THEN Append(s, Head(o)) ELSE s
      /\ pc'[a] = IF pc[a] = "finishing" /\ Tail(o) = <<>> THEN "done" ELSE pc[a]
      /\ \A b \in Attempts \ {a} :
           pc'[b] = pc[b] /\ outbox'[b] = outbox[b] /\ seen'[b] = seen[b]
  BY DEF Write, AfterWrite, TypeOK
<1>2. pc[a] \in {"streaming", "finishing"}
  BY <1>1 DEF Words, Recalling, TypeOK, Stages
<1>3. \A k \in DOMAIN s : s[k] \notin Terminal
  BY <1>1 DEF Words
<1>4. \A k \in DOMAIN Tail(o) : k + 1 \in DOMAIN o /\ Tail(o)[k] = o[k + 1]
  BY <1>1
<1>5. Len(Tail(o)) = Len(o) - 1 /\ Len(o) \in Nat /\ Head(o) = o[1] /\ 1 \in DOMAIN o
  BY <1>1
<1>6. \A k \in DOMAIN outbox'[a] :
        outbox'[a][k] \in Terminal => k = Len(outbox'[a])
  <2> SUFFICES ASSUME NEW k \in DOMAIN Tail(o), Tail(o)[k] \in Terminal
               PROVE  k = Len(Tail(o))
    BY <1>1
  <2>1. k + 1 = Len(o)
    BY <1>4 DEF Words
  <2>2. k \in Nat
    BY <1>1
  <2> QED BY <2>1, <2>2, <1>5
<1>7. o[1] \in Terminal => Tail(o) = <<>>
  <2> SUFFICES ASSUME o[1] \in Terminal PROVE Tail(o) = <<>>
    OBVIOUS
  <2>1. Len(o) = 1
    BY <1>5 DEF Words
  <2>2. Tail(o) \in Seq(Events) /\ Len(Tail(o)) = 0
    BY <2>1, <1>1, <1>5
  <2> QED BY <2>2, EmptySeq
<1>8. \A k \in DOMAIN seen'[a] : \/ k \in DOMAIN s /\ seen'[a][k] = s[k]
                                 \/ seen'[a][k] = o[1] /\ k = Len(seen'[a])
  <2>1. CASE connected[a]
    <3>1. seen'[a] = Append(s, o[1]) /\ o[1] \in Events
      BY <2>1, <1>1, <1>5
    <3>2. \A k \in DOMAIN Append(s, o[1]) :
            \/ k \in DOMAIN s /\ Append(s, o[1])[k] = s[k]
            \/ Append(s, o[1])[k] = o[1] /\ k = Len(Append(s, o[1]))
      <4>1. s \in Seq(Events)
        BY <1>1
      <4> HIDE DEF o, s
      <4> QED BY <3>1, <4>1, AppendAt
    <3> QED BY <3>1, <3>2, Zenon
  <2>2. CASE ~connected[a]
    BY <2>2, <1>1
  <2> QED BY <2>1, <2>2
<1>9. \A k \in DOMAIN seen'[a] : seen'[a][k] \in Terminal =>
        k = Len(seen'[a]) /\ outbox'[a] = <<>>
  BY <1>1, <1>3, <1>7, <1>8
<1>10. pc'[a] = "streaming" =>
         /\ \A k \in DOMAIN seen'[a] : seen'[a][k] = "delta"
         /\ \A k \in DOMAIN outbox'[a] : outbox'[a][k] = "delta"
  <2> SUFFICES ASSUME pc'[a] = "streaming"
               PROVE  /\ \A k \in DOMAIN seen'[a] : seen'[a][k] = "delta"
                      /\ \A k \in DOMAIN outbox'[a] : outbox'[a][k] = "delta"
    OBVIOUS
  <2>1. pc[a] = "streaming"
    BY <1>1
  <2>2. /\ \A k \in DOMAIN s : s[k] = "delta"
        /\ \A k \in DOMAIN o : o[k] = "delta"
    BY <2>1 DEF Words
  <2> QED BY <2>2, <1>1, <1>4, <1>5, <1>8
<1>11. /\ pc'[a] \notin {"idle"} \cup Recalling
       /\ pc'[a] \in {"done", "cut", "raised"} => outbox'[a] = <<>>
  BY <1>1, <1>2 DEF Recalling
<1>12. \A b \in Attempts \ {a} :
         pc'[b] = pc[b] /\ outbox'[b] = outbox[b] /\ seen'[b] = seen[b]
  BY <1>1
<1> HIDE DEF o, s
<1> QED BY <1>6, <1>9, <1>10, <1>11, <1>12 DEF Words

LEMMA WordsStep == IInv /\ [Next]_vars => Words'
<1> SUFFICES ASSUME TypeOK, Words, [Next]_vars PROVE Words'
  BY DEF IInv
<1> USE DEF fixed, recalled, client, bend
<1>0. ASSUME NEW a \in Attempts, RequestRaises(a) PROVE Words'
  BY <1>0 DEF RequestRaises, Words, TypeOK, Recalling
<1>1. ASSUME NEW a \in Attempts, Refuse(a) PROVE Words'
  BY <1>1 DEF Refuse, Words, TypeOK, Recalling
<1>2. ASSUME NEW a \in Attempts, Admit(a) PROVE Words'
  BY <1>2 DEF Admit, Words, TypeOK, Recalling
<1>3. ASSUME NEW a \in Attempts, Write(a) PROVE Words'
  BY <1>3, WordsAfterWrite
<1>4. ASSUME NEW a \in Attempts, Abandon(a), outbox[a] # <<>> \/ pc[a] \in {"streaming", "building"}
      PROVE  Words'
  BY <1>4 DEF Abandon, Words, TypeOK, Recalling
<1>5. ASSUME NEW a \in Attempts, OnlyYields(a) PROVE Words'
  <2>1. seen' = seen
    BY <1>5 DEF OnlyYields
  <2>2. CASE Running(a, "streaming") /\ Yield(a, "streaming", <<"delta">>)
    BY <2>1, <2>2, WordsAfterYield, YieldsAreEvents, YieldsEndWell
  <2>3. CASE Running(a, "streaming") /\ Yield(a, "finishing", <<"completed">>)
    BY <2>1, <2>3, WordsAfterYield, YieldsAreEvents, YieldsEndWell
  <2>4. CASE Running(a, "building") /\ Yield(a, "finishing", <<"delta", "completed">>)
    BY <2>1, <2>4, WordsAfterYield, YieldsAreEvents, YieldsEndWell DEF Recalling
  <2>5. CASE /\ Running(a, "streaming") \/ Running(a, "building")
             /\ Yield(a, "finishing", <<"error">>)
    BY <2>1, <2>5, WordsAfterYield, YieldsAreEvents, YieldsEndWell DEF Recalling
  <2>6. CASE /\ Running(a, "recalling") \/ Running(a, "answering")
             /\ Yield(a, "finishing", <<"declined">>)
    BY <2>1, <2>6, WordsAfterYield, YieldsAreEvents, YieldsEndWell DEF Recalling
  <2> QED BY <1>5, <2>2, <2>3, <2>4, <2>5, <2>6 DEF OnlyYields
<1>7. ASSUME NEW a \in Attempts, Recall(a) \/ Answer(a) \/ Audit(a) \/ Build(a) PROVE Words'
  <2>1. PICK stage \in Recalling : pc' = [pc EXCEPT ![a] = stage]
    BY <1>7 DEF Recall, Answer, Audit, Build, Recalling
  <2>2. pc[a] \in Recalling /\ UNCHANGED <<outbox, seen>>
    BY <1>7 DEF Recall, Answer, Audit, Build, Running, Recalling
  <2>3. /\ pc'[a] = stage /\ outbox[a] = <<>> /\ seen[a] = <<>>
        /\ \A b \in Attempts \ {a} : pc'[b] = pc[b]
    BY <2>1, <2>2 DEF TypeOK, Words
  <2> QED BY <2>1, <2>2, <2>3 DEF Words, Recalling
<1>10. ASSUME NEW a \in Attempts, AuditFails(a) PROVE Words'
  <2>1. seen' = seen /\ Running(a, "auditing") /\ Yield(a, "finishing", <<"error">>)
    BY <1>10 DEF AuditFails, Raise
  <2> QED BY <2>1, WordsAfterYield, YieldsAreEvents, YieldsEndWell DEF Recalling
<1>12. ASSUME NEW a \in Attempts, Propose(a) PROVE Words'
  <2>1. /\ seen' = seen /\ Running(a, "proposing")
        /\ Yield(a, "finishing", <<"memory_proposal", "delta", "completed">>)
    BY <1>12 DEF Propose
  <2> QED BY <2>1, WordsAfterYield, YieldsAreEvents, YieldsEndWell DEF Recalling
<1>13. ASSUME NEW a \in Attempts, ProposeFails(a) PROVE Words'
  <2>1. seen' = seen /\ Running(a, "proposing") /\ Yield(a, "finishing", <<"error">>)
    BY <1>13 DEF ProposeFails, Raise
  <2> QED BY <2>1, WordsAfterYield, YieldsAreEvents, YieldsEndWell DEF Recalling
<1>14. ASSUME NEW a \in Attempts, Disconnect(a) PROVE Words'
  BY <1>14 DEF Disconnect, Words
<1>15. ASSUME NEW r \in Memories, Withdraw(r) PROVE Words'
  BY <1>15 DEF Withdraw, Words
<1>16. CASE UNCHANGED vars
  BY <1>16 DEF vars, Words
<1> QED BY <1>0, <1>1, <1>2, <1>3, <1>4, <1>5, YieldingSteps, <1>7, <1>10, <1>12, <1>13, <1>14, <1>15,
     <1>16 DEF Next, Serve, WriteFails, PortResets, Running

----------------------------------------------------------------------------
(* What the client may have of an answer. *)

(* A word of an answer that was written or waits to be. *)
Said(a) == \/ \E k \in DOMAIN seen[a] : seen[a][k] \in Answering
           \/ \E k \in DOMAIN outbox[a] : outbox[a][k] \in Answering

Owed(a) == AuditOf(a) \in audits /\ (candidate[a] # None => ProposalOf(a) \in proposals)

(* What a turn owes before its first word stays in Bend when neither what  *)
(* it cites nor its candidate changes.                                     *)
LEMMA OwedStays ==
  ASSUME NEW a, Owed(a), turn' = turn, cited'[a] = cited[a], candidate'[a] = candidate[a],
         audits \subseteq audits', proposals \subseteq proposals'
  PROVE  Owed(a)'
BY DEF Owed, AuditOf, ProposalOf, Key

LEMMA AccountedStep == IInv /\ [Next]_vars => Accounted'
<1> SUFFICES ASSUME TypeOK, Words, Material, Audited, [Next]_vars,
                    \A a \in Attempts : runtime = "memory" /\ Said(a) => Owed(a)
             PROVE  \A a \in Attempts : (runtime = "memory" /\ Said(a) => Owed(a))'
  BY DEF IInv, Accounted, Said, Owed
<1> USE DEF fixed, recalled, client, bend
(* A step after which whoever has something said had it before. *)
<1>1. ASSUME runtime' = runtime, turn' = turn, cited' = cited, candidate' = candidate,
             audits \subseteq audits', proposals \subseteq proposals',
             \A b \in Attempts : Said(b)' => Said(b)
      PROVE  \A b \in Attempts : (runtime = "memory" /\ Said(b) => Owed(b))'
  BY <1>1, OwedStays
(* A step that makes only a say something, when a owes nothing. *)
<1>2. ASSUME NEW a \in Attempts,
             runtime' = runtime, turn' = turn, cited' = cited, candidate' = candidate,
             audits \subseteq audits', proposals \subseteq proposals',
             \A b \in Attempts \ {a} : Said(b)' => Said(b),
             runtime = "memory" => Owed(a)'
      PROVE  \A b \in Attempts : (runtime = "memory" /\ Said(b) => Owed(b))'
  BY <1>2, OwedStays
<1>3. ASSUME NEW a \in Attempts, seen' = seen, NEW stage, NEW events \in Seq(Events),
             Yield(a, stage, events)
      PROVE  \A b \in Attempts \ {a} : Said(b)' => Said(b)
  <2>1. \A b \in Attempts \ {a} : outbox'[b] = outbox[b]
    BY <1>3 DEF Yield, TypeOK
  <2> QED BY <2>1, <1>3 DEF Said
<1>4. ASSUME NEW a \in Attempts, seen' = seen, NEW stage,
             Running(a, "recalling") \/ Running(a, "answering") \/ Running(a, "auditing")
               \/ Running(a, "building") \/ Running(a, "proposing") \/ Running(a, "streaming"),
             \/ Yield(a, stage, <<"error">>)
             \/ Yield(a, stage, <<"declined">>)
      PROVE  \A b \in Attempts : Said(b)' => Said(b)
  <2>1. outbox[a] = <<>> /\ outbox \in [Attempts -> Seq(Events)]
    BY <1>4 DEF Running, TypeOK
  <2>2. /\ \A b \in Attempts \ {a} : outbox'[b] = outbox[b]
        /\ outbox'[a] = <<"error">> \/ outbox'[a] = <<"declined">>
    BY <1>4, <2>1 DEF Yield
  <2>3. \A k \in DOMAIN outbox'[a] : outbox'[a][k] \notin Answering
    BY <2>2 DEF Answering
  <2> QED BY <1>4, <2>2, <2>3 DEF Said
<1>5. ASSUME NEW a \in Attempts, Refuse(a) \/ RequestRaises(a) \/ Admit(a)
      PROVE  \A b \in Attempts : (runtime = "memory" /\ Said(b) => Owed(b))'
  <2>1. /\ \A b \in Attempts \ {a} : outbox'[b] = outbox[b]
        /\ outbox'[a] = outbox[a] \/ outbox'[a] = <<"refused">>
        /\ seen' = seen
    BY <1>5 DEF Refuse, RequestRaises, Admit, TypeOK
  <2>2. <<"refused">>[1] \notin Answering /\ DOMAIN <<"refused">> = {1}
    BY DEF Answering
  <2>3. \A b \in Attempts : Said(b)' => Said(b)
    BY <2>1, <2>2 DEF Said
  <2> QED BY <2>3, <1>5, <1>1 DEF Refuse, RequestRaises, Admit
<1>6. ASSUME NEW a \in Attempts, Write(a)
      PROVE  \A b \in Attempts : (runtime = "memory" /\ Said(b) => Owed(b))'
  <2>1. /\ outbox[a] \in Seq(Events) /\ seen[a] \in Seq(Events) /\ outbox[a] # <<>>
        /\ outbox'[a] = Tail(outbox[a]) /\ Head(outbox[a]) \in Events
        /\ seen'[a] = IF connected[a] THEN Append(seen[a], Head(outbox[a])) ELSE seen[a]
        /\ \A b \in Attempts \ {a} : outbox'[b] = outbox[b] /\ seen'[b] = seen[b]
    BY <1>6 DEF Write, AfterWrite, TypeOK
  <2>2. \A k \in DOMAIN outbox'[a] : k + 1 \in DOMAIN outbox[a] /\ outbox'[a][k] = outbox[a][k + 1]
    BY <2>1
  <2>3. Head(outbox[a]) = outbox[a][1] /\ 1 \in DOMAIN outbox[a]
    BY <2>1
  <2>4. ASSUME NEW k \in DOMAIN seen'[a], seen'[a][k] \in Answering PROVE Said(a)
    <3>1. CASE connected[a]
      <4>1. seen'[a] = Append(seen[a], Head(outbox[a]))
        BY <3>1, <2>1
      <4>2. \/ k \in DOMAIN seen[a] /\ seen'[a][k] = seen[a][k]
            \/ seen'[a][k] = Head(outbox[a])
        BY <2>1, <2>4, <4>1, AppendAt
      <4> QED BY <4>2, <2>3, <2>4 DEF Said
    <3>2. CASE ~connected[a]
      BY <3>2, <2>1, <2>4 DEF Said
    <3> QED BY <3>1, <3>2
  <2>5. ASSUME NEW k \in DOMAIN outbox'[a], outbox'[a][k] \in Answering PROVE Said(a)
    BY <2>2, <2>5 DEF Said
  <2>6. Said(a)' => Said(a)
    BY <2>4, <2>5 DEF Said
  <2>7. \A b \in Attempts \ {a} : Said(b)' => Said(b)
    BY <2>1 DEF Said
  <2> QED BY <2>6, <2>7, <1>6, <1>1 DEF Write
<1>7. ASSUME NEW a \in Attempts, Abandon(a)
      PROVE  \A b \in Attempts : (runtime = "memory" /\ Said(b) => Owed(b))'
  <2>1. \A b \in Attempts : Said(b)' => Said(b)
    <3>1. /\ outbox'[a] = <<>> /\ seen' = seen
          /\ \A b \in Attempts \ {a} : outbox'[b] = outbox[b]
      BY <1>7 DEF Abandon, TypeOK
    <3> QED BY <3>1 DEF Said
  <2> QED BY <2>1, <1>7, <1>1 DEF Abandon
<1>8. ASSUME NEW a \in Attempts, OnlyYields(a)
      PROVE  \A b \in Attempts : (runtime = "memory" /\ Said(b) => Owed(b))'
  <2>1. /\ runtime' = runtime /\ turn' = turn /\ cited' = cited /\ candidate' = candidate
        /\ seen' = seen /\ audits \subseteq audits' /\ proposals \subseteq proposals'
    BY <1>8 DEF OnlyYields
  <2>2. CASE /\ Running(a, "streaming")
             /\ \/ Yield(a, "streaming", <<"delta">>) \/ Yield(a, "finishing", <<"completed">>)
    <3>1. runtime = "provider"
      BY <2>2 DEF Running, Material
    <3>2. \A b \in Attempts \ {a} : Said(b)' => Said(b)
      BY <2>1, <2>2, <1>3, YieldsAreEvents
    <3> QED BY <3>1, <3>2, <2>1, <1>2
  <2>3. CASE Running(a, "building") /\ Yield(a, "finishing", <<"delta", "completed">>)
    <3>1. Owed(a)
      BY <2>3 DEF Running, Audited, Material, Ended, Owed
    <3>2. Owed(a)'
      BY <3>1, <2>1, OwedStays
    <3>3. \A b \in Attempts \ {a} : Said(b)' => Said(b)
      BY <2>1, <2>3, <1>3, YieldsAreEvents
    <3> QED BY <3>2, <3>3, <2>1, <1>2
  <2>4. CASE \/ /\ Running(a, "streaming") \/ Running(a, "building")
                /\ Yield(a, "finishing", <<"error">>)
             \/ /\ Running(a, "recalling") \/ Running(a, "answering")
                /\ Yield(a, "finishing", <<"declined">>)
    BY <2>1, <2>4, <1>4, <1>1
  <2> QED BY <1>8, <2>2, <2>3, <2>4 DEF OnlyYields
<1>9. ASSUME NEW a \in Attempts, Recall(a) \/ Audit(a)
      PROVE  \A b \in Attempts : (runtime = "memory" /\ Said(b) => Owed(b))'
  <2>1. \A b \in Attempts : Said(b)' => Said(b)
    BY <1>9 DEF Recall, Audit, Said
  <2> QED BY <2>1, <1>9, <1>1 DEF Recall, Audit
(* The turn's citations and its candidate are settled before it says a word. *)
<1>10. ASSUME NEW a \in Attempts, Answer(a) \/ Build(a)
       PROVE  \A b \in Attempts : (runtime = "memory" /\ Said(b) => Owed(b))'
  <2>1. /\ runtime' = runtime /\ turn' = turn /\ seen' = seen /\ outbox' = outbox
        /\ audits' = audits /\ proposals' = proposals
        /\ \A b \in Attempts \ {a} : cited'[b] = cited[b] /\ candidate'[b] = candidate[b]
    BY <1>10 DEF Answer, Build, TypeOK
  <2>2. seen[a] = <<>> /\ outbox[a] = <<>>
    BY <1>10 DEF Answer, Build, Running, Words, Recalling
  <2>3. ~Said(a)'
    BY <2>1, <2>2 DEF Said
  <2>4. \A b \in Attempts : Said(b)' => Said(b)
    BY <2>1 DEF Said
  <2> QED BY <2>1, <2>3, <2>4, OwedStays
<1>11. ASSUME NEW a \in Attempts, AuditFails(a) \/ ProposeFails(a)
       PROVE  \A b \in Attempts : (runtime = "memory" /\ Said(b) => Owed(b))'
  <2>1. /\ runtime' = runtime /\ turn' = turn /\ cited' = cited /\ candidate' = candidate
        /\ seen' = seen /\ audits \subseteq audits' /\ proposals \subseteq proposals'
        /\ Running(a, "auditing") \/ Running(a, "proposing")
        /\ Yield(a, "finishing", <<"error">>)
    BY <1>11 DEF AuditFails, ProposeFails, Raise
  <2> QED BY <2>1, <1>4, <1>1
<1>12. ASSUME NEW a \in Attempts, Propose(a)
       PROVE  \A b \in Attempts : (runtime = "memory" /\ Said(b) => Owed(b))'
  <2>1. /\ runtime' = runtime /\ turn' = turn /\ cited' = cited /\ candidate' = candidate
        /\ seen' = seen /\ audits' = audits /\ proposals' = proposals \cup {ProposalOf(a)}
        /\ Running(a, "proposing")
        /\ Yield(a, "finishing", <<"memory_proposal", "delta", "completed">>)
    BY <1>12 DEF Propose
  <2>2. AuditOf(a) \in audits
    BY <2>1 DEF Running, Audited
  <2>3. Owed(a)'
    BY <2>1, <2>2 DEF Owed, AuditOf, ProposalOf, Key
  <2>4. \A b \in Attempts \ {a} : Said(b)' => Said(b)
    BY <2>1, <1>3, YieldsAreEvents
  <2> QED BY <2>1, <2>3, <2>4, <1>2
<1>13. ASSUME \/ \E a \in Attempts : Disconnect(a)
              \/ \E r \in Memories : Withdraw(r)
              \/ UNCHANGED vars
       PROVE  \A b \in Attempts : (runtime = "memory" /\ Said(b) => Owed(b))'
  <2>1. /\ UNCHANGED <<runtime, turn, cited, candidate, audits, proposals>>
        /\ \A b \in Attempts : Said(b)' => Said(b)
    BY <1>13 DEF Disconnect, Withdraw, vars, Said
  <2> QED BY <2>1, <1>1
<1> QED BY <1>5, <1>6, <1>7, <1>8, YieldingSteps, <1>9, <1>10, <1>11, <1>12, <1>13
        DEF Next, Serve, WriteFails, PortResets

----------------------------------------------------------------------------

LEMMA Inductive == Spec => []IInv
<1>1. IInv /\ [Next]_vars => IInv'
  BY TypeStep, WordsStep, MaterialStep, AuditedStep, ProposedStep, AccountedStep DEF IInv
<1> QED BY <1>1, InitIInv, PTL DEF Spec

(* TypeOK: variables keep the shapes the code gives them, Bend's audits and*)
(* proposals among them, whatever the turns do and whatever is lost.       *)
THEOREM TypeCorrect == Spec => []TypeOK
<1>1. IInv => TypeOK
  BY DEF IInv
<1> QED BY <1>1, Inductive, PTL

(* AnswersAreAccountedFor: a client of the governed memory runtime has no  *)
(* word of an answer before Bend has its audit and its proposal.           *)
THEOREM NoAnswerBeforeItsAudit == Spec => []AnswersAreAccountedFor
<1>1. IInv => AnswersAreAccountedFor
  BY DEF IInv, Accounted, AnswersAreAccountedFor, Got, Answering
<1> QED BY <1>1, Inductive, PTL

(* OneProposalPerMessage: a message that is sent any number of times leaves*)
(* at most one proposal in Bend.                                           *)
THEOREM RepeatedMessagesProposeOnce == Spec => []OneProposalPerMessage
<1>1. IInv => OneProposalPerMessage
  BY DEF IInv, Proposed, OneProposalPerMessage
<1> QED BY <1>1, Inductive, PTL

(* AuditsCiteGrantedMemory: what an audit says was used was, at the recall,*)
(* an active memory of the turn's own principal.                           *)
THEOREM CitedMemoryWasGranted == Spec => []AuditsCiteGrantedMemory
<1>1. IInv => AuditsCiteGrantedMemory
  BY DEF IInv, TypeOK, Audited, Material, AuditsCiteGrantedMemory
<1> QED BY <1>1, Inductive, PTL

(* TerminalIsLast: nothing follows the event that ends a turn. *)
THEOREM NothingAfterTheEnd == Spec => []TerminalIsLast
<1>1. IInv => TerminalIsLast
  BY DEF IInv, Words, TerminalIsLast
<1> QED BY <1>1, Inductive, PTL

----------------------------------------------------------------------------
(* Every turn implements Grounding. *)

LEMMA RetrievalInit == Init => \A a \in Attempts : TurnRetrieval(a)!Init
BY DEF Init, TurnRetrieval!Init, RetrievalOf, OwnMemories

(* Whose a memory is never changes.                                        *)
LEMMA OwnersStay ==
  ASSUME TypeOK, [Next]_vars, NEW a \in Attempts
  PROVE  OwnMemories(a)' = OwnMemories(a)
<1>1. turn' = turn
  BY DEF Next, Refuse, RequestRaises, Admit, Serve, Write, WriteFails, PortResets, Abandon, StreamChunk,
     StreamEnds, StreamFails, Recall, RecallDeclines, Answer, AnswerDeclines, Audit, AuditFails,
     Build, BuildNothing, BuildFails, Propose, ProposeFails, Disconnect, Withdraw, fixed, vars
<1>2. CASE memory' = memory
  BY <1>1, <1>2 DEF OwnMemories
<1>3. CASE memory' # memory
  <2>1. PICK r \in Memories : Withdraw(r)
    BY <1>3 DEF Next, Refuse, RequestRaises, Admit, Serve, Write, WriteFails, PortResets, Abandon, StreamChunk,
       StreamEnds, StreamFails, Recall, RecallDeclines, Answer, AnswerDeclines, Audit,
       AuditFails, Build, BuildNothing, BuildFails, Propose, ProposeFails, Disconnect, bend, vars
  <2>2. memory' = [memory EXCEPT ![r] = [memory[r] EXCEPT !.active = FALSE]]
    BY <2>1 DEF Withdraw
  <2>3. [memory[r] EXCEPT !.active = FALSE].owner = memory[r].owner
    BY DEF TypeOK
  <2>4. \A m \in Memories : memory'[m].owner = memory[m].owner
    BY <2>2, <2>3 DEF TypeOK
  <2> QED BY <1>1, <2>4 DEF OwnMemories
<1> QED BY <1>2, <1>3

(* A turn that neither recalls nor answers keeps its material, and its     *)
(* retrieval stays where it is or is refused.                              *)
LEMMA RetrievalEnds ==
  ASSUME Material, NEW a \in Attempts,
         OwnMemories(a)' = OwnMemories(a), context'[a] = context[a], cited'[a] = cited[a],
         RetrievalOf(a)' = RetrievalOf(a) \/ RetrievalOf(a)' = "refused",
         RetrievalOf(a) # "answered" \/ RetrievalOf(a)' = RetrievalOf(a)
  PROVE  [TurnRetrieval(a)!Next]_(TurnRetrieval(a)!vars)
BY DEF TurnRetrieval!Next, TurnRetrieval!Refuse, TurnRetrieval!vars, RetrievalOf

(* A step of one turn leaves the retrieval of every other one alone.       *)
LEMMA RetrievalStep ==
  ASSUME TypeOK, Material, [Next]_vars, NEW a \in Attempts
  PROVE  [TurnRetrieval(a)!Next]_(TurnRetrieval(a)!vars)
<1> DEFINE Goal == [TurnRetrieval(a)!Next]_(TurnRetrieval(a)!vars)
<1> USE DEF fixed, recalled, client, bend, Ended
<1>1. OwnMemories(a)' = OwnMemories(a)
  BY OwnersStay
<1>2. ASSUME pc'[a] = pc[a], UNCHANGED <<context, cited>> PROVE Goal
  <2>1. RetrievalOf(a)' = RetrievalOf(a)
    BY <1>2 DEF RetrievalOf
  <2> QED BY <1>1, <1>2, <2>1, RetrievalEnds
<1>3. ASSUME NEW b \in Attempts, Recall(b) PROVE Goal
  <2>1. CASE b # a
    <3>1. pc'[a] = pc[a] /\ context'[a] = context[a] /\ cited'[a] = cited[a]
      BY <1>3, <2>1 DEF Recall, TypeOK
    <3>2. RetrievalOf(a)' = RetrievalOf(a)
      BY <3>1 DEF RetrievalOf
    <3> QED BY <1>1, <3>1, <3>2, RetrievalEnds
  <2>2. CASE b = a
    <3>1. pc[a] = "recalling" /\ pc'[a] = "answering" /\ cited' = cited
      BY <1>3, <2>2 DEF Recall, Running, TypeOK
    <3>2. PICK scope \in Principals : \E records \in SUBSET OfScope(scope) :
            /\ ScopeMatches(a, scope)
            /\ \E bounded \in (SUBSET Authorized(a, scope, records)) \ {{}} :
                 context' = [context EXCEPT ![a] = bounded]
      BY <1>3, <2>2 DEF Recall
    <3>3. context'[a] \in (SUBSET OwnMemories(a)) \ {{}}
      BY <3>2 DEF TypeOK, OfScope, ScopeMatches, Authorized, OwnMemories
    <3>4. RetrievalOf(a) = "asked" /\ RetrievalOf(a)' = "consulting"
      BY <3>1 DEF RetrievalOf
    <3> QED BY <1>1, <3>1, <3>3, <3>4 DEF TurnRetrieval!Next, TurnRetrieval!Consult
  <2> QED BY <2>1, <2>2
<1>4. ASSUME NEW b \in Attempts, Answer(b) PROVE Goal
  <2>1. CASE b # a
    <3>1. pc'[a] = pc[a] /\ context'[a] = context[a] /\ cited'[a] = cited[a]
      BY <1>4, <2>1 DEF Answer, TypeOK
    <3>2. RetrievalOf(a)' = RetrievalOf(a)
      BY <3>1 DEF RetrievalOf
    <3> QED BY <1>1, <3>1, <3>2, RetrievalEnds
  <2>2. CASE b = a
    <3>1. /\ pc[a] = "answering" /\ pc'[a] = "auditing" /\ context' = context
          /\ cited'[a] \in (SUBSET context[a]) \ {{}}
      BY <1>4, <2>2 DEF Answer, Running, TypeOK
    <3>2. RetrievalOf(a) = "consulting" /\ RetrievalOf(a)' = "answered"
      BY <3>1 DEF RetrievalOf
    <3> QED BY <1>1, <3>1, <3>2 DEF TurnRetrieval!Next, TurnRetrieval!Complete
  <2> QED BY <2>1, <2>2
(* The other steps only move a thread. *)
<1>5. ASSUME NEW b \in Attempts, NEW stage, pc' = [pc EXCEPT ![b] = stage],
             UNCHANGED <<context, cited>>,
             \/ stage \in {"streaming", "recalling"} /\ pc[b] \in {"idle", "streaming"}
             \/ stage \in Ended
             \/ stage \in {"building", "proposing"} /\ pc[b] \in {"auditing", "building"}
      PROVE  Goal
  <2>1. CASE b # a
    BY <1>2, <1>5, <2>1 DEF TypeOK
  <2>2. CASE b = a
    <3>1. pc'[a] = stage
      BY <1>5, <2>2 DEF TypeOK
    <3>2. /\ RetrievalOf(a)' = RetrievalOf(a) \/ RetrievalOf(a)' = "refused"
          /\ RetrievalOf(a) # "answered" \/ RetrievalOf(a)' = RetrievalOf(a)
      BY <1>5, <2>2, <3>1 DEF RetrievalOf, Material
    <3> QED BY <1>1, <1>5, <3>2, RetrievalEnds
  <2> QED BY <2>1, <2>2
<1>6. ASSUME NEW b \in Attempts, Refuse(b) \/ RequestRaises(b) \/ Admit(b) PROVE Goal
  <2>1. PICK stage \in {"finishing", "raised", "streaming", "recalling"} : pc' = [pc EXCEPT ![b] = stage]
    BY <1>6 DEF Refuse, RequestRaises, Admit
  <2> QED BY <1>5, <1>6, <2>1 DEF Refuse, RequestRaises, Admit
<1>7. ASSUME NEW b \in Attempts, Write(b) PROVE Goal
  <2>1. \/ pc' = [pc EXCEPT ![b] = "done"]
        \/ pc' = pc
    BY <1>7 DEF Write, AfterWrite, TypeOK
  <2> QED BY <1>2, <1>5, <1>7, <2>1 DEF Write
<1>8. ASSUME NEW b \in Attempts, Abandon(b) PROVE Goal
  BY <1>5, <1>8 DEF Abandon
<1>9. ASSUME NEW b \in Attempts, OnlyYields(b) PROVE Goal
  BY <1>5, <1>9 DEF OnlyYields, Yield, Running
<1>10. ASSUME NEW b \in Attempts,
              Audit(b) \/ AuditFails(b) \/ Build(b) \/ Propose(b) \/ ProposeFails(b)
       PROVE  Goal
  BY <1>5, <1>10 DEF Audit, AuditFails, Build, Propose, ProposeFails, Raise, Yield, Running
<1>11. ASSUME \/ \E b \in Attempts : Disconnect(b)
              \/ \E r \in Memories : Withdraw(r)
              \/ UNCHANGED vars
       PROVE  Goal
  BY <1>2, <1>11 DEF Disconnect, Withdraw, vars
<1>12. Goal
  <2> HIDE DEF Goal
  <2> QED BY <1>3, <1>4, <1>6, <1>7, <1>8, <1>9, <1>10, <1>11, YieldingSteps
          DEF Next, Serve, WriteFails, PortResets
<1> QED BY <1>12

(* EveryTurnImplementsGrounding: a turn consults its provider once at most,*)
(* with memories of its own principal, and answers from these, whatever    *)
(* the other turns do and whatever their users withdraw.                   *)
THEOREM TurnsImplementGrounding == Spec => EveryTurnImplementsGrounding
<1>1. IInv /\ [Next]_vars =>
        \A a \in Attempts : [TurnRetrieval(a)!Next]_(TurnRetrieval(a)!vars)
  BY RetrievalStep DEF IInv
<1> QED BY <1>1, RetrievalInit, Inductive, PTL DEF Spec, EveryTurnImplementsGrounding

(* The same of one turn, as a refinement of the abstract specification.    *)
THEOREM TurnRefinesGrounding == \A a \in Attempts : Spec => TurnRetrieval(a)!Spec
<1> SUFFICES ASSUME NEW a \in Attempts PROVE Spec => TurnRetrieval(a)!Spec
  OBVIOUS
<1>1. Init => TurnRetrieval(a)!Init
  BY RetrievalInit
<1>2. IInv /\ [Next]_vars => [TurnRetrieval(a)!Next]_(TurnRetrieval(a)!vars)
  BY RetrievalStep DEF IInv
<1> QED BY <1>1, <1>2, Inductive, PTL DEF Spec, TurnRetrieval!Spec

----------------------------------------------------------------------------
(* How a turn's client hears of its end. *)

(* What is written last of a turn that runs to its end is terminal, and    *)
(* once it was written whoever is still there has it.                      *)
LastWord ==
  \A a \in Attempts :
    /\ pc[a] = "finishing" =>
         outbox[a] # <<>> /\ outbox[a][Len(outbox[a])] \in Terminal
    /\ connected[a] /\ pc[a] = "done" => \E k \in DOMAIN seen[a] : seen[a][k] \in Terminal

EndsTurn(events) == events \in Seq(Events) /\ events # <<>> /\ events[Len(events)] \in Terminal

LEMMA LastWordsAreTerminal ==
  /\ EndsTurn(<<"error">>) /\ EndsTurn(<<"declined">>) /\ EndsTurn(<<"refused">>)
  /\ EndsTurn(<<"completed">>) /\ EndsTurn(<<"delta", "completed">>)
  /\ EndsTurn(<<"memory_proposal", "delta", "completed">>)
BY DEF EndsTurn, Events, Terminal

LEMMA LastWordAfterWrite ==
  ASSUME TypeOK, Words, LastWord, NEW a \in Attempts, Write(a)
  PROVE  LastWord'
<1> DEFINE o == outbox[a]
           s == seen[a]
<1>1. /\ o \in Seq(Events) /\ s \in Seq(Events) /\ o # <<>>
      /\ outbox'[a] = Tail(o)
      /\ seen'[a] = IF connected[a] THEN Append(s, Head(o)) ELSE s
      /\ pc'[a] = IF pc[a] = "finishing" /\ Tail(o) = <<>> THEN "done" ELSE pc[a]
      /\ connected' = connected
      /\ \A b \in Attempts \ {a} :
           pc'[b] = pc[b] /\ outbox'[b] = outbox[b] /\ seen'[b] = seen[b]
  BY DEF Write, AfterWrite, TypeOK, client
<1>2. pc[a] # "done"
  BY <1>1 DEF Words
<1>3. pc'[a] = "finishing" => Tail(o) # <<>> /\ Tail(o)[Len(Tail(o))] \in Terminal
  <2> SUFFICES ASSUME pc'[a] = "finishing"
               PROVE  Tail(o) # <<>> /\ Tail(o)[Len(Tail(o))] \in Terminal
    OBVIOUS
  <2>1. pc[a] = "finishing" /\ Tail(o) # <<>> /\ o[Len(o)] \in Terminal
    BY <1>1 DEF LastWord
  <2>2. Tail(o)[Len(Tail(o))] = o[Len(o)]
    BY <1>1, <2>1
  <2> QED BY <2>1, <2>2
<1>4. connected[a] /\ pc'[a] = "done" => \E k \in DOMAIN seen'[a] : seen'[a][k] \in Terminal
  <2> SUFFICES ASSUME connected[a], pc'[a] = "done"
               PROVE  \E k \in DOMAIN seen'[a] : seen'[a][k] \in Terminal
    OBVIOUS
  <2>1. pc[a] = "finishing" /\ Tail(o) = <<>> /\ o[Len(o)] \in Terminal
    BY <1>1, <1>2 DEF LastWord
  <2>2. Len(o) = 1 /\ Head(o) = o[Len(o)]
    <3>1. Len(Tail(o)) = 0
      <4>1. Len(<<>>) = 0
        OBVIOUS
      <4> HIDE DEF o
      <4> QED BY <2>1, <4>1, Zenon
    <3>2. Len(Tail(o)) = Len(o) - 1 /\ Len(o) \in Nat
      BY <1>1
    <3>3. Len(o) = 1
      BY <3>1, <3>2
    <3> QED BY <1>1, <3>3
  <2>3. seen'[a] = Append(s, Head(o)) /\ Head(o) \in Events
    BY <1>1
  <2>4. Len(s) + 1 \in DOMAIN seen'[a] /\ seen'[a][Len(s) + 1] = Head(o)
    <3> HIDE DEF o, s
    <3> QED BY <1>1, <2>3
  <2> QED BY <2>1, <2>2, <2>4
<1> HIDE DEF o, s
<1> QED BY <1>1, <1>3, <1>4 DEF LastWord

LEMMA LastWordStep == IInv /\ LastWord /\ [Next]_vars => LastWord'
<1> SUFFICES ASSUME TypeOK, Words, LastWord, [Next]_vars PROVE LastWord'
  BY DEF IInv
<1> USE DEF fixed, recalled, client, bend, Running
(* A thread that is not yet at its end, and does not come there.           *)
<1>1. ASSUME NEW a \in Attempts, NEW stage, stage \notin {"finishing", "done"},
             pc' = [pc EXCEPT ![a] = stage],
             outbox' = outbox \/ outbox' = [outbox EXCEPT ![a] = outbox'[a]],
             UNCHANGED <<seen, connected>>
      PROVE  LastWord'
  BY <1>1 DEF TypeOK, LastWord
(* A thread that comes to its end with its last words to be written.       *)
<1>2. ASSUME NEW a \in Attempts, NEW events, EndsTurn(events),
             outbox[a] = <<>>, Yield(a, "finishing", events), UNCHANGED <<seen, connected>>
      PROVE  LastWord'
  <2>1. pc'[a] = "finishing" /\ outbox'[a] = events
    BY <1>2 DEF Yield, TypeOK, EndsTurn
  <2>2. \A b \in Attempts \ {a} : pc'[b] = pc[b] /\ outbox'[b] = outbox[b]
    BY <1>2 DEF Yield, TypeOK
  <2> QED BY <1>2, <2>1, <2>2 DEF LastWord, EndsTurn
<1>3. ASSUME NEW a \in Attempts, Refuse(a) PROVE LastWord'
  <2>1. outbox[a] = <<>> /\ outbox[a] \o <<"refused">> = <<"refused">>
    <3>1. pc[a] = "idle"
      BY <1>3 DEF Refuse
    <3>2. outbox[a] = <<>>
      BY <3>1 DEF Words
    <3> QED BY <3>2
  <2>2. Yield(a, "finishing", <<"refused">>)
    BY <1>3, <2>1 DEF Refuse, Yield, TypeOK
  <2>3. UNCHANGED <<seen, connected>>
    BY <1>3 DEF Refuse
  <2> QED BY <1>2, <2>1, <2>2, <2>3, LastWordsAreTerminal
<1>4. ASSUME NEW a \in Attempts, RequestRaises(a) \/ Admit(a) PROVE LastWord'
  <2>1. PICK stage \in {"streaming", "recalling", "raised"} : pc' = [pc EXCEPT ![a] = stage]
    BY <1>4 DEF RequestRaises, Admit
  <2> QED BY <1>1, <1>4, <2>1 DEF RequestRaises, Admit
<1>5. ASSUME NEW a \in Attempts, Write(a) PROVE LastWord'
  BY <1>5, LastWordAfterWrite
<1>6. ASSUME NEW a \in Attempts, Abandon(a) PROVE LastWord'
  <2>1. outbox' = [outbox EXCEPT ![a] = outbox'[a]]
    BY <1>6 DEF Abandon, TypeOK
  <2> QED BY <1>1, <1>6, <2>1 DEF Abandon
<1>7. ASSUME NEW a \in Attempts, OnlyYields(a) PROVE LastWord'
  <2>1. CASE Yield(a, "streaming", <<"delta">>)
    <3>1. outbox' = [outbox EXCEPT ![a] = outbox'[a]]
      BY <2>1 DEF Yield, TypeOK
    <3> QED BY <1>1, <1>7, <2>1, <3>1 DEF OnlyYields, Yield
  <2>2. CASE ~Yield(a, "streaming", <<"delta">>)
    BY <1>2, <1>7, <2>2, LastWordsAreTerminal DEF OnlyYields
  <2> QED BY <2>1, <2>2
<1>8. ASSUME NEW a \in Attempts, Recall(a) \/ Answer(a) \/ Audit(a) \/ Build(a) PROVE LastWord'
  BY <1>1, <1>8 DEF Recall, Answer, Audit, Build
<1>9. ASSUME NEW a \in Attempts, AuditFails(a) \/ Propose(a) \/ ProposeFails(a) PROVE LastWord'
  BY <1>2, <1>9, LastWordsAreTerminal DEF AuditFails, Propose, ProposeFails, Raise
<1>10. ASSUME NEW a \in Attempts, Disconnect(a) PROVE LastWord'
  BY <1>10 DEF Disconnect, LastWord, TypeOK
<1>11. ASSUME NEW r \in Memories, Withdraw(r) PROVE LastWord'
  BY <1>11 DEF Withdraw, LastWord
<1>12. CASE UNCHANGED vars
  BY <1>12 DEF vars, LastWord
<1> QED BY <1>3, <1>4, <1>5, <1>6, <1>7, YieldingSteps, <1>8, <1>9, <1>10, <1>11, <1>12
        DEF Next, Serve, WriteFails, PortResets

(* FinishedTurnsAreTold: a client that stays has the last word of a turn   *)
(* that ran to its end and of a request that was refused.  A turn that a   *)
(* connection error of a port cut off, and a request whose body or         *)
(* credential made do_POST raise, are no such turns.                       *)
THEOREM FinishedTellTheEnd == Spec => []FinishedTurnsAreTold
<1>1. Init => LastWord
  BY DEF Init, LastWord
<1>2. IInv /\ LastWord => FinishedTurnsAreTold
  BY DEF LastWord, FinishedTurnsAreTold, Got
<1> QED BY <1>1, <1>2, Inductive, LastWordStep, PTL DEF Spec

----------------------------------------------------------------------------
(* A turn ends within a number of steps known when it comes in. *)

LEMMA StepsAhead ==
  /\ \A s \in Stages : StepsFrom[s] \in Nat
  /\ StepsFrom["done"] = 0 /\ StepsFrom["cut"] = 0 /\ StepsFrom["finishing"] = 1
  /\ StepsFrom["raised"] = 0
  /\ StepsFrom["streaming"] = 3 /\ StepsFrom["proposing"] = 5 /\ StepsFrom["building"] = 6
  /\ StepsFrom["auditing"] = 7 /\ StepsFrom["answering"] = 8 /\ StepsFrom["recalling"] = 9
  /\ StepsFrom["idle"] = 10
BY DEF StepsFrom, Stages

(* The stream brings no more chunks than it may. *)
ChunksFit == \A a \in Attempts : chunks[a] <= MaxChunks

LEMMA ChunksFitStep == TypeOK /\ ChunksFit /\ [Next]_vars => ChunksFit'
<1> SUFFICES ASSUME TypeOK, ChunksFit, [Next]_vars PROVE ChunksFit'
  OBVIOUS
<1>1. CASE UNCHANGED chunks
  BY <1>1 DEF ChunksFit
<1>2. ASSUME NEW a \in Attempts, StreamChunk(a) PROVE ChunksFit'
  BY <1>2, ChatTurnsAssumption DEF StreamChunk, ChunksFit, TypeOK
<1>3. ASSUME NEW a \in Attempts, Serve(a), ~StreamChunk(a) PROVE UNCHANGED chunks
  BY <1>3 DEF Serve, Write, WriteFails, PortResets, Abandon, Recall, Answer, Audit, AuditFails,
     Build, StreamEnds, StreamFails, RecallDeclines, AnswerDeclines, BuildNothing, BuildFails,
     Propose, ProposeFails
<1> QED BY <1>1, <1>2, <1>3 DEF Next, Refuse, RequestRaises, Admit, Disconnect, Withdraw, vars

LEMMA RemainingType == TypeOK /\ ChunksFit => \A a \in Attempts : Remaining(a) \in Nat
<1> SUFFICES ASSUME TypeOK, ChunksFit, NEW a \in Attempts PROVE Remaining(a) \in Nat
  OBVIOUS
<1>1. /\ pc[a] \in Stages /\ outbox[a] \in Seq(Events) /\ chunks[a] \in Nat
      /\ chunks[a] <= MaxChunks
  BY DEF TypeOK, ChunksFit
<1>2. StepsFrom[pc[a]] \in Nat /\ Len(outbox[a]) \in Nat
  BY <1>1, StepsAhead
<1>3. 2 * (MaxChunks - chunks[a]) \in Nat
  BY <1>1, ChatTurnsAssumption
<1> QED BY <1>2, <1>3 DEF Remaining

(* The steps of a turn's thread: it comes to a stage and leaves words to   *)
(* write, which together are less than what was ahead of it.               *)
LEMMA ThreadAdvances ==
  ASSUME TypeOK, NEW a \in Attempts, NEW stage \in Stages, NEW words \in Seq(Events),
         pc' = [pc EXCEPT ![a] = stage], outbox' = [outbox EXCEPT ![a] = words],
         chunks' = chunks,
         StepsFrom[stage] + Len(words) < StepsFrom[pc[a]] + Len(outbox[a])
  PROVE  Remaining(a)' < Remaining(a)
<1>1. pc'[a] = stage /\ outbox'[a] = words /\ chunks'[a] = chunks[a]
  BY DEF TypeOK
<1>2. pc[a] \in Stages /\ outbox[a] \in Seq(Events) /\ chunks[a] \in Nat
  BY DEF TypeOK
<1>3. /\ StepsFrom[stage] \in Nat /\ StepsFrom[pc[a]] \in Nat
      /\ Len(words) \in Nat /\ Len(outbox[a]) \in Nat
  BY <1>2, StepsAhead
<1>4. 2 * (MaxChunks - chunks[a]) \in Int
  BY <1>2, ChatTurnsAssumption
<1>5. Remaining(a)' = StepsFrom[stage] + Len(words) + 2 * (MaxChunks - chunks[a])
  BY <1>1 DEF Remaining
<1>6. Remaining(a) = StepsFrom[pc[a]] + Len(outbox[a]) + 2 * (MaxChunks - chunks[a])
  BY DEF Remaining
<1> QED BY <1>3, <1>4, <1>5, <1>6

(* A yield costs the stage it leaves more than the words it adds.          *)
LEMMA YieldAdvances ==
  ASSUME TypeOK, NEW a \in Attempts, NEW stage \in Stages, NEW events \in Seq(Events),
         Yield(a, stage, events), outbox[a] = <<>>, chunks' = chunks,
         StepsFrom[stage] + Len(events) < StepsFrom[pc[a]]
  PROVE  Remaining(a)' < Remaining(a)
<1>1. outbox' = [outbox EXCEPT ![a] = events] /\ pc' = [pc EXCEPT ![a] = stage]
  BY DEF Yield, TypeOK
<1>2. StepsFrom[pc[a]] + Len(outbox[a]) = StepsFrom[pc[a]]
  BY StepsAhead DEF TypeOK
<1> QED BY <1>1, <1>2, ThreadAdvances

LEMMA OwnStepsAdvance ==
  ASSUME TypeOK, Words, NEW a \in Attempts, Refuse(a) \/ RequestRaises(a) \/ Admit(a) \/ Serve(a)
  PROVE  Remaining(a)' < Remaining(a)
<1> DEFINE Goal == Remaining(a)' < Remaining(a)
<1>0. /\ pc[a] \in Stages /\ outbox[a] \in Seq(Events) /\ chunks[a] \in Nat
      /\ Len(outbox[a]) \in Nat /\ StepsFrom[pc[a]] \in Nat
      /\ outbox[a] # <<>> => Len(outbox[a]) > 0
  BY StepsAhead DEF TypeOK
<1>1. ASSUME NEW stage \in Stages, pc' = [pc EXCEPT ![a] = stage], UNCHANGED <<outbox, chunks>>,
             StepsFrom[stage] < StepsFrom[pc[a]]
      PROVE  Goal
  <2>1. outbox' = [outbox EXCEPT ![a] = outbox[a]]
    BY <1>1 DEF TypeOK
  <2>2. StepsFrom[stage] + Len(outbox[a]) < StepsFrom[pc[a]] + Len(outbox[a])
    BY <1>0, <1>1, StepsAhead
  <2> QED BY <1>0, <1>1, <2>1, <2>2, ThreadAdvances
<1>2. CASE Refuse(a)
  <2>1. "finishing" \in Stages /\ <<"refused">> \in Seq(Events) /\ Len(<<"refused">>) = 1
    BY YieldsAreEvents, StagesOfYields
  <2>2. StepsFrom["finishing"] + Len(<<"refused">>) < StepsFrom[pc[a]] + Len(outbox[a])
    BY <1>0, <1>2, <2>1, StepsAhead DEF Refuse
  <2> QED BY <1>2, <2>1, <2>2, ThreadAdvances DEF Refuse
<1>3. CASE RequestRaises(a) \/ Admit(a)
  <2>1. PICK stage \in {"streaming", "recalling", "raised"} : pc' = [pc EXCEPT ![a] = stage]
    BY <1>3 DEF RequestRaises, Admit
  <2>2. stage \in Stages /\ StepsFrom[stage] < StepsFrom[pc[a]]
    BY <1>3, <2>1, StepsAhead DEF RequestRaises, Admit, Stages
  <2> QED BY <1>1, <1>3, <2>1, <2>2 DEF RequestRaises, Admit
<1>4. CASE Write(a)
  <2>1. outbox[a] # <<>> /\ chunks' = chunks /\ outbox' = [outbox EXCEPT ![a] = Tail(outbox[a])]
    BY <1>4 DEF Write, AfterWrite
  <2>2. Tail(outbox[a]) \in Seq(Events) /\ Len(Tail(outbox[a])) = Len(outbox[a]) - 1
    BY <1>0, <2>1
  <2>3. PICK stage \in {"done", pc[a]} :
          /\ pc' = [pc EXCEPT ![a] = stage]
          /\ stage # pc[a] => pc[a] = "finishing"
    BY <1>4 DEF Write, AfterWrite
  <2>4. stage \in Stages /\ StepsFrom[stage] <= StepsFrom[pc[a]]
    BY <1>0, <2>3, StepsAhead DEF Stages
  <2>5. StepsFrom[stage] + Len(Tail(outbox[a])) < StepsFrom[pc[a]] + Len(outbox[a])
    BY <1>0, <2>2, <2>4, StepsAhead
  <2> QED BY <2>1, <2>2, <2>3, <2>4, <2>5, ThreadAdvances
<1>5. CASE WriteFails(a) \/ PortResets(a)
  <2>1. Abandon(a) /\ (outbox[a] # <<>> \/ pc[a] \in {"streaming", "building"})
    BY <1>5 DEF WriteFails, PortResets, Running
  <2>2. "cut" \in Stages /\ <<>> \in Seq(Events) /\ Len(<<>>) = 0
    BY DEF Stages
  <2>3. StepsFrom["cut"] + Len(<<>>) < StepsFrom[pc[a]] + Len(outbox[a])
    BY <1>0, <2>1, <2>2, StepsAhead
  <2> QED BY <2>1, <2>2, <2>3, ThreadAdvances DEF Abandon
<1>6. CASE StreamChunk(a)
  <2>1. /\ pc'[a] = "streaming" /\ pc[a] = "streaming" /\ outbox[a] = <<>>
        /\ outbox'[a] = <<"delta">> /\ chunks'[a] = chunks[a] + 1
    BY <1>6 DEF StreamChunk, Running, Yield, TypeOK
  <2>2. Len(<<>>) = 0 /\ Len(<<"delta">>) = 1
    OBVIOUS
  <2>3. Remaining(a)' = StepsFrom["streaming"] + 1 + 2 * (MaxChunks - (chunks[a] + 1))
    BY <2>1, <2>2 DEF Remaining
  <2>4. Remaining(a) = StepsFrom["streaming"] + 0 + 2 * (MaxChunks - chunks[a])
    BY <2>1, <2>2 DEF Remaining
  <2>5. 2 * (MaxChunks - (chunks[a] + 1)) = 2 * (MaxChunks - chunks[a]) - 2
    BY <1>0, ChatTurnsAssumption
  <2>6. 2 * (MaxChunks - chunks[a]) \in Int
    BY <1>0, ChatTurnsAssumption
  <2> QED BY <2>3, <2>4, <2>5, <2>6, StepsAhead
<1>7. ASSUME NEW events \in Seq(Events), Yield(a, "finishing", events), outbox[a] = <<>>,
             chunks' = chunks, 1 + Len(events) < StepsFrom[pc[a]]
      PROVE  Goal
  BY <1>7, StagesOfYields, StepsAhead, YieldAdvances
<1>8. CASE StreamEnds(a) \/ StreamFails(a) \/ RecallDeclines(a) \/ AnswerDeclines(a)
  <2>1. PICK events \in {<<"error">>, <<"declined">>, <<"completed">>} :
          Yield(a, "finishing", events)
    BY <1>8 DEF StreamEnds, StreamFails, RecallDeclines, AnswerDeclines, Raise, Decline
  <2>2. /\ pc[a] \in {"streaming", "recalling", "answering"} /\ outbox[a] = <<>>
        /\ chunks' = chunks
    BY <1>8 DEF StreamEnds, StreamFails, RecallDeclines, AnswerDeclines, Running
  <2>3. events \in Seq(Events) /\ Len(events) = 1
    BY YieldsAreEvents
  <2>4. 1 + Len(events) < StepsFrom[pc[a]]
    BY <2>2, <2>3, StepsAhead
  <2> QED BY <1>7, <2>1, <2>2, <2>3, <2>4
<1>9. CASE \/ BuildNothing(a) \/ BuildFails(a) \/ AuditFails(a)
           \/ Propose(a) \/ ProposeFails(a)
  <2>1. PICK events \in {<<"error">>, <<"delta", "completed">>,
                         <<"memory_proposal", "delta", "completed">>} :
          Yield(a, "finishing", events)
    BY <1>9 DEF BuildNothing, BuildFails, AuditFails, Propose, ProposeFails, Raise
  <2>2. /\ pc[a] \in {"building", "auditing", "proposing"} /\ outbox[a] = <<>>
        /\ chunks' = chunks
    BY <1>9 DEF BuildNothing, BuildFails, AuditFails, Propose, ProposeFails, Running
  <2>3. events \in Seq(Events)
    BY YieldsAreEvents
  <2>4. Len(events) \in {1, 2, 3}
    OBVIOUS
  <2>5. StepsFrom[pc[a]] \in {5, 6, 7}
    BY <2>2, StepsAhead
  <2>6. 1 + Len(events) < StepsFrom[pc[a]]
    <3> DEFINE n == Len(events)
               m == StepsFrom[pc[a]]
    <3>1. n \in {1, 2, 3} /\ m \in {5, 6, 7}
      BY <2>4, <2>5
    <3> HIDE DEF n, m
    <3>2. 1 + n < m
      BY <3>1
    <3> QED BY <3>2 DEF n, m
  <2> QED BY <1>7, <2>1, <2>2, <2>3, <2>6
<1>10. CASE Recall(a) \/ Answer(a) \/ Audit(a) \/ Build(a)
  <2>1. {"answering", "auditing", "building", "proposing"} \subseteq Stages
    BY DEF Stages
  <2>2. UNCHANGED <<outbox, chunks>>
    BY <1>10 DEF Recall, Answer, Audit, Build
  <2> QED BY <1>1, <1>10, <2>1, <2>2, StepsAhead DEF Recall, Answer, Audit, Build, Running
<1> QED BY <1>2, <1>3, <1>4, <1>5, <1>6, <1>8, <1>9, <1>10 DEF Serve

(* A turn is not moved by the steps of others. *)
LEMMA OthersStay ==
  ASSUME TypeOK, NEW a \in Attempts, NEW b \in Attempts \ {a},
         Refuse(b) \/ RequestRaises(b) \/ Admit(b) \/ Serve(b)
  PROVE  Remaining(a)' = Remaining(a)
<1>1. ASSUME NEW events, NEW stage, Yield(b, stage, events)
      PROVE  pc'[a] = pc[a] /\ outbox'[a] = outbox[a]
  BY <1>1 DEF Yield, TypeOK
<1>2. CASE Refuse(b) \/ RequestRaises(b) \/ Admit(b)
  BY <1>2 DEF Refuse, RequestRaises, Admit, Remaining, TypeOK
<1>3. CASE Write(b) \/ WriteFails(b) \/ PortResets(b)
  BY <1>3 DEF Write, AfterWrite, WriteFails, PortResets, Abandon, Remaining, TypeOK
<1>4. CASE Recall(b) \/ Answer(b) \/ Audit(b) \/ Build(b)
  BY <1>4 DEF Recall, Answer, Audit, Build, Remaining, TypeOK
<1>5. CASE StreamChunk(b)
  <2>1. chunks'[a] = chunks[a]
    BY <1>5 DEF StreamChunk, TypeOK
  <2> QED BY <1>1, <1>5, <2>1 DEF StreamChunk, Remaining
<1>6. CASE \/ StreamEnds(b) \/ StreamFails(b) \/ RecallDeclines(b) \/ AnswerDeclines(b)
           \/ AuditFails(b) \/ BuildNothing(b) \/ BuildFails(b) \/ Propose(b)
           \/ ProposeFails(b)
  <2>1. chunks' = chunks /\ \E stage, events : Yield(b, stage, events)
    BY <1>6 DEF StreamEnds, StreamFails, RecallDeclines, AnswerDeclines, AuditFails,
       BuildNothing, BuildFails, Propose, ProposeFails, Raise, Decline
  <2> QED BY <1>1, <2>1 DEF Remaining
<1> QED BY <1>2, <1>3, <1>4, <1>5, <1>6 DEF Serve

(* TurnsRunOut, and what is ahead of a turn is a number: a turn ends after *)
(* at most ten steps of its thread and two for each chunk, whatever fails  *)
(* and whatever others do, if only its thread goes on.                     *)
THEOREM TurnsEndInBoundedSteps ==
  Spec => /\ [](\A a \in Attempts : Remaining(a) \in 0 .. (10 + 2 * MaxChunks))
          /\ TurnsRunOut
<1> DEFINE Number == \A a \in Attempts : Remaining(a) \in Nat
           Fit == \A a \in Attempts : Remaining(a) \in 0 .. (10 + 2 * MaxChunks)
           Step == \A a \in Attempts :
                     /\ Remaining(a)' <= Remaining(a)
                     /\ Refuse(a) \/ RequestRaises(a) \/ Admit(a) \/ Serve(a) => Remaining(a)' < Remaining(a)
<1>1. Init => ChunksFit /\ Fit
  <2> SUFFICES ASSUME Init, NEW a \in Attempts
               PROVE  chunks[a] <= MaxChunks /\ Remaining(a) \in 0 .. (10 + 2 * MaxChunks)
    BY DEF ChunksFit
  <2>1. pc[a] = "idle" /\ outbox[a] = <<>> /\ chunks[a] = 0
    BY DEF Init
  <2>2. Remaining(a) = 10 + 0 + 2 * (MaxChunks - 0)
    BY <2>1, StepsAhead DEF Remaining
  <2> QED BY <2>1, <2>2, ChatTurnsAssumption
<1>2. IInv /\ ChunksFit /\ [Next]_vars => ChunksFit'
  BY ChunksFitStep DEF IInv
<1>3. IInv /\ ChunksFit => Number
  BY RemainingType DEF IInv
<1>4. IInv /\ Number /\ Number' /\ [Next]_vars => Step
  <2> SUFFICES ASSUME TypeOK, Words, Number, Number', [Next]_vars, NEW a \in Attempts
               PROVE  /\ Remaining(a)' <= Remaining(a)
                      /\ Refuse(a) \/ RequestRaises(a) \/ Admit(a) \/ Serve(a) => Remaining(a)' < Remaining(a)
    BY DEF IInv
  <2>1. Refuse(a) \/ RequestRaises(a) \/ Admit(a) \/ Serve(a) => Remaining(a)' < Remaining(a)
    BY OwnStepsAdvance
  <2>2. ASSUME NEW b \in Attempts \ {a}, Refuse(b) \/ RequestRaises(b) \/ Admit(b) \/ Serve(b)
        PROVE  Remaining(a)' = Remaining(a)
    BY <2>2, OthersStay
  <2>3. ASSUME \/ \E b \in Attempts : Disconnect(b)
               \/ \E r \in Memories : Withdraw(r)
               \/ UNCHANGED vars
        PROVE  Remaining(a)' = Remaining(a)
    BY <2>3 DEF Disconnect, Withdraw, vars, Remaining
  <2>4. Remaining(a)' < Remaining(a) \/ Remaining(a)' = Remaining(a)
    BY <2>1, <2>2, <2>3 DEF Next
  <2>5. Remaining(a) \in Nat /\ Remaining(a)' \in Nat
    OBVIOUS
  <2> QED BY <2>1, <2>4, <2>5
<1>5. Fit /\ Step /\ Number' => Fit'
  <2> SUFFICES ASSUME Fit, Step, Number', NEW a \in Attempts
               PROVE  Remaining(a)' \in 0 .. (10 + 2 * MaxChunks)
    OBVIOUS
  <2>1. Remaining(a)' \in Nat /\ Remaining(a)' <= Remaining(a)
    OBVIOUS
  <2> QED BY <2>1, ChatTurnsAssumption
<1> HIDE DEF Number, Fit, Step
<1>6. Spec => []Fit /\ [][Step]_vars
  BY <1>1, <1>2, <1>3, <1>4, <1>5, Inductive, PTL DEF Spec
<1> QED BY <1>6 DEF Fit, Step, TurnsRunOut
=============================================================================
